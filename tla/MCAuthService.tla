--------------------------- MODULE MCAuthService ---------------------------
(* Model values for AuthService.  Requests, and e-mails, are interchangeable. *)
EXTENDS AuthService, TLC

Symmetry == Permutations(Req) \cup Permutations(Email)
=============================================================================

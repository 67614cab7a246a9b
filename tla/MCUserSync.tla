----------------------------- MODULE MCUserSync -----------------------------
(* Model values for UserSync.  Users, and e-mails, are interchangeable. *)
EXTENDS UserSync, TLC

Symmetry == Permutations(User) \cup Permutations(Email)
=============================================================================

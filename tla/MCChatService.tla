---------------------------- MODULE MCChatService ----------------------------
(* Model values for ChatService.  Requests, and users, are interchangeable. *)
EXTENDS ChatService, TLC

Symmetry == Permutations(Req) \cup Permutations(User)
=============================================================================

---------------------------- MODULE MCMessageFeed ----------------------------
(* Model values for MessageFeed.  Messages are interchangeable. *)
EXTENDS MessageFeed, TLC

Symmetry == Permutations(Msg)
=============================================================================

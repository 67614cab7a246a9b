----------------------------- MODULE MCGateway ------------------------------
(* Model values for Gateway. *)
EXTENDS Gateway, TLC
=============================================================================

------------------------------ MODULE MCAgent ------------------------------
(* Agent on a small instance: one request of each kind, named for it.       *)
EXTENDS Agent

MCKind == [r \in Req |-> r]
=============================================================================

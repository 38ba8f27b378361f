----------------------------- MODULE MCGossip -----------------------------
(* Gossip on a small instance: every node has a name of its own.            *)
EXTENDS Gossip

MCHostName == [i \in Identity |-> i]
=============================================================================

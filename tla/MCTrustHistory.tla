-------------------------- MODULE MCTrustHistory --------------------------
(* TrustHistory on a small instance: every node has a name of its own.      *)
EXTENDS TrustHistory

MCHostName == [i \in Identity |-> i]
=============================================================================

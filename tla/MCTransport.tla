---------------------------- MODULE MCTransport ----------------------------
(* Transport on a small instance: two goroutines send from the lower         *)
(* identity, one from the other.                                             *)
EXTENDS Transport

MCCaller == [n \in Node |-> IF n = 1 THEN {"a", "b"} ELSE {"a"}]
=============================================================================

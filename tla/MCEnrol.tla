------------------------------ MODULE MCEnrol ------------------------------
(* Enrol on a small instance: the root admits nodes 1 and 3.  Node 1 may try *)
(* twice (c1, then c3, under another name); node 3 has the name node 1 gave  *)
(* first.  Node 1 may be revoked by the root meanwhile.                      *)
EXTENDS Enrol

MCJoiner == [c \in Conn |-> IF c = "c2" THEN 3 ELSE 1]
MCNameOf == [c \in Conn |-> IF c = "c3" THEN "c" ELSE "b"]
MCTokenOf == [c \in Conn |-> "t"]
MCUses == [t \in Token |-> 2]
MCIncoming == {Revoke(Root, 1, MaxTime)}
=============================================================================

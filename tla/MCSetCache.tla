---------------------------- MODULE MCSetCache ----------------------------
(* SetCache on a small instance.                                     *)
EXTENDS SetCache, TLC

Symmetry == Permutations(Reader) \cup Permutations(Id)
=============================================================================

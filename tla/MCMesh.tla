------------------------------- MODULE MCMesh -------------------------------
(* Mesh with two peers that advertise a common network.                      *)
EXTENDS Mesh, TLC

MCAllowedIPs == (1 :> {"n1"}) @@ (2 :> {"n1", "n2", "in"})
=============================================================================

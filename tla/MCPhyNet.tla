------------------------------ MODULE MCPhyNet ------------------------------
(***************************************************************************)
(* PhyNet for TLC: two VRFs with a router each, and the default gateway.   *)
(***************************************************************************)
EXTENDS PhyNet, TLC

CONSTANTS v1, v2, r1, r2, gw, a, b, c

MCNextHop == (v1 :> r1) @@ (v2 :> r2) @@ (Default :> gw)
=============================================================================

----------------------------- MODULE MCPeering ------------------------------
(***************************************************************************)
(* Peering for TLC: a Tungsten Fabric controller and the router of one VRF *)
(* with BFD.                                                               *)
(***************************************************************************)
EXTENDS Peering

CONSTANTS tfc, router, blue
=============================================================================

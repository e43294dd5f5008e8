------------------------- MODULE MCInterfaceMonitor -------------------------
(***************************************************************************)
(* InterfaceMonitor for TLC, with the limit of VPPInterfaceStatus.         *)
(***************************************************************************)
EXTENDS InterfaceMonitor

CONSTANTS p1, p2
=============================================================================

---------------------------- MODULE MCBFDSession ----------------------------
(***************************************************************************)
(* BFDSession for TLC.                                                     *)
(***************************************************************************)
EXTENDS BFDSession

CONSTANTS p1, p2
=============================================================================

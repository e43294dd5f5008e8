---------------------------- MODULE MCBFDTimers -----------------------------
(***************************************************************************)
(* BFDTimers for TLC.                                                      *)
(***************************************************************************)
EXTENDS BFDTimers
=============================================================================

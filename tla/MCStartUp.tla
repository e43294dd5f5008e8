----------------------------- MODULE MCStartUp ------------------------------
(***************************************************************************)
(* StartUp for TLC: two configurations; in the second a VRF precedes the   *)
(* global table and two local addresses have the same last four digits.    *)
(***************************************************************************)
EXTENDS StartUp

CONSTANTS f1, f2, n1, n2

MCConfigs == {<<0, 1, 2>>, <<2, 0, 3>>}
MCLocalIP == (1 :> <<10, 0, 0, 5>>) @@ (2 :> <<192, 168, 1, 23>>) @@ (3 :> <<192, 168, 12, 3>>)
MCFIPVRF  == (f1 :> 1) @@ (f2 :> 2)
=============================================================================

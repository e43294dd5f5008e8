------------------------------ MODULE MCTFSync ------------------------------
(***************************************************************************)
(* TFSync for TLC: two floating IPs, two vRouters with a route             *)
(* distinguisher each.                                                     *)
(***************************************************************************)
EXTENDS TFSync

CONSTANTS f1, f2, v1, n1, n2, r1, r2, t1, t2

MCHome      == [f \in Hosts |-> [n \in NHs |-> {v1}]]
MCVRouterOf == (r1 :> n1) @@ (r2 :> n2)

=============================================================================

------------------------------ MODULE FIPTable ------------------------------
(***************************************************************************)
(* What the floating IP part of the gateway promises: a table that maps a  *)
(* floating IP to the set of (vRouter, label) pairs it is reached by, at   *)
(* most one pair per vRouter.  FloatingIP implements it.                   *)
(***************************************************************************)
EXTENDS Naturals

CONSTANTS
  Hosts,      \* floating IP prefixes
  NHs,        \* vRouters
  Labels,     \* MPLS labels
  Lossy       \* BOOLEAN: may installing a route fail for good?

VARIABLE table

Empty == [f \in Hosts |-> {}]

Init == table = Empty

\* A path is learned; it takes the place of the path via the same vRouter.
Learn(f, nh, label) ==
  table' = [table EXCEPT ![f] =
              {p \in @ : p.nh # nh} \cup {[nh |-> nh, label |-> label]}]

\* A path the table has is forgotten.
Forget(f, nh, label) ==
  /\ [nh |-> nh, label |-> label] \in table[f]
  /\ table' = [table EXCEPT ![f] = @ \ {[nh |-> nh, label |-> label]}]

\* The data plane refused the route: the floating IP has no path any more.
Lose(f) == Lossy /\ table' = [table EXCEPT ![f] = {}]

\* The gateway stopped.
Reset == table' = Empty

Next ==
  \/ \E f \in Hosts, nh \in NHs, label \in Labels :
       Learn(f, nh, label) \/ Forget(f, nh, label)
  \/ \E f \in Hosts : Lose(f)
  \/ Reset

Spec == Init /\ [][Next]_table
=============================================================================

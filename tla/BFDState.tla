------------------------------ MODULE BFDState ------------------------------
(***************************************************************************)
(* The state machine of a BFD session (RxPacket, pkg/bfd/session.go).      *)
(* AdminDown is never entered locally.                                     *)
(***************************************************************************)

BFDStates == {"Down", "Init", "Up"}
Received  == BFDStates \cup {"AdminDown"}

\* The state after a packet with state r.
NextState(s, r) ==
  CASE r = "AdminDown"                       -> "Down"
    [] s = "Down" /\ r = "Down"              -> "Init"
    [] s = "Down" /\ r = "Init"              -> "Up"
    [] s = "Init" /\ r \in {"Init", "Up"}    -> "Up"
    [] s = "Up"   /\ r = "Down"              -> "Down"
    [] OTHER                                 -> s
=============================================================================

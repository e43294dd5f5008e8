----------------------------- MODULE PeerWatch ------------------------------
(***************************************************************************)
(* The peer watch of HandleBGPUpdate (handle_bgp_update.go): GoBGP reports *)
(* the session state of a configured BGP peer, the callback stores it,     *)
(* counts the active peers for the metrics and starts BFD monitoring.      *)
(*                                                                         *)
(* GetBGPPeer returns the stored record itself and UpdateBGPPeerState      *)
(* changes that record, so the callback reads the new state after it.      *)
(* GoBGP delivers the events one at a time; the same state may be reported *)
(* again.                                                                  *)
(***************************************************************************)
EXTENDS Integers, FiniteSets

CONSTANTS
  Peers,       \* addresses of the configured BGP peers
  BFDPeers     \* those of the physical network with BFD enabled

ASSUME PeersAssumption == IsFiniteSet(Peers) /\ BFDPeers \subseteq Peers

\* bgpapi.PeerState_SessionState.
SessionStates ==
  {"UNKNOWN", "IDLE", "CONNECT", "ACTIVE", "OPENSENT", "OPENCONFIRM", "ESTABLISHED"}

VARIABLES
  peer,        \* BGPPeerStorage: address -> [state, prev, bfd]
  active,      \* GoBGPGeneralMetrics.ActivePeerCount
  monitors     \* history: goroutines CheckBFDPeerStatus started for a peer

vars == <<peer, active, monitors>>

Records == [state : SessionStates, prev : SessionStates, bfd : BOOLEAN]

Init ==
  /\ peer = [p \in Peers |-> [state |-> "UNKNOWN", prev |-> "UNKNOWN", bfd |-> FALSE]]
  /\ active = 0
  /\ monitors = [p \in Peers |-> 0]

\* UpdateBGPPeerState with the state read just before.
UpdatedForgetsPrev(r, new) == [r EXCEPT !.state = new]    \* mutant

Updated(r, new) == [r EXCEPT !.prev = r.state, !.state = new]

\* Inc/DecActivePeerCount for the record after the update.
Count(r) ==
  (IF r.state = "ESTABLISHED" THEN 1 ELSE 0) - (IF r.prev = "ESTABLISHED" THEN 1 ELSE 0)

\* BFD monitoring starts when the peer comes up for the first time.
StartsBFDAgain(p, r) == p \in BFDPeers /\ r.state = "ESTABLISHED"   \* mutant

StartsBFD(p, r) == p \in BFDPeers /\ r.state = "ESTABLISHED" /\ ~r.bfd

PeerEvent(p, new) ==
  LET r == Updated(peer[p], new)
  IN  /\ active' = active + Count(r)
      /\ peer' = [peer EXCEPT ![p] = [r EXCEPT !.bfd = @ \/ StartsBFD(p, r)]]
      /\ monitors' = [monitors EXCEPT ![p] = IF StartsBFD(p, r) THEN @ + 1 ELSE @]

Next == \E p \in Peers, new \in SessionStates \ {"UNKNOWN"} : PeerEvent(p, new)

Spec == Init /\ [][Next]_vars

-----------------------------------------------------------------------------
(* Properties.                                                             *)

\* The records keep their shape and the counter never drops below zero.
TypeOK ==
  /\ peer \in [Peers -> Records]
  /\ active \in Nat
  /\ monitors \in [Peers -> Nat]

Established == {p \in Peers : peer[p].state = "ESTABLISHED"}

\* The exported number of active peers is the number of established
\* sessions, also when GoBGP reports a state twice or skips some.
ActiveCountExact == active = Cardinality(Established)

\* A peer that came up is monitored by BFD, by exactly one goroutine however
\* often the session flaps: each one listens on the same UDP port.
OneMonitorPerPeer ==
  \A p \in Peers :
    /\ monitors[p] = IF peer[p].bfd THEN 1 ELSE 0
    /\ p \in BFDPeers /\ p \in Established => monitors[p] = 1
=============================================================================

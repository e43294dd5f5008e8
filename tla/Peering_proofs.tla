--------------------------- MODULE Peering_proofs ---------------------------
(***************************************************************************)
(* The peer watch for any finite set of peers and any sequence of events:  *)
(* the active peer counter is exact and BFD is started once per peer.  In  *)
(* the program around it (Peering) nothing is advertised against the export*)
(* policy, and no peer outlives a Run that returns.                        *)
(*                                                                         *)
(* TypeOK of the watch is not inductive alone: that the counter stays a    *)
(* natural number follows from its being the number of established         *)
(* sessions.  For the peers at the exit the invariant (ServerInv) follows  *)
(* the function that stops the server from the closer's list to its work.  *)
(***************************************************************************)
EXTENDS Peering, FiniteSetTheorems, TLAPS

-----------------------------------------------------------------------------
(* The peer watch.                                                         *)

\* The established sessions of a table of peer records.
Up(P) == {p \in Peers : P[p].state = "ESTABLISHED"}

PeerInv == TypeOK /\ ActiveCountExact /\ OneMonitorPerPeer

\* Established sessions are finitely many, so that they can be counted.
LEMMA UpFinite ==
  ASSUME NEW P
  PROVE  IsFiniteSet(Up(P)) /\ Cardinality(Up(P)) \in Nat
<1>1. Up(P) \in SUBSET Peers
  BY DEF Up
<1> QED BY <1>1, PeersAssumption, FS_Subset, FS_CardinalityType

\* One event changes the number of established sessions by Count of the
\* updated record: Inc and DecActivePeerCount of the callback.
LEMMA EventCount ==
  ASSUME NEW P \in [Peers -> Records], NEW p \in Peers, NEW r \in Records,
         r.prev = P[p].state
  PROVE  Cardinality(Up([P EXCEPT ![p] = r])) = Cardinality(Up(P)) + Count(r)
<1> DEFINE Q == [P EXCEPT ![p] = r]
<1>1. Q \in [Peers -> Records] /\ Q[p] = r /\ \A q \in Peers \ {p} : Q[q] = P[q]
  OBVIOUS
<1> HIDE DEF Q
<1>2. CASE r.state = "ESTABLISHED" /\ r.prev = "ESTABLISHED"
  <2>1. Up(Q) = Up(P)
    BY <1>1, <1>2 DEF Up
  <2>2. Count(r) = 0
    BY <1>2 DEF Count
  <2> QED BY <2>1, <2>2, UpFinite DEF Q
<1>3. CASE r.state = "ESTABLISHED" /\ r.prev # "ESTABLISHED"
  <2>1. Up(Q) = Up(P) \cup {p} /\ p \notin Up(P)
    BY <1>1, <1>3 DEF Up
  <2>2. Count(r) = 1
    BY <1>3 DEF Count
  <2>3. Cardinality(Up(Q)) = Cardinality(Up(P)) + 1
    BY <2>1, UpFinite, FS_AddElement
  <2> QED BY <2>2, <2>3 DEF Q
<1>4. CASE r.state # "ESTABLISHED" /\ r.prev = "ESTABLISHED"
  <2>1. Up(Q) = Up(P) \ {p} /\ p \in Up(P)
    BY <1>1, <1>4 DEF Up
  <2>2. Count(r) = -1
    BY <1>4 DEF Count
  <2>3. Cardinality(Up(Q)) = Cardinality(Up(P)) - 1
    BY <2>1, UpFinite, FS_RemoveElement
  <2> QED BY <2>2, <2>3, UpFinite DEF Q
<1>5. CASE r.state # "ESTABLISHED" /\ r.prev # "ESTABLISHED"
  <2>1. Up(Q) = Up(P)
    BY <1>1, <1>5 DEF Up
  <2>2. Count(r) = 0
    BY <1>5 DEF Count
  <2> QED BY <2>1, <2>2, UpFinite DEF Q
<1> QED BY <1>2, <1>3, <1>4, <1>5

\* One session event keeps the invariant.
LEMMA EventKeepsInv ==
  ASSUME PeerInv, NEW p \in Peers, NEW new \in SessionStates, PeerEvent(p, new)
  PROVE  PeerInv'
<1> DEFINE r == Updated(peer[p], new)
           b == r.bfd \/ StartsBFD(p, r)
           s == [r EXCEPT !.bfd = b]
<1> USE DEF PeerInv
<1>1. peer[p] \in Records
  BY DEF TypeOK
<1>2. /\ r \in Records /\ r.prev = peer[p].state
      /\ r.state = new /\ r.bfd = peer[p].bfd
  BY <1>1 DEF Records, Updated
<1>3. b \in BOOLEAN
  BY <1>2 DEF StartsBFD, Records
<1>4. /\ s \in Records /\ s.prev = r.prev /\ s.state = r.state /\ s.bfd = b
  BY <1>2, <1>3 DEF Records
<1>5. peer' = [peer EXCEPT ![p] = s]
  BY DEF PeerEvent
<1>6. active' = active + Count(s)
  <2>1. Count(s) = Count(r)
    BY <1>4 DEF Count
  <2> QED BY <2>1 DEF PeerEvent
<1>7. monitors' = [monitors EXCEPT ![p] = IF StartsBFD(p, r) THEN @ + 1 ELSE @]
  BY DEF PeerEvent
<1>8. StartsBFD(p, r) <=> p \in BFDPeers /\ new = "ESTABLISHED" /\ ~peer[p].bfd
  BY <1>2 DEF StartsBFD
<1>9. b <=> peer[p].bfd \/ (p \in BFDPeers /\ new = "ESTABLISHED")
  BY <1>2, <1>8
<1>10. s.state = new /\ s.bfd = b /\ s.prev = peer[p].state /\ s \in Records
  BY <1>2, <1>4
<1> HIDE DEF r, b, s
<1>11. active' = Cardinality(Up(peer'))
  <2>1. active = Cardinality(Up(peer))
    BY DEF ActiveCountExact, Established, Up
  <2>2. Cardinality(Up([peer EXCEPT ![p] = s])) = Cardinality(Up(peer)) + Count(s)
    BY <1>10, EventCount DEF TypeOK
  <2> QED BY <2>1, <2>2, <1>5, <1>6
<1>12. ActiveCountExact'
  BY <1>11 DEF ActiveCountExact, Established, Up
<1>13. peer' \in [Peers -> Records] /\ active' \in Nat
  BY <1>5, <1>10, <1>11, UpFinite DEF TypeOK
<1>14. monitors' \in [Peers -> Nat]
  BY <1>7 DEF TypeOK
<1>15. OneMonitorPerPeer'
  <2> SUFFICES ASSUME NEW q \in Peers
               PROVE  /\ monitors'[q] = IF peer'[q].bfd THEN 1 ELSE 0
                      /\ q \in BFDPeers /\ peer'[q].state = "ESTABLISHED" => monitors'[q] = 1
    BY DEF OneMonitorPerPeer, Established
  <2>1. /\ monitors[q] = IF peer[q].bfd THEN 1 ELSE 0
        /\ q \in BFDPeers /\ peer[q].state = "ESTABLISHED" => monitors[q] = 1
    BY DEF OneMonitorPerPeer, Established
  <2>2. CASE q # p
    BY <2>1, <2>2, <1>5, <1>7 DEF TypeOK
  <2>3. CASE q = p
    <3>1. peer'[p] = s
      BY <1>5 DEF TypeOK
    <3>2. monitors'[p] = IF StartsBFD(p, r) THEN monitors[p] + 1 ELSE monitors[p]
      BY <1>7 DEF TypeOK
    <3> QED BY <2>1, <2>3, <3>1, <3>2, <1>8, <1>9, <1>10
  <2> QED BY <2>2, <2>3
<1> QED BY <1>12, <1>13, <1>14, <1>15 DEF TypeOK

\* The invariant of the peer watch, in every state of every behaviour.
THEOREM PeerInvHolds == Spec => []PeerInv
<1>1. Init => PeerInv
  <2> SUFFICES ASSUME Init PROVE PeerInv
    OBVIOUS
  <2>1. TypeOK
    BY DEF Init, TypeOK, Records, SessionStates
  <2>2. Established = {}
    BY DEF Init, Established
  <2>3. ActiveCountExact
    BY <2>2, FS_EmptySet DEF Init, ActiveCountExact
  <2>4. OneMonitorPerPeer
    BY <2>2 DEF Init, OneMonitorPerPeer
  <2> QED BY <2>1, <2>3, <2>4 DEF PeerInv
<1>2. PeerInv /\ [Next]_vars => PeerInv'
  <2> SUFFICES ASSUME PeerInv, [Next]_vars PROVE PeerInv'
    OBVIOUS
  <2>1. CASE Next
    BY <2>1, EventKeepsInv DEF Next
  <2>2. CASE UNCHANGED vars
    BY <2>2 DEF vars, PeerInv, TypeOK, ActiveCountExact, OneMonitorPerPeer, Established
  <2> QED BY <2>1, <2>2
<1> QED BY <1>1, <1>2, PTL DEF Spec

\* GoBGPGeneralMetrics.ActivePeerCount is the number of established sessions.
THEOREM ActiveCountExactHolds == Spec => []ActiveCountExact
<1>1. PeerInv => ActiveCountExact
  BY DEF PeerInv
<1> QED BY <1>1, PeerInvHolds, PTL

\* At most one CheckBFDPeerStatus per peer, and one as soon as it came up.
THEOREM OneMonitorPerPeerHolds == Spec => []OneMonitorPerPeer
<1>1. PeerInv => OneMonitorPerPeer
  BY DEF PeerInv
<1> QED BY <1>1, PeerInvHolds, PTL

-----------------------------------------------------------------------------
(* The program around the watch.                                           *)

\* Every step of the program is an event of the peer watch or leaves it
\* alone: what is proved of the watch holds in the program.
THEOREM PeeringImplementsPeerWatch == PeeringSpec => Spec
<1>1. PeeringInit => Init
  BY DEF PeeringInit
<1>2. [PeeringNext]_allVars => [Next]_vars
  <2> SUFFICES ASSUME [PeeringNext]_allVars PROVE Next \/ UNCHANGED vars
    OBVIOUS
  <2>1. watchVars = vars
    BY DEF watchVars, vars
  <2>2. ASSUME NEW p \in Peers, NEW new \in Reported, Session(p, new)
        PROVE  Next \/ UNCHANGED vars
    <3>1. new \in SessionStates \ {"UNKNOWN"}
      BY PeeringAssumption
    <3>2. PeerEvent(p, new) \/ UNCHANGED vars
      BY <2>1, <2>2 DEF Session, watchVars, vars
    <3> QED BY <3>1, <3>2 DEF Next
  <2>3. CASE Main
    BY <2>3 DEF Main, InitVPP, InitGoBGPServer, AddCancel, HandleBGPUpdate, AddGoBGPVRF,
                AddBGPPeer, StartFails, Died, CreateGoBGPPolicy, AddDeletePeers, Wait, IgnoreEvent,
                CloseAll, Exit, watchVars, vars
  <2>4. CASE Closer \/ Wait(Cancelled) \/ CloseAll(TRUE) \/ Kill
    BY <2>4 DEF Closer, Stop, Disconnect, Cancel, DelBGPPeer, Wait, CloseAll, Kill, Died,
                watchVars, vars
  <2>5. ASSUME NEW m \in Masks, Learn(m) PROVE UNCHANGED vars
    BY <2>5 DEF Learn, watchVars, vars
  <2>6. ASSUME NEW e, VPPEvent(e) PROVE UNCHANGED vars
    BY <2>6 DEF VPPEvent, watchVars, vars
  <2>7. CASE UNCHANGED allVars
    BY <2>7 DEF allVars, watchVars, vars
  <2> QED BY <2>2, <2>3, <2>4, <2>5, <2>6, <2>7 DEF PeeringNext
<1> QED BY <1>1, <1>2, PTL DEF PeeringSpec, Spec

\* The peers are those of a running server, and as long as it runs its
\* function is in the closer's list or still to be called.
ServerInv ==
  /\ added \subseteq Peers
  /\ added # {} => serving
  /\ serving => "bgp" \in funcs \cup todo
  /\ ~once => todo = {}
  /\ pc = "exited" => todo = {}

LEMMA NextServer == ServerInv /\ [PeeringNext]_allVars => ServerInv'
<1> SUFFICES ASSUME ServerInv, [PeeringNext]_allVars PROVE ServerInv'
  OBVIOUS
<1> USE DEF ServerInv
<1>1. CASE InitVPP \/ AddCancel \/ HandleBGPUpdate \/ AddDeletePeers
  BY <1>1 DEF InitVPP, AddCancel, HandleBGPUpdate, AddDeletePeers, Add, serverVars, closerVars
<1>2. CASE InitGoBGPServer
  BY <1>2 DEF InitGoBGPServer, Add
<1>3. ASSUME NEW v, AddGoBGPVRF(v) PROVE ServerInv'
  BY <1>3 DEF AddGoBGPVRF, closerVars
<1>4. ASSUME NEW p \in Peers, AddBGPPeer(p) PROVE ServerInv'
  BY <1>4 DEF AddBGPPeer, closerVars
<1>5. CASE StartFails \/ Kill
  BY <1>5 DEF StartFails, Kill, Died, Without
<1>6. ASSUME NEW ok \in BOOLEAN, CreateGoBGPPolicy(ok) PROVE ServerInv'
  BY <1>6 DEF CreateGoBGPPolicy, closerVars
<1>7. CASE IgnoreEvent \/ Wait(ConnLost) \/ Wait(Cancelled)
  BY <1>7 DEF IgnoreEvent, Wait, closerVars, serverVars
<1>8. CASE CloseAll(pc = "closing") \/ CloseAll(TRUE)
  BY <1>8 DEF CloseAll, serverVars, Ended
<1>9. CASE Exit
  BY <1>9 DEF Exit, MayReturn, closerVars, serverVars
<1>10. CASE Stop
  BY <1>10 DEF Stop, Without, Ended
<1>11. CASE Disconnect \/ Cancel
  BY <1>11 DEF Disconnect, Cancel, serverVars, Ended
<1>12. ASSUME NEW p \in Peers, DelBGPPeer(p) PROVE ServerInv'
  BY <1>12 DEF DelBGPPeer, Without, Ended
<1>13. ASSUME NEW p \in Peers, NEW new \in Reported, Session(p, new) PROVE ServerInv'
  BY <1>13 DEF Session, closerVars
<1>14. ASSUME NEW m \in Masks, Learn(m) PROVE ServerInv'
  BY <1>14 DEF Learn, closerVars
<1>15. ASSUME NEW e, VPPEvent(e) PROVE ServerInv'
  BY <1>15 DEF VPPEvent, closerVars, serverVars
<1>16. CASE UNCHANGED allVars
  BY <1>16 DEF allVars, closerVars, serverVars
<1> QED BY <1>1, <1>2, <1>3, <1>4, <1>5, <1>6, <1>7, <1>8, <1>9, <1>10, <1>11, <1>12, <1>13,
           <1>14, <1>15, <1>16 DEF PeeringNext, Main, Closer

\* A Run that returns leaves no peer in GoBGP, unless the signal came before
\* the server's function was in the closer's list.
THEOREM PeersGoneAtExitHolds == PeeringSpec => []PeersGoneAtExit
<1>1. PeeringInit => ServerInv
  BY DEF PeeringInit, ServerInv
<1>2. ServerInv => PeersGoneAtExit
  BY DEF ServerInv, PeersGoneAtExit
<1> QED BY <1>1, <1>2, NextServer, PTL DEF PeeringSpec

-----------------------------------------------------------------------------
(* The export policy.                                                      *)

\* The policy is there as a whole or not at all.
PolicyInv ==
  /\ policy \in {<<>>, Policy}
  /\ rib \subseteq Masks
  /\ sent \in [Peers -> SUBSET Masks]

\* Every statement of CreateGoBGPPolicy rejects, so a route is exported if
\* and only if none matches it.
LEMMA PolicyFilters ==
  ASSUME policy = Policy, NEW p \in Peers, NEW m \in Masks, Exports(p, m)
  PROVE  m \in Wanted(p)
<1> DEFINE matching == {i \in DOMAIN policy : m \in policy[i].masks /\ p \in policy[i].peers}
           least    == CHOOSE i \in matching : \A j \in matching : i <= j
<1>1. /\ DOMAIN policy = 1..3 /\ \A i \in 1..3 : policy[i].action = "REJECT"
      /\ policy[1].masks = 32..32 /\ policy[1].peers = PhyNet
      /\ policy[2].masks = 0..0 /\ policy[2].peers = PhyNet
      /\ policy[3].masks = 1..32 /\ policy[3].peers = TF
  BY DEF Policy, Statement
<1>2. matching = {}
  <2> SUFFICES ASSUME matching # {} PROVE FALSE
    OBVIOUS
  <2>1. matching \subseteq 1..3
    BY <1>1
  <2> HIDE DEF matching
  <2>2. \E i \in matching : \A j \in matching : i <= j
    <3>1. CASE 1 \in matching
      BY <2>1, <3>1
    <3>2. CASE 1 \notin matching /\ 2 \in matching
      BY <2>1, <3>2
    <3>3. CASE 1 \notin matching /\ 2 \notin matching
      <4>1. \A i \in matching : i = 3
        BY <2>1, <3>3
      <4> QED BY <4>1
    <3> QED BY <3>1, <3>2, <3>3
  <2>3. least \in matching
    BY <2>2
  <2>4. policy[least].action = "ACCEPT"
    BY DEF Exports, matching
  <2> QED BY <1>1, <2>1, <2>3, <2>4
<1>3. m \in 0..32
  BY PeeringAssumption
<1>4. CASE p \in PhyNet
  <2>1. 1 \notin matching /\ 2 \notin matching
    BY <1>2
  <2>2. m \notin 32..32 /\ m \notin 0..0
    BY <1>1, <1>4, <2>1
  <2> QED BY <1>3, <1>4, <2>2 DEF Wanted
<1>5. CASE p \notin PhyNet
  <2>1. 3 \notin matching /\ p \in TF
    BY <1>2, <1>5 DEF TF
  <2>2. m \notin 1..32
    BY <1>1, <2>1
  <2> QED BY <1>3, <1>5, <2>2 DEF Wanted
<1> QED BY <1>4, <1>5

\* A session that comes up, and a route that arrives: what is advertised
\* passes the policy of that moment.
LEMMA SessionFilters ==
  ASSUME PolicyInv, NEW q \in Peers, NEW new \in Reported, Session(q, new)
  PROVE  PolicyInv' /\ (policy # <<>> => \A p \in Peers : sent'[p] \ sent[p] \subseteq Wanted(p))
<1> DEFINE all == {m \in rib : Exports(q, m)}
           x   == CASE q \notin up' -> {}
                    [] q \in up     -> sent[q]
                    [] OTHER        -> all
<1>1. sent' = [sent EXCEPT ![q] = x] /\ policy' = policy /\ rib' = rib
  BY DEF Session
<1>2. x = {} \/ x = sent[q] \/ x = all
  OBVIOUS
<1>3. all \subseteq Masks /\ sent[q] \subseteq Masks
  BY DEF PolicyInv
<1>4. x \subseteq Masks
  BY <1>2, <1>3
<1>5. ASSUME policy # <<>> PROVE x \ sent[q] \subseteq Wanted(q)
  <2>1. all \subseteq Wanted(q)
    BY <1>3, <1>5, PolicyFilters DEF PolicyInv
  <2> QED BY <1>2, <2>1
<1> HIDE DEF x
<1>6. PolicyInv'
  BY <1>1, <1>4 DEF PolicyInv
<1>7. \A p \in Peers : sent'[p] = IF p = q THEN x ELSE sent[p]
  BY <1>1 DEF PolicyInv
<1> QED BY <1>5, <1>6, <1>7

LEMMA LearnFilters ==
  ASSUME PolicyInv, NEW m \in Masks, Learn(m)
  PROVE  PolicyInv' /\ (policy # <<>> => \A p \in Peers : sent'[p] \ sent[p] \subseteq Wanted(p))
<1>1. /\ sent' = [p \in Peers |-> IF p \in up /\ Exports(p, m) THEN sent[p] \cup {m} ELSE sent[p]]
      /\ policy' = policy /\ rib' = rib \cup {m}
  BY DEF Learn
<1>2. PolicyInv'
  BY <1>1 DEF PolicyInv
<1>3. ASSUME policy # <<>>, NEW p \in Peers PROVE sent'[p] \ sent[p] \subseteq Wanted(p)
  <2>1. Exports(p, m) => m \in Wanted(p)
    BY <1>3, PolicyFilters DEF PolicyInv
  <2> QED BY <1>1, <2>1
<1> QED BY <1>2, <1>3

\* No other step advertises anything.
LEMMA RestFilters ==
  ASSUME PolicyInv, [PeeringNext]_allVars,
         ~(\E p \in Peers, new \in Reported : Session(p, new)), ~(\E m \in Masks : Learn(m))
  PROVE  PolicyInv' /\ \A p \in Peers : sent'[p] \subseteq sent[p]
<1> USE DEF PolicyInv
<1>1. CASE UNCHANGED <<policy, rib, sent>>
  BY <1>1
<1>2. ASSUME UNCHANGED <<policy, rib>> \/ (policy' = <<>> /\ rib' = {}), NEW ps, Without(ps)
      PROVE  PolicyInv' /\ \A p \in Peers : sent'[p] \subseteq sent[p]
  BY <1>2 DEF Without
<1>3. ASSUME NEW ok \in BOOLEAN, CreateGoBGPPolicy(ok)
      PROVE  PolicyInv' /\ \A p \in Peers : sent'[p] \subseteq sent[p]
  BY <1>3 DEF CreateGoBGPPolicy
<1>4. CASE StartFails \/ Kill
  BY <1>2, <1>4 DEF StartFails, Kill, Died
<1>5. CASE Stop
  BY <1>2, <1>5 DEF Stop
<1>6. ASSUME NEW p \in Peers, DelBGPPeer(p)
      PROVE  PolicyInv' /\ \A q \in Peers : sent'[q] \subseteq sent[q]
  <2>1. CASE serving
    BY <1>2, <1>6, <2>1 DEF DelBGPPeer
  <2>2. CASE ~serving
    BY <1>1, <1>6, <2>2 DEF DelBGPPeer
  <2> QED BY <2>1, <2>2
<1>7. CASE \/ InitVPP \/ InitGoBGPServer \/ AddCancel \/ HandleBGPUpdate
           \/ (\E v \in VRFs : AddGoBGPVRF(v)) \/ (\E p \in Peers : AddBGPPeer(p))
           \/ AddDeletePeers \/ IgnoreEvent \/ Exit \/ Disconnect \/ Cancel
  BY <1>1, <1>7 DEF InitVPP, InitGoBGPServer, AddCancel, HandleBGPUpdate, AddGoBGPVRF, AddBGPPeer,
                    AddDeletePeers, IgnoreEvent, Exit, Disconnect, Cancel, serverVars
<1>8. CASE \/ Wait(ConnLost) \/ Wait(Cancelled) \/ CloseAll(pc = "closing") \/ CloseAll(TRUE)
  BY <1>1, <1>8 DEF Wait, CloseAll, serverVars
<1>9. ASSUME NEW e, VPPEvent(e) PROVE PolicyInv' /\ \A p \in Peers : sent'[p] \subseteq sent[p]
  BY <1>1, <1>9 DEF VPPEvent, serverVars
<1>10. CASE UNCHANGED allVars
  BY <1>1, <1>10 DEF allVars, serverVars
<1> QED BY <1>3, <1>4, <1>5, <1>6, <1>7, <1>8, <1>9, <1>10 DEF PeeringNext, Main, Closer

\* Once the policy is assigned no floating IP and no default route goes to
\* the physical network and nothing but the default route to Tungsten
\* Fabric, whenever a session or a route comes up.
THEOREM ExportsFilteredHolds == PeeringSpec => ExportsFiltered
<1> DEFINE A == policy # <<>> => \A p \in Peers : sent'[p] \ sent[p] \subseteq Wanted(p)
<1>1. PeeringInit => PolicyInv
  BY DEF PeeringInit, PolicyInv
<1>2. PolicyInv /\ [PeeringNext]_allVars => PolicyInv' /\ [A]_allVars
  <2> SUFFICES ASSUME PolicyInv, [PeeringNext]_allVars PROVE PolicyInv' /\ A
    OBVIOUS
  <2>1. CASE \E p \in Peers, new \in Reported : Session(p, new)
    BY <2>1, SessionFilters
  <2>2. CASE \E m \in Masks : Learn(m)
    BY <2>2, LearnFilters
  <2>3. CASE ~(\E p \in Peers, new \in Reported : Session(p, new)) /\ ~(\E m \in Masks : Learn(m))
    BY <2>3, RestFilters
  <2> QED BY <2>1, <2>2, <2>3
<1> QED BY <1>1, <1>2, PTL DEF PeeringSpec, ExportsFiltered

\* The counter of active peers and the BFD monitors, in the program.
THEOREM PeeringCountsPeers == PeeringSpec => []ActiveCountExact /\ []OneMonitorPerPeer
BY PeeringImplementsPeerWatch, ActiveCountExactHolds, OneMonitorPerPeerHolds, PTL
=============================================================================

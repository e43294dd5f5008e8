----------------------- MODULE InterfaceMonitor_proofs -----------------------
(***************************************************************************)
(* The interface monitor for any limit and any set of peers: it stops the  *)
(* program only after a real outage.                                       *)
(*                                                                         *)
(* StopsOnlyWhenDead is not inductive: it speaks of the end.  The reason   *)
(* lies in the counting loop, where failCount is the number of its probes  *)
(* and each of them was a dead answer of the present outage, or of the one *)
(* an alive answer has just ended.                                         *)
(***************************************************************************)
EXTENDS InterfaceMonitor, TLAPS

Stopping == pc \in {"delete", "exited"}

\* failCount counts the probes of the loop, and dead answers only.
Counted ==
  /\ pc = "count" => failCount = i + 1 /\ i < MaxFailCount
  /\ pc = "count" => failCount <= deadRun
  /\ pc = "decide" => failCount <= deadRun \/ failCount <= ended

MonitorInv ==
  /\ TypeOK
  /\ Counted
  /\ Stopping => deadRun >= MaxFailCount \/ ended >= MaxFailCount
  /\ peers # Peers => Stopping

LEMMA InitMonitor == Init => MonitorInv
<1> SUFFICES ASSUME Init PROVE MonitorInv
  OBVIOUS
<1>1. 0 \in 0..(MaxFailCount + 1) /\ 0 \in 0..MaxFailCount
  BY MaxFailCountAssumption
<1>2. TypeOK
  BY <1>1 DEF Init, TypeOK, Answers, Cap
<1> QED BY <1>2 DEF Init, MonitorInv, Counted, Stopping

\* The goroutine, step by step, and the world it probes.
LEMMA NextMonitor == MonitorInv /\ [Next]_vars => MonitorInv'
<1> SUFFICES ASSUME MonitorInv, [Next]_vars PROVE MonitorInv'
  OBVIOUS
<1> USE MaxFailCountAssumption DEF MonitorInv, TypeOK, Counted, Stopping, Cap
<1>1. CASE Change \/ UNCHANGED vars
  BY <1>1 DEF Change, vars
<1>2. CASE Probe
  <2>1. deadRun' \in 0..Cap
    <3>1. OneMore \in 0..Cap /\ 0 \in 0..Cap
      BY DEF OneMore
    <3>2. deadRun' \in {0, OneMore, deadRun}
      BY <1>2 DEF Probe, Answers
    <3> QED BY <3>1, <3>2
  <2>2. answer = "dead" => deadRun' >= 1
    BY <1>2 DEF Probe, OneMore
  <2>3. CASE answer = "dead"
    <3>1. /\ pc = "probe" /\ pc' = "count" /\ failCount' = 1 /\ i' = 0 /\ ended' = 0
          /\ answer' = answer /\ peers' = peers /\ todo' = todo
      BY <1>2, <2>3 DEF Probe
    <3>2. 1 \in 0..(MaxFailCount + 1) /\ 0 \in 0..MaxFailCount /\ 0 < MaxFailCount /\ 0 \in 0..Cap
      OBVIOUS
    <3>3. TypeOK'
      BY <2>1, <3>1, <3>2
    <3>4. Counted'
      BY <2>2, <2>3, <3>1, <3>2
    <3> QED BY <3>1, <3>3, <3>4
  <2>4. CASE answer # "dead"
    BY <1>2, <2>1, <2>4 DEF Probe
  <2> QED BY <2>3, <2>4
<1>3. CASE CountFailure
  <2>1. deadRun' \in 0..Cap /\ failCount' <= deadRun'
    BY <1>3 DEF CountFailure, OneMore
  <2>2. CASE CountsOn(i + 1)
    BY <1>3, <2>1, <2>2 DEF CountFailure, CountsOn
  <2>3. CASE ~CountsOn(i + 1)
    BY <1>3, <2>1, <2>3 DEF CountFailure, CountsOn
  <2> QED BY <2>2, <2>3
<1>4. CASE BreakCount
  BY <1>4 DEF BreakCount
<1>5. CASE Decide
  <2>1. CASE LimitReached(failCount)
    BY <1>5, <2>1 DEF Decide, LimitReached
  <2>2. CASE ~LimitReached(failCount)
    BY <1>5, <2>2 DEF Decide
  <2> QED BY <2>1, <2>2
<1>6. CASE Fatal
  BY <1>6 DEF Fatal
<1>7. ASSUME NEW p \in Peers, NEW ok \in BOOLEAN, DelPeer(p, ok) PROVE MonitorInv'
  BY <1>7 DEF DelPeer
<1> QED BY <1>1, <1>2, <1>3, <1>4, <1>5, <1>6, <1>7 DEF Next, Monitor

\* The loops of ProbeVPPInterface stay within their bounds: no more than
\* MaxFailCount probes after the first dead one.
THEOREM MonitorTypeOK == Spec => []TypeOK
<1>1. MonitorInv => TypeOK
  BY DEF MonitorInv
<1> QED BY <1>1, InitMonitor, NextMonitor, PTL DEF Spec

\* The program is stopped, and its peers are taken away, only after
\* MaxFailCount dead answers with no alive one between them, whatever the
\* errors of the socket and however short the failures before; an alive
\* answer to the last probe of the loop comes too late.
THEOREM StopsOnlyWhenDeadHolds == Spec => []StopsOnlyWhenDead
<1>1. MonitorInv => StopsOnlyWhenDead
  BY DEF MonitorInv, Stopping, StopsOnlyWhenDead
<1> QED BY <1>1, InitMonitor, NextMonitor, PTL DEF Spec
=============================================================================

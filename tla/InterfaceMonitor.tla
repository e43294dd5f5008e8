-------------------------- MODULE InterfaceMonitor --------------------------
(***************************************************************************)
(* ProbeVPPInterface (internal/monitor/vpp_interface.go): a goroutine      *)
(* pings the main VPP interface and, when it has been dead for too long,   *)
(* deletes the BGP peers one after the other and exits the program.        *)
(*                                                                         *)
(* One probe (IsAddressAlive) takes pingDuration seconds and answers what  *)
(* the network is doing: "alive", "dead", or "error" when the socket       *)
(* cannot be used.  VPPInterfaceStatus passes one address.                 *)
(***************************************************************************)
EXTENDS Naturals, FiniteSets

CONSTANTS
  MaxFailCount,    \* maxFailCount, 10 in VPPInterfaceStatus
  Peers            \* the configured BGP peers

ASSUME MaxFailCountAssumption == MaxFailCount \in Nat \ {0}
ASSUME PeersAssumption == IsFiniteSet(Peers)

VARIABLES
  answer,      \* what a probe would find now
  pc,          \* where the goroutine is
  failCount,   \* failCount of the current counting loop
  i,           \* its loop counter
  peers,       \* BGP peers of GoBGP
  todo,        \* peers the final loop has not reached
  deadRun,     \* history: dead answers since the last alive one
  ended        \* history: those before the alive answer that broke the loop

vars == <<answer, pc, failCount, i, peers, todo, deadRun, ended>>

Answers == {"alive", "dead", "error"}

Init ==
  /\ answer = "alive" /\ pc = "probe"
  /\ failCount = 0 /\ i = 0
  /\ peers = Peers /\ todo = {}
  /\ deadRun = 0 /\ ended = 0

\* The interface or the socket changes.
Change ==
  /\ answer' \in Answers \ {answer}
  /\ UNCHANGED <<pc, failCount, i, peers, todo, deadRun, ended>>

\* The history of the outage, capped so that the state space is finite.
Cap == MaxFailCount + 1
OneMore == IF deadRun < Cap THEN deadRun + 1 ELSE Cap

\* The outer loop: an error or an alive answer starts it again.
Probe ==
  /\ pc = "probe"
  /\ IF answer = "dead"
     THEN pc' = "count" /\ failCount' = 1 /\ i' = 0
     ELSE UNCHANGED <<pc, failCount, i>>
  /\ deadRun' = CASE answer = "alive" -> 0
                  [] answer = "dead"  -> OneMore
                  [] OTHER            -> deadRun
  /\ ended' = 0
  /\ UNCHANGED <<answer, peers, todo>>

\* The counting loop: one more probe.
CountsOn(n) == n < MaxFailCount

CountFailure ==
  /\ pc = "count" /\ answer = "dead"
  /\ deadRun' = OneMore
  /\ failCount' = failCount + 1 /\ i' = i + 1
  /\ pc' = IF CountsOn(i + 1) THEN "count" ELSE "decide"
  /\ UNCHANGED <<answer, peers, todo, ended>>

\* An error or an alive answer breaks the loop; the second one is logged as
\* a failure shorter than the deadline, and ends the outage.
BreakCount ==
  /\ pc = "count" /\ answer # "dead"
  /\ pc' = "decide"
  /\ deadRun' = IF answer = "alive" THEN 0 ELSE deadRun
  /\ ended' = IF answer = "alive" THEN deadRun ELSE 0
  /\ UNCHANGED <<answer, failCount, i, peers, todo>>

LimitReachedEarly(n) == n >= 2                            \* mutant
LimitReachedNever(n) == n > MaxFailCount + 1              \* mutant

LimitReached(n) == n >= MaxFailCount

Decide ==
  /\ pc = "decide"
  /\ IF LimitReached(failCount)
     THEN pc' = "delete" /\ todo' = peers
     ELSE pc' = "probe" /\ UNCHANGED todo
  /\ UNCHANGED <<answer, failCount, i, peers, deadRun, ended>>

\* gobgp.DelBGPPeer; an error is logged and the loop goes on.
DelPeer(p, ok) ==
  /\ pc = "delete" /\ p \in todo
  /\ peers' = IF ok THEN peers \ {p} ELSE peers
  /\ todo' = todo \ {p}
  /\ UNCHANGED <<answer, pc, failCount, i, deadRun, ended>>

\* logger.Fatal.
Fatal ==
  /\ pc = "delete" /\ todo = {}
  /\ pc' = "exited"
  /\ UNCHANGED <<answer, failCount, i, peers, todo, deadRun, ended>>

Monitor ==
  \/ Probe \/ CountFailure \/ BreakCount \/ Decide \/ Fatal
  \/ \E p \in Peers, ok \in BOOLEAN : DelPeer(p, ok)

Next == Change \/ Monitor

\* The goroutine is never blocked: every probe ends after pingDuration.
Spec == Init /\ [][Next]_vars /\ WF_vars(Monitor)

-----------------------------------------------------------------------------
(* Properties.                                                             *)

\* The loops stay within their bounds: at most MaxFailCount probes after
\* the first dead one.
TypeOK ==
  /\ answer \in Answers
  /\ pc \in {"probe", "count", "decide", "delete", "exited"}
  /\ failCount \in 0..(MaxFailCount + 1) /\ i \in 0..MaxFailCount
  /\ peers \subseteq Peers /\ todo \subseteq Peers
  /\ deadRun \in 0..Cap /\ ended \in 0..Cap

\* This monitor stops the program, and takes its BGP peers away, only after
\* MaxFailCount dead answers with no alive one between them: errors neither
\* count as failures nor hide the outage.  An alive answer to the very last
\* probe comes too late: it breaks the loop, but the limit was reached
\* before it (vpp_interface.go:56-72).
StopsOnlyWhenDead ==
  pc \in {"delete", "exited"} \/ peers # Peers =>
    deadRun >= MaxFailCount \/ ended >= MaxFailCount

\* If the interface dies for good, the program exits.
DeadInterfaceStopsApp == <>[](answer = "dead") => <>(pc = "exited")
=============================================================================

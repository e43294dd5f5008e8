----------------------------- MODULE BFDSession -----------------------------
(***************************************************************************)
(* BFD monitoring of the routers of the physical network and the shutdown  *)
(* it leads to: CheckBFDPeerStatus (internal/service/bfd_health_check.go), *)
(* the sessions of pkg/bfd and the closer (pkg/closer).                    *)
(*                                                                         *)
(* A monitored peer has five goroutines that share a Session without a     *)
(* lock:                                                                   *)
(*   sessionLoop         sends packets and reconnects the UDP client,      *)
(*   Server.Loop         reads packets from the UDP listener,              *)
(*   backgroundRun       handles them: RxPacket,                           *)
(*   DetectFailure       polls for a peer that fell silent,                *)
(*   CheckBFDPeerStatus  waits for DetectFailure and stops the program.    *)
(* The variable isBdfSessionStarted of the package is shared by all peers. *)
(*                                                                         *)
(* Time is reduced to "stale": more than the detection time has passed     *)
(* since LastRxPacketTime.  Intervals are reduced to one question, whether *)
(* a packet makes setRemoteMinRxInterval restart the client (see           *)
(* BFDTimers).  Packets with authentication are dropped before they change *)
(* anything and are left out; AdminDown is never entered locally.          *)
(***************************************************************************)
EXTENDS Naturals, BFDState

CONSTANTS
  Peers,    \* peers BFD monitoring is started for
  Events    \* what the environment may do

\* A write to the UDP socket fails; the peer lowers its receive interval;
\* NewClient fails; an undecodable datagram arrives; the peer signals that
\* its session is down; a signal asks the program to stop.
EventKinds == {"writeError", "lowerInterval", "dialError", "badPacket", "peerDown", "stop"}

ASSUME EventsAssumption == Events \subseteq EventKinds

VARIABLES
  ses,        \* the Session of a peer and its goroutines
  started,    \* isBdfSessionStarted
  closers,    \* peers whose DelSession the closer still has to finish
  proc        \* the process

vars == <<ses, started, closers, proc>>

Sessions ==
  [loop   : {"none", "dial", "blocked", "run", "sleep", "swap", "retry",
             "starting", "quit"},
   conn   : {"nil", "open", "closed"},                  \* s.conn
   down   : BOOLEAN,                                    \* s.clientDown is closed
   listen : BOOLEAN,                                    \* Server.Loop reads
   rx     : {"idle", "stamp"},                          \* RxPacket
   detect : {"none", "poll", "declare", "returned"},    \* DetectFailure
   state  : BFDStates,                                  \* s.State
   stale  : BOOLEAN,   \* no LastRxPacketTime within the detection time
   done   : BOOLEAN,   \* chBFDDone is closed
   alive  : BOOLEAN,   \* the peer: it sends packets
   heard  : BOOLEAN,   \* history: a packet arrived within the detection time
   fell   : BOOLEAN]   \* history: the session moved from Up to Down

Live == proc \in {"running", "closing"}

Init ==
  /\ ses = [p \in Peers |->
       [loop |-> "none", conn |-> "nil", down |-> FALSE, listen |-> FALSE,
        rx |-> "idle", detect |-> "none", state |-> "Down", stale |-> TRUE,
        done |-> FALSE, alive |-> TRUE, heard |-> FALSE, fell |-> FALSE]]
  /\ started = FALSE /\ closers = {} /\ proc = "running"

\* A step that changes the session of p only.
Only(p, s) == ses' = [ses EXCEPT ![p] = s] /\ UNCHANGED <<started, closers, proc>>

-----------------------------------------------------------------------------
(* CheckBFDPeerStatus and the closer.                                      *)

\* NewControl starts the listener, AddSession the session loop; DelSession
\* is registered with the closer, too late once CloseAll has taken the list.
StartBFD(p) ==
  /\ Live /\ ses[p].loop = "none"
  /\ ses' = [ses EXCEPT ![p].loop = "dial", ![p].listen = TRUE]
  /\ closers' = IF proc = "running" THEN closers \cup {p} ELSE closers
  /\ UNCHANGED <<started, proc>>

\* CloseAll takes the list: CheckBFDPeerStatus saw chBFDDone closed, ...
CloseAll ==
  /\ proc = "running" /\ \E p \in Peers : ses[p].done
  /\ proc' = "closing"
  /\ UNCHANGED <<ses, started, closers>>

\* ... or a signal arrived.
Stop ==
  /\ proc = "running" /\ "stop" \in Events
  /\ proc' = "closing"
  /\ UNCHANGED <<ses, started, closers>>

\* Every closer function has returned and Wait ends: Fatal, or Run returns.
Exit ==
  /\ proc = "closing" /\ closers = {}
  /\ proc' = "exited"
  /\ UNCHANGED <<ses, started, closers>>

-----------------------------------------------------------------------------
(* sessionLoop.                                                            *)

\* closeConn: the connection and the channel are closed; the panic of a nil
\* connection or of a closed channel is recovered.
ConnClosedKeepsChannel(s) ==                              \* mutant
  IF s.conn = "nil" THEN s ELSE [s EXCEPT !.conn = "closed"]

ConnClosedToNil(s) == [s EXCEPT !.conn = "nil", !.down = TRUE]   \* mutant

ConnClosed(s) ==
  IF s.conn = "nil" THEN s ELSE [s EXCEPT !.conn = "closed", !.down = TRUE]

\* NewClient at the start; after an error the loop blocks for good on
\* "s.clientDown <- true", which nobody receives.
Dial(p) ==
  /\ Live /\ ses[p].loop = "dial"
  /\ \/ Only(p, [ses[p] EXCEPT !.loop = "run", !.conn = "open"])
     \/ "dialError" \in Events /\ Only(p, [ses[p] EXCEPT !.loop = "blocked"])

\* DelSession of p is waiting to hand over clientQuit.
Quitting(p) == proc = "closing" /\ p \in closers

\* The default case of the select: a packet is sent, a failed write closes
\* the connection.  Without the poll bit nothing else happens.
Send(p) ==
  /\ Live /\ ses[p].loop = "run" /\ ~ses[p].down /\ ~Quitting(p)
  /\ \/ ses[p].conn = "open" /\ Only(p, [ses[p] EXCEPT !.loop = "sleep"])
     \/ /\ "writeError" \in Events \/ ses[p].conn = "closed"
        /\ Only(p, ConnClosed([ses[p] EXCEPT !.loop = "sleep"]))

\* "if !isBdfSessionStarted": timeout detection is started by the session
\* loop that finds the flag unset, and the flag is set afterwards.
AfterSleep == IF started THEN "run" ELSE "starting"

Wake(p) == Live /\ ses[p].loop = "sleep" /\ Only(p, [ses[p] EXCEPT !.loop = AfterSleep])

StartDetect(p) ==
  /\ Live /\ ses[p].loop = "starting"
  /\ ses' = [ses EXCEPT ![p].loop = "run", ![p].detect = "poll"]
  /\ started' = TRUE
  /\ UNCHANGED <<closers, proc>>

\* clientDown is closed: a new client, then a new channel; or another try.
ReconnectReturns(p) ==                                    \* mutant
  Live /\ ses[p].loop = "run" /\ ses[p].down /\ Only(p, [ses[p] EXCEPT !.loop = "quit"])

Reconnect(p) ==
  /\ Live /\ ses[p].loop = "run" /\ ses[p].down
  /\ \/ Only(p, [ses[p] EXCEPT !.loop = "swap", !.conn = "open"])
     \/ "dialError" \in Events /\ Only(p, [ses[p] EXCEPT !.loop = "retry"])

\* The sleep after a failed try ends with "continue".
Retry(p) == Live /\ ses[p].loop = "retry" /\ Only(p, [ses[p] EXCEPT !.loop = "run"])

NewChannel(p) ==
  /\ Live /\ ses[p].loop = "swap"
  /\ Only(p, [ses[p] EXCEPT !.loop = AfterSleep, !.down = FALSE])

\* DelSession, run by the closer, hands over clientQuit; the loop ends.
Quit(p) ==
  /\ Quitting(p) /\ ses[p].loop = "run"
  /\ ses' = [ses EXCEPT ![p] = ConnClosed([@ EXCEPT !.loop = "quit"])]
  /\ closers' = closers \ {p}
  /\ UNCHANGED <<started, proc>>

-----------------------------------------------------------------------------
(* Packets from the peer.                                                  *)

\* RxPacket up to its last line.  The interval of the packet may restart the
\* client; a packet with the poll bit is answered through s.conn: without a
\* connection a nil dereference, and the write may fail.
RxPacket(p, r, poll) ==
  LET new == NextState(ses[p].state, r)
      s   == [ses[p] EXCEPT !.state = new, !.rx = "stamp", !.heard = TRUE,
                            !.fell = @ \/ (ses[p].state = "Up" /\ new = "Down")]
  IN  /\ Live /\ ses[p].listen /\ ses[p].alive /\ ses[p].rx = "idle"
      /\ ses[p].loop \notin {"none", "quit"}
      /\ ses[p].state = "Up" /\ new = "Down" => "peerDown" \in Events
      /\ \/ ses' = [ses EXCEPT ![p] = s]
         \/ /\ "lowerInterval" \in Events \/ (poll /\ "writeError" \in Events)
            /\ ses' = [ses EXCEPT ![p] = ConnClosed(s)]
      /\ proc' = IF poll /\ ses[p].conn = "nil" THEN "panicked" ELSE proc
      /\ UNCHANGED <<started, closers>>

\* Its last line: s.LastRxPacketTime is set.
StampForgotten(p) ==                                      \* mutant
  Live /\ ses[p].rx = "stamp" /\ Only(p, [ses[p] EXCEPT !.rx = "idle"])

Stamp(p) ==
  Live /\ ses[p].rx = "stamp" /\ Only(p, [ses[p] EXCEPT !.rx = "idle", !.stale = FALSE])

\* A datagram that cannot be decoded ends Server.Loop.
BadPacket(p) ==
  /\ Live /\ "badPacket" \in Events /\ ses[p].listen /\ ses[p].alive
  /\ Only(p, [ses[p] EXCEPT !.listen = FALSE])

\* The peer stops, for good.
PeerDies(p) == Live /\ ses[p].alive /\ Only(p, [ses[p] EXCEPT !.alive = FALSE])

\* The detection time passes and no packet comes.
Expire(p) ==
  /\ Live /\ ses[p].rx = "idle" /\ ~ses[p].stale
  /\ Only(p, [ses[p] EXCEPT !.stale = TRUE, !.heard = FALSE])

-----------------------------------------------------------------------------
(* DetectFailure.                                                          *)

\* One poll: the channel of the moment is closed and the goroutine returns,
\* or the peer is up and silent; otherwise it sleeps again.
PollAnyState(p) ==                                        \* mutant
  /\ Live /\ ses[p].detect = "poll" /\ ses[p].stale
  /\ Only(p, [ses[p] EXCEPT !.detect = "declare"])

Poll(p) ==
  /\ Live /\ ses[p].detect = "poll"
  /\ \/ ses[p].down /\ Only(p, [ses[p] EXCEPT !.detect = "returned"])
     \/ /\ ~ses[p].down /\ ses[p].state = "Up" /\ ses[p].stale
        /\ Only(p, [ses[p] EXCEPT !.detect = "declare"])

\* The session goes down and chBFDDone is closed; closing it twice panics.
DeclareKeepsQuiet(p) ==                                   \* mutant
  /\ Live /\ ses[p].detect = "declare"
  /\ Only(p, [ses[p] EXCEPT !.detect = "poll", !.state = "Down"])

Declare(p) ==
  /\ Live /\ ses[p].detect = "declare"
  /\ ses' = [ses EXCEPT ![p].detect = "poll", ![p].state = "Down", ![p].done = TRUE,
                        ![p].fell = @ \/ ses[p].state = "Up"]
  /\ proc' = IF ses[p].done THEN "panicked" ELSE proc
  /\ UNCHANGED <<started, closers>>

-----------------------------------------------------------------------------
Goroutines(p) ==
  \/ Dial(p) \/ Send(p) \/ Wake(p) \/ StartDetect(p) \/ Reconnect(p) \/ Retry(p)
  \/ NewChannel(p) \/ Quit(p) \/ Stamp(p) \/ Poll(p) \/ Declare(p)

Environment(p) ==
  \/ StartBFD(p) \/ BadPacket(p) \/ PeerDies(p) \/ Expire(p)
  \/ \E r \in Received, poll \in BOOLEAN : RxPacket(p, r, poll)

Next == CloseAll \/ Stop \/ Exit \/ \E p \in Peers : Goroutines(p) \/ Environment(p)

\* The goroutines are scheduled and their sleeps end; time passes for a peer
\* that is silent; select picks at random among the ready cases, so that a
\* pending clientQuit is not put off for ever.
Fairness ==
  /\ WF_vars(CloseAll) /\ WF_vars(Exit)
  /\ \A p \in Peers :
       /\ WF_vars(Dial(p)) /\ WF_vars(Send(p)) /\ WF_vars(Wake(p))
       /\ WF_vars(StartDetect(p)) /\ WF_vars(Reconnect(p)) /\ WF_vars(Retry(p))
       /\ WF_vars(NewChannel(p)) /\ SF_vars(Quit(p))
       /\ WF_vars(Stamp(p)) /\ WF_vars(Poll(p)) /\ WF_vars(Declare(p))
       /\ WF_vars(~ses[p].alive /\ Expire(p))

Spec == Init /\ [][Next]_vars /\ Fairness

-----------------------------------------------------------------------------
(* Properties.                                                             *)

\* Every session record is well formed; only known peers are closed.
TypeOK ==
  /\ ses \in [Peers -> Sessions] /\ started \in BOOLEAN /\ closers \subseteq Peers
  /\ proc \in {"running", "closing", "exited", "panicked"}

\* A peer that never came up cannot stop the program: chBFDDone is closed
\* only after the session was up, whoever took it down.
StopsOnlyAfterUp == \A p \in Peers : ses[p].done => ses[p].fell

Gone == proc \in {"exited", "panicked"}

\* Failure detection works while it runs: a peer that is up and falls silent
\* stops the program, unless DetectFailure returned with an old channel or a
\* blocked loop keeps the shutdown from ending.
DetectionStopsApp ==
  \A p \in Peers :
    ses[p].state = "Up" /\ ~ses[p].alive /\ ses[p].detect = "poll" ~>
      Gone \/ ses[p].detect = "returned"

\* A peer that was up and fell silent stops the program ("exit from program
\* when BFD peer moved UP > DOWN", bfd_health_check.go:14).
SilenceStopsApp ==
  \A p \in Peers : ses[p].state = "Up" /\ ~ses[p].alive ~> Gone

\* Once chBFDDone is closed the program ends: CheckBFDPeerStatus does
\* "close all and force exit" (bfd_health_check.go:45).
DoneForcesExit == \A p \in Peers : ses[p].done ~> Gone

\* The shutdown comes to an end: no closer function waits for a session loop
\* that never takes its clientQuit, whatever the loop is doing, unless the
\* loop is blocked because its first NewClient failed (session.go:139).
ShutdownCompletes ==
  proc = "closing" ~> Gone \/ \E p \in Peers : ses[p].loop = "blocked"

\* A closed UDP connection is replaced, or NewClient was tried and failed,
\* also when closeConn of RxPacket hits the loop between the new connection
\* and the new channel.
ConnectionHeals ==
  \A p \in Peers :
    ses[p].conn = "closed" ~>
      ses[p].conn = "open" \/ ses[p].loop \in {"retry", "quit"} \/ Gone

\* The program panics in two cases only: a packet with the poll bit is
\* answered (session.go:306) although the session loop has no connection
\* yet, or chBFDDone is closed a second time.  Once a session has had a
\* connection no failed write and no failed reconnect takes the answer's
\* connection away.
PanicsOnlyUnconnected ==
  [][proc # "panicked" /\ proc' = "panicked" =>
       \E p \in Peers : ses[p].loop \in {"dial", "blocked"} \/ ses[p].done]_vars

\* A failure is declared for a peer that has just been heard only in the
\* window of RxPacket between the write of the state and the write of
\* LastRxPacketTime ("time since last bfd packet exceed detect time",
\* session.go:548, is wrong there and nowhere else).
FalseAlarmOnlyInWindow ==
  [][\A p \in Peers :
       ses[p].detect = "poll" /\ ses'[p].detect = "declare" =>
         ~ses[p].heard \/ ses[p].rx = "stamp"]_vars
=============================================================================

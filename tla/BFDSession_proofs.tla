-------------------------- MODULE BFDSession_proofs --------------------------
(***************************************************************************)
(* BFD sessions for any set of peers and any events: what the goroutines   *)
(* that share a Session without a lock cannot do to each other.            *)
(*                                                                         *)
(* The invariant is about one session record at a time (Sound): no action  *)
(* reads the session of another peer.                                      *)
(***************************************************************************)
EXTENDS BFDSession, TLAPS

\* A failure being declared was seen on a session that was up; whoever took
\* it down meanwhile left a trace.
DeclaredWasUp(s) == s.detect = "declare" => s.state = "Up" \/ s.fell

\* Outside the window of RxPacket a silent session has not been heard.
SilentIsStale(s) == s.stale /\ s.rx = "idle" => ~s.heard

\* Only a session loop that never had a client has no connection.
Unconnected(s) == s.conn = "nil" => s.loop \in {"none", "dial", "blocked"}

Sound(s) ==
  /\ s \in Sessions
  /\ s.done => s.fell
  /\ DeclaredWasUp(s) /\ SilentIsStale(s) /\ Unconnected(s)

BFDInv == TypeOK /\ \A p \in Peers : Sound(ses[p])

-----------------------------------------------------------------------------
(* Session records.                                                        *)

\* The state machine: a session that is up stays up or falls.
LEMMA NextStates ==
  ASSUME NEW s \in BFDStates, NEW r \in Received
  PROVE  NextState(s, r) \in BFDStates /\ (s = "Up" => NextState(s, r) \in {"Up", "Down"})
BY DEF NextState, BFDStates, Received

\* closeConn.
LEMMA ClosedSound == ASSUME NEW s, Sound(s) PROVE Sound(ConnClosed(s))
<1>1. CASE s.conn = "nil"
  BY <1>1 DEF ConnClosed
<1>2. CASE s.conn # "nil"
  <2>1. Sound([s EXCEPT !.conn = "closed", !.down = TRUE])
    BY DEF Sound, Sessions, DeclaredWasUp, SilentIsStale, Unconnected
  <2> QED BY <1>2, <2>1 DEF ConnClosed
<1> QED BY <1>1, <1>2

\* The session loop: a step to a place where there is a connection.
LEMMA LoopSound ==
  ASSUME NEW s, Sound(s),
         NEW l \in {"dial", "blocked", "run", "sleep", "swap", "retry", "starting", "quit"},
         s.conn # "nil" \/ l \in {"dial", "blocked"}
  PROVE  Sound([s EXCEPT !.loop = l])
BY DEF Sound, Sessions, DeclaredWasUp, SilentIsStale, Unconnected

\* A new client.
LEMMA DialSound ==
  ASSUME NEW s, Sound(s), NEW l \in {"run", "swap"}
  PROVE  Sound([s EXCEPT !.loop = l, !.conn = "open"])
BY DEF Sound, Sessions, DeclaredWasUp, SilentIsStale, Unconnected

\* RxPacket writes the state, and later the time.
LEMMA RxSound ==
  ASSUME NEW s, Sound(s), NEW r \in Received
  PROVE  LET new == NextState(s.state, r)
         IN  Sound([s EXCEPT !.state = new, !.rx = "stamp", !.heard = TRUE,
                             !.fell = @ \/ (s.state = "Up" /\ new = "Down")])
<1> DEFINE new == NextState(s.state, r)
<1>1. s.state \in BFDStates
  BY DEF Sound, Sessions
<1>2. new \in BFDStates /\ (s.state = "Up" => new \in {"Up", "Down"})
  BY <1>1, NextStates
<1> HIDE DEF new
<1> DEFINE t == [s EXCEPT !.state = new, !.rx = "stamp", !.heard = TRUE,
                          !.fell = @ \/ (s.state = "Up" /\ new = "Down")]
<1>3. /\ t.state = new /\ t.rx = "stamp" /\ t.fell = (s.fell \/ (s.state = "Up" /\ new = "Down"))
      /\ t.detect = s.detect /\ t.done = s.done /\ t.conn = s.conn /\ t.loop = s.loop
      /\ t \in Sessions
  BY <1>2 DEF Sound, Sessions
<1>4. Sound(t)
  BY <1>2, <1>3 DEF Sound, DeclaredWasUp, SilentIsStale, Unconnected
<1> QED BY <1>4 DEF new

LEMMA StampSound == ASSUME NEW s, Sound(s) PROVE Sound([s EXCEPT !.rx = "idle", !.stale = FALSE])
BY DEF Sound, Sessions, DeclaredWasUp, SilentIsStale, Unconnected

LEMMA ExpireSound == ASSUME NEW s, Sound(s) PROVE Sound([s EXCEPT !.stale = TRUE, !.heard = FALSE])
BY DEF Sound, Sessions, DeclaredWasUp, SilentIsStale, Unconnected

\* DetectFailure.
LEMMA PollSound ==
  ASSUME NEW s, Sound(s), NEW d \in {"poll", "declare", "returned"}, d = "declare" => s.state = "Up"
  PROVE  Sound([s EXCEPT !.detect = d])
BY DEF Sound, Sessions, DeclaredWasUp, SilentIsStale, Unconnected

LEMMA DeclareSound ==
  ASSUME NEW s, Sound(s), s.detect = "declare"
  PROVE  Sound([s EXCEPT !.detect = "poll", !.state = "Down", !.done = TRUE,
                         !.fell = @ \/ s.state = "Up"])
BY DEF Sound, Sessions, DeclaredWasUp, SilentIsStale, Unconnected, BFDStates

\* The listener and the peer end.
LEMMA SilentSound ==
  ASSUME NEW s, Sound(s)
  PROVE  Sound([s EXCEPT !.listen = FALSE]) /\ Sound([s EXCEPT !.alive = FALSE])
BY DEF Sound, Sessions, DeclaredWasUp, SilentIsStale, Unconnected

-----------------------------------------------------------------------------
(* The actions.                                                            *)

\* A step that leaves one sound session in place of another.
LEMMA Replaced ==
  ASSUME BFDInv, NEW p \in Peers, NEW s, Sound(s), ses' = [ses EXCEPT ![p] = s],
         started' \in BOOLEAN, closers' \subseteq Peers,
         proc' \in {"running", "closing", "exited", "panicked"}
  PROVE  BFDInv'
<1>1. ses' \in [Peers -> Sessions] /\ \A q \in Peers : ses'[q] = IF q = p THEN s ELSE ses[q]
  BY DEF BFDInv, TypeOK, Sound
<1> QED BY <1>1 DEF BFDInv, TypeOK

LEMMA OnlyReplaced ==
  ASSUME BFDInv, NEW p \in Peers, NEW s, Sound(s), Only(p, s)
  PROVE  BFDInv'
BY Replaced DEF Only, BFDInv, TypeOK

\* The five goroutines of a session.
LEMMA GoroutinesKeep ==
  ASSUME BFDInv, NEW p \in Peers, Goroutines(p)
  PROVE  BFDInv'
<1> DEFINE s == ses[p]
<1>0. Sound(s)
  BY DEF BFDInv
<1> USE DEF Unconnected
<1>1. CASE Dial(p)
  BY <1>0, <1>1, DialSound, LoopSound, OnlyReplaced DEF Dial
<1>2. CASE Send(p)
  <2>1. Sound([s EXCEPT !.loop = "sleep"])
    BY <1>0, <1>2, LoopSound DEF Send, Sound
  <2>2. Sound(ConnClosed([s EXCEPT !.loop = "sleep"]))
    BY <2>1, ClosedSound
  <2> QED BY <1>2, <2>1, <2>2, OnlyReplaced DEF Send
<1>3. CASE Wake(p)
  BY <1>0, <1>3, LoopSound, OnlyReplaced DEF Wake, AfterSleep, Sound
<1>4. CASE StartDetect(p)
  <2>1. Sound([s EXCEPT !.loop = "run"])
    BY <1>0, <1>4, LoopSound DEF StartDetect, Sound
  <2>2. Sound([[s EXCEPT !.loop = "run"] EXCEPT !.detect = "poll"])
    BY <2>1, PollSound
  <2>3. ses' = [ses EXCEPT ![p] = [[s EXCEPT !.loop = "run"] EXCEPT !.detect = "poll"]]
    BY <1>4 DEF StartDetect
  <2> QED BY <1>4, <2>2, <2>3, Replaced DEF StartDetect, BFDInv, TypeOK
<1>5. CASE Reconnect(p)
  BY <1>0, <1>5, DialSound, LoopSound, OnlyReplaced DEF Reconnect, Sound
<1>6. CASE Retry(p)
  BY <1>0, <1>6, LoopSound, OnlyReplaced DEF Retry, Sound
<1>7. CASE NewChannel(p)
  <2>1. Sound([s EXCEPT !.loop = AfterSleep, !.down = FALSE])
    BY <1>0, <1>7 DEF NewChannel, AfterSleep, Sound, Sessions, DeclaredWasUp, SilentIsStale
  <2> QED BY <1>7, <2>1, OnlyReplaced DEF NewChannel
<1>8. CASE Quit(p)
  <2>1. Sound([s EXCEPT !.loop = "quit"])
    BY <1>0, <1>8, LoopSound DEF Quit, Sound
  <2>2. Sound(ConnClosed([s EXCEPT !.loop = "quit"]))
    BY <2>1, ClosedSound
  <2>3. ses' = [ses EXCEPT ![p] = ConnClosed([s EXCEPT !.loop = "quit"])]
    BY <1>8 DEF Quit
  <2> QED BY <1>8, <2>2, <2>3, Replaced DEF Quit, BFDInv, TypeOK
<1>9. CASE Stamp(p)
  BY <1>0, <1>9, StampSound, OnlyReplaced DEF Stamp
<1>10. CASE Poll(p)
  BY <1>0, <1>10, PollSound, OnlyReplaced DEF Poll
<1>11. CASE Declare(p)
  <2> DEFINE t == [s EXCEPT !.detect = "poll", !.state = "Down", !.done = TRUE,
                            !.fell = @ \/ s.state = "Up"]
  <2>1. Sound(t)
    BY <1>0, <1>11, DeclareSound DEF Declare
  <2>2. ses' = [ses EXCEPT ![p] = t]
    BY <1>11 DEF Declare
  <2> HIDE DEF t
  <2> QED BY <1>11, <2>1, <2>2, Replaced DEF Declare, BFDInv, TypeOK
<1> QED BY <1>1, <1>2, <1>3, <1>4, <1>5, <1>6, <1>7, <1>8, <1>9, <1>10, <1>11 DEF Goroutines

\* What comes from outside.
LEMMA EnvironmentKeeps ==
  ASSUME BFDInv, NEW p \in Peers, Environment(p)
  PROVE  BFDInv'
<1> DEFINE s == ses[p]
<1>0. Sound(s)
  BY DEF BFDInv
<1>1. CASE StartBFD(p)
  <2>1. Sound([s EXCEPT !.loop = "dial"])
    BY <1>0, LoopSound
  <2>2. Sound([[s EXCEPT !.loop = "dial"] EXCEPT !.listen = TRUE])
    BY <2>1 DEF Sound, Sessions, DeclaredWasUp, SilentIsStale, Unconnected
  <2>3. ses' = [ses EXCEPT ![p] = [[s EXCEPT !.loop = "dial"] EXCEPT !.listen = TRUE]]
    BY <1>1 DEF StartBFD
  <2>4. started' \in BOOLEAN /\ closers' \subseteq Peers /\ proc' = proc
    BY <1>1 DEF StartBFD, BFDInv, TypeOK
  <2> QED BY <2>2, <2>3, <2>4, Replaced DEF BFDInv, TypeOK
<1>2. CASE BadPacket(p)
  BY <1>0, <1>2, SilentSound, OnlyReplaced DEF BadPacket
<1>3. CASE PeerDies(p)
  BY <1>0, <1>3, SilentSound, OnlyReplaced DEF PeerDies
<1>4. CASE Expire(p)
  BY <1>0, <1>4, ExpireSound, OnlyReplaced DEF Expire
<1>5. ASSUME NEW r \in Received, NEW poll \in BOOLEAN, RxPacket(p, r, poll) PROVE BFDInv'
  <2> DEFINE new == NextState(s.state, r)
             t   == [s EXCEPT !.state = new, !.rx = "stamp", !.heard = TRUE,
                              !.fell = @ \/ (s.state = "Up" /\ new = "Down")]
  <2>1. Sound(t)
    BY <1>0, RxSound
  <2>2. Sound(ConnClosed(t))
    BY <2>1, ClosedSound
  <2>3. /\ ses' = [ses EXCEPT ![p] = t] \/ ses' = [ses EXCEPT ![p] = ConnClosed(t)]
        /\ proc' \in {"panicked", proc} /\ UNCHANGED <<started, closers>>
    BY <1>5 DEF RxPacket
  <2> HIDE DEF t
  <2> QED BY <2>1, <2>2, <2>3, Replaced DEF BFDInv, TypeOK
<1> QED BY <1>1, <1>2, <1>3, <1>4, <1>5 DEF Environment

\* The sessions start, and every step keeps them sound.
LEMMA InitBFD == Init => BFDInv
<1> SUFFICES ASSUME Init PROVE BFDInv
  OBVIOUS
<1> DEFINE s == [loop |-> "none", conn |-> "nil", down |-> FALSE, listen |-> FALSE,
                 rx |-> "idle", detect |-> "none", state |-> "Down", stale |-> TRUE,
                 done |-> FALSE, alive |-> TRUE, heard |-> FALSE, fell |-> FALSE]
<1>1. s \in Sessions
  BY DEF Sessions, BFDStates
<1>2. Sound(s)
  BY <1>1 DEF Sound, DeclaredWasUp, SilentIsStale, Unconnected
<1>3. ses = [p \in Peers |-> s] /\ started = FALSE /\ closers = {} /\ proc = "running"
  BY DEF Init
<1> HIDE DEF s
<1> QED BY <1>1, <1>2, <1>3 DEF BFDInv, TypeOK

LEMMA NextBFD == BFDInv /\ [Next]_vars => BFDInv'
<1> SUFFICES ASSUME BFDInv, [Next]_vars PROVE BFDInv'
  OBVIOUS
<1>1. CASE CloseAll \/ Stop \/ Exit
  BY <1>1 DEF CloseAll, Stop, Exit, BFDInv, TypeOK
<1>2. CASE UNCHANGED vars
  BY <1>2 DEF vars, BFDInv, TypeOK
<1> QED BY <1>1, <1>2, GoroutinesKeep, EnvironmentKeeps DEF Next

-----------------------------------------------------------------------------
(* Steps.                                                                  *)

\* A failure is declared by Poll alone.
LEMMA OnlyPollDeclares ==
  ASSUME TypeOK, Next, NEW q \in Peers,
         ses[q].detect # "declare", ses'[q].detect = "declare"
  PROVE  Poll(q)
<1>1. ASSUME NEW p \in Peers, NEW s, ses' = [ses EXCEPT ![p] = s],
             s.detect \in {ses[p].detect, "poll"}
      PROVE  FALSE
  BY <1>1 DEF TypeOK
<1>2. ASSUME NEW s, ConnClosed(s).detect # s.detect PROVE FALSE
  BY <1>2 DEF ConnClosed
<1>3. ASSUME NEW p \in Peers, Goroutines(p), ~Poll(p) PROVE FALSE
  <2> DEFINE s == ses[p]
  <2>0. s \in Sessions
    BY DEF TypeOK
  <2>1. CASE Dial(p)
    BY <1>1, <2>0, <2>1 DEF Dial, Only, Sessions
  <2>2. CASE Send(p)
    <3>1. ConnClosed([s EXCEPT !.loop = "sleep"]).detect = s.detect
      BY <1>2, <2>0 DEF Sessions
    <3> QED BY <1>1, <2>0, <2>2, <3>1 DEF Send, Only, Sessions
  <2>3. CASE Wake(p) \/ Retry(p) \/ NewChannel(p) \/ Stamp(p) \/ Reconnect(p)
    BY <1>1, <2>0, <2>3 DEF Wake, Retry, NewChannel, Stamp, Reconnect, Only, Sessions
  <2>4. CASE StartDetect(p) \/ Declare(p)
    BY <2>0, <2>4 DEF StartDetect, Declare, TypeOK, Sessions
  <2>5. CASE Quit(p)
    <3>1. ConnClosed([s EXCEPT !.loop = "quit"]).detect = s.detect
      BY <1>2, <2>0 DEF Sessions
    <3>2. ses' = [ses EXCEPT ![p] = ConnClosed([s EXCEPT !.loop = "quit"])]
      BY <2>5 DEF Quit
    <3> QED BY <1>1, <3>1, <3>2
  <2> QED BY <1>3, <2>1, <2>2, <2>3, <2>4, <2>5 DEF Goroutines
<1>4. ASSUME NEW p \in Peers, Environment(p) PROVE FALSE
  <2> DEFINE s == ses[p]
  <2>0. s \in Sessions
    BY DEF TypeOK
  <2>1. CASE BadPacket(p) \/ PeerDies(p) \/ Expire(p)
    BY <1>1, <2>0, <2>1 DEF BadPacket, PeerDies, Expire, Only, Sessions
  <2>2. CASE StartBFD(p)
    BY <2>0, <2>2 DEF StartBFD, TypeOK, Sessions
  <2>3. ASSUME NEW r \in Received, NEW poll \in BOOLEAN, RxPacket(p, r, poll) PROVE FALSE
    <3> DEFINE new == NextState(s.state, r)
               t   == [s EXCEPT !.state = new, !.rx = "stamp", !.heard = TRUE,
                                !.fell = @ \/ (s.state = "Up" /\ new = "Down")]
    <3>1. t.detect = s.detect
      BY <2>0 DEF Sessions
    <3>2. ses' = [ses EXCEPT ![p] = t] \/ ses' = [ses EXCEPT ![p] = ConnClosed(t)]
      BY <2>3 DEF RxPacket
    <3> HIDE DEF t
    <3> QED BY <1>1, <1>2, <3>1, <3>2
  <2> QED BY <1>4, <2>1, <2>2, <2>3 DEF Environment
<1>5. ASSUME NEW p \in Peers, Poll(p), p # q PROVE FALSE
  BY <1>5 DEF Poll, Only, TypeOK
<1>6. CASE CloseAll \/ Stop \/ Exit
  BY <1>6 DEF CloseAll, Stop, Exit
<1> QED BY <1>3, <1>4, <1>5, <1>6 DEF Next

\* The program panics in RxPacket or in DetectFailure.
LEMMA OnlyTwoPanic ==
  ASSUME Next, proc # "panicked", proc' = "panicked"
  PROVE  \E p \in Peers :
           \/ /\ ses[p].conn = "nil" /\ ses[p].loop \notin {"none", "quit"}
           \/ ses[p].done
<1>1. ASSUME NEW p \in Peers, Goroutines(p) PROVE ses[p].done
  BY <1>1 DEF Goroutines, Dial, Send, Wake, StartDetect, Reconnect, Retry, NewChannel, Quit,
              Stamp, Poll, Declare, Only
<1>2. ASSUME NEW p \in Peers, Environment(p)
      PROVE  ses[p].conn = "nil" /\ ses[p].loop \notin {"none", "quit"}
  BY <1>2 DEF Environment, StartBFD, BadPacket, PeerDies, Expire, RxPacket, Only
<1> QED BY <1>1, <1>2 DEF Next, CloseAll, Stop, Exit

-----------------------------------------------------------------------------
(* The theorems.                                                           *)

LEMMA BFDInvHolds == Spec => []BFDInv
BY InitBFD, NextBFD, PTL DEF Spec

\* A peer that never came up cannot stop the program, whichever goroutine
\* reads or writes the state of its session in between.
THEOREM StopsOnlyAfterUpHolds == Spec => []StopsOnlyAfterUp
<1>1. BFDInv => StopsOnlyAfterUp
  BY DEF BFDInv, Sound, StopsOnlyAfterUp
<1> QED BY <1>1, BFDInvHolds, PTL

\* A failure is declared for a peer that has just been heard only between
\* the two writes of RxPacket.
THEOREM FalseAlarmOnlyInWindowHolds == Spec => FalseAlarmOnlyInWindow
<1> DEFINE A == \A p \in Peers :
                  ses[p].detect = "poll" /\ ses'[p].detect = "declare" =>
                    ~ses[p].heard \/ ses[p].rx = "stamp"
<1>1. BFDInv /\ [Next]_vars => [A]_vars
  <2> SUFFICES ASSUME BFDInv, Next, NEW p \in Peers,
                      ses[p].detect = "poll", ses'[p].detect = "declare"
               PROVE  ~ses[p].heard \/ ses[p].rx = "stamp"
    OBVIOUS
  <2>1. TypeOK /\ Sound(ses[p])
    BY DEF BFDInv
  <2>2. Poll(p)
    BY <2>1, OnlyPollDeclares
  <2>3. ses[p].stale
    BY <2>1, <2>2 DEF Poll, Only, TypeOK, Sessions
  <2> QED BY <2>1, <2>3 DEF Sound, SilentIsStale, Sessions
<1> QED BY <1>1, BFDInvHolds, PTL DEF Spec, FalseAlarmOnlyInWindow

\* Once a session has had a connection nothing takes it away from the answer
\* to a poll bit: the program panics without a connection or when chBFDDone
\* is closed a second time, and never otherwise.
THEOREM PanicsOnlyUnconnectedHolds == Spec => PanicsOnlyUnconnected
<1> DEFINE A == proc # "panicked" /\ proc' = "panicked" =>
                  \E p \in Peers : ses[p].loop \in {"dial", "blocked"} \/ ses[p].done
<1>1. BFDInv /\ [Next]_vars => [A]_vars
  <2> SUFFICES ASSUME BFDInv, Next, proc # "panicked", proc' = "panicked"
               PROVE  \E p \in Peers : ses[p].loop \in {"dial", "blocked"} \/ ses[p].done
    OBVIOUS
  <2>1. PICK p \in Peers : \/ ses[p].conn = "nil" /\ ses[p].loop \notin {"none", "quit"}
                           \/ ses[p].done
    BY OnlyTwoPanic
  <2> QED BY <2>1 DEF BFDInv, Sound, Unconnected
<1> QED BY <1>1, BFDInvHolds, PTL DEF Spec, PanicsOnlyUnconnected
=============================================================================

----------------------------- MODULE BFDTimers ------------------------------
(***************************************************************************)
(* The negotiation of intervals in a BFD session (pkg/bfd/session.go): how *)
(* the intervals of the received packets and of the configuration become   *)
(* the transmit interval of sessionLoop and the detection time of          *)
(* DetectFailure, and when a packet makes the client reconnect.            *)
(*                                                                         *)
(* remoteMinTxInterval and finalAsyncTxInterval are never assigned and     *)
(* stay 0; requiredMinRxInterval keeps its configured value.  The peer may *)
(* send anything.  Authentication is off.                                  *)
(***************************************************************************)
EXTENDS Naturals, BFDState

CONSTANTS
  TxIntervals,   \* configured transmit intervals
  RxIntervals,   \* configured receive intervals
  Slow,          \* DesiredMinTXInterval, the interval of a session not up
  PeerRx,        \* receive intervals the peer asks for
  PeerTx,        \* transmit intervals the peer announces, never 0
  Mults,         \* detection multipliers of the peer
  Word,          \* values of a uint32
  None           \* no packet received yet

ASSUME IntervalsAssumption ==
  /\ TxIntervals \subseteq Nat /\ RxIntervals \subseteq Nat /\ PeerRx \subseteq Nat
  /\ PeerTx \subseteq Nat \ {0} /\ Mults \subseteq Nat
  /\ Slow \in Nat \ {0} /\ Word \in Nat \ {0}

Packets == [rx : PeerRx, tx : PeerTx, mult : Mults]
ASSUME NoneAssumption == None \notin Packets

VARIABLES
  conf,      \* TxInterval and RxInterval of the session
  state,     \* s.State
  t,         \* the timers
  last,      \* history: the intervals of the last packet
  again,     \* history: the session was up and the packet before was alike
  maxRx      \* history: the largest receive interval asked for

vars == <<conf, state, t, last, again, maxRx>>

Larger(a, b) == IF a > b THEN a ELSE b

\* NewSession; the two setters it calls find their value already there.
NewTimers ==
  [desired |-> Slow, remoteMinRx |-> 1, asyncTx |-> Slow, asyncDetect |-> 0,
   finalDetect |-> 0, mult |-> 0, poll |-> FALSE, restart |-> FALSE]

Init ==
  /\ conf \in [tx : TxIntervals, rx : RxIntervals]
  /\ state = "Down" /\ t = NewTimers /\ last = None /\ again = FALSE /\ maxRx = 0

-----------------------------------------------------------------------------
(* The setters.                                                            *)

CalcDetectTime(mult, rx, tx) == (mult * Larger(rx, tx)) % Word

\* setRemoteMinRxInterval: a shorter transmit interval restarts the client.
SetRemoteMinRxAlways(u, v) ==                             \* mutant
  [u EXCEPT !.asyncTx = Larger(v, u.desired), !.remoteMinRx = v, !.restart = TRUE]
SetRemoteMinRxIgnored(u, v) == [u EXCEPT !.remoteMinRx = v]   \* mutant

SetRemoteMinRx(u, v) ==
  LET tx == Larger(v, u.desired)
  IN  IF v = u.remoteMinRx THEN [u EXCEPT !.restart = FALSE]
      ELSE [u EXCEPT !.asyncTx = tx, !.remoteMinRx = v, !.restart = tx < u.asyncTx]

\* setRemoteDetectMult; "s.remoteDetectMult" stands where the peer's transmit
\* interval should be.
SetRemoteDetectMult(u, required, v) ==
  IF v = u.mult THEN u
  ELSE [u EXCEPT !.asyncDetect = CalcDetectTime(v, required, u.mult), !.mult = v]

\* setRemoteMinTxInterval, compared with the 0 of remoteMinTxInterval and
\* stored in remoteMinRxInterval.
SetRemoteMinTxOnce(u, required, v) ==                     \* mutant
  IF v = u.remoteMinRx THEN u
  ELSE [u EXCEPT !.asyncDetect = CalcDetectTime(u.mult, required, v), !.remoteMinRx = v]

SetRemoteMinTx(u, required, v) ==
  IF v = 0 THEN u
  ELSE [u EXCEPT !.asyncDetect = CalcDetectTime(u.mult, required, v), !.remoteMinRx = v]

\* setDesiredMinTxInterval; a longer interval of a session that is up goes to
\* finalAsyncDetectTime.
SetDesiredMinTx(u, s, v) ==
  LET later == v > u.desired /\ s = "Up"
  IN  IF v = u.desired THEN u
      ELSE [u EXCEPT !.finalDetect = IF later THEN Larger(v, u.remoteMinRx) ELSE @,
                     !.asyncTx     = IF later THEN @ ELSE v,
                     !.desired = v, !.poll = TRUE]

\* "if p.Final".
EndPoll(u) ==
  [u EXCEPT !.poll = FALSE, !.finalDetect = 0,
            !.asyncDetect = IF u.finalDetect > 0 THEN u.finalDetect ELSE @]

-----------------------------------------------------------------------------
(* The session.                                                            *)

\* The three intervals of a packet.
Negotiate(u, p) ==
  SetRemoteMinTx(SetRemoteDetectMult(SetRemoteMinRx(u, p.rx), conf.rx, p.mult), conf.rx, p.tx)

\* What the state change does to the intervals.
AfterState(u, new, r) ==
  CASE state # "Up" /\ new = "Up"            -> SetDesiredMinTx(u, new, conf.tx)
    [] state # "Down" /\ r = "AdminDown"     -> [u EXCEPT !.desired = Slow]
    [] OTHER                                 -> u

RxPacket(p, r, final) ==
  LET new == NextState(state, r)
      u   == AfterState(Negotiate(t, p), new, r)
  IN  /\ state' = new
      /\ t' = IF final THEN EndPoll(u) ELSE u
      /\ last' = p /\ again' = (state = "Up" /\ last = p)
      /\ maxRx' = Larger(maxRx, p.rx)
      /\ UNCHANGED conf

\* DetectFailure finds the peer silent.
Expire ==
  /\ state = "Up" /\ t.asyncDetect # 0
  /\ state' = "Down" /\ t' = SetDesiredMinTx([t EXCEPT !.restart = FALSE], "Down", Slow)
  /\ again' = FALSE
  /\ UNCHANGED <<conf, last, maxRx>>

Next ==
  \/ Expire
  \/ \E p \in Packets, r \in Received, final \in BOOLEAN : RxPacket(p, r, final)

Spec == Init /\ [][Next]_vars

-----------------------------------------------------------------------------
(* Properties.                                                             *)

\* After every packet the detection time is the one RFC 5880 asks for, the
\* peer's multiplier times the longer of its transmit and the required receive
\* interval, in spite of the two mixed up fields (session.go:446, 458);
\* except that the product may not fit in 32 bits, and that a transmit
\* interval configured above one second ends up in finalAsyncDetectTime
\* (session.go:513).
DetectTimeRight ==
  last # None /\ conf.tx <= Slow /\ last.mult * Larger(conf.rx, last.tx) < Word =>
    t.asyncDetect = last.mult * Larger(conf.rx, last.tx)

\* A session that is up and hears the same packet twice sends as the peer
\* asked: no faster than its receive interval.  Not if that interval is also
\* the peer's transmit interval: setRemoteMinRxInterval then takes it for
\* known (session.go:458) and the interval of the configuration stays.
TxRespectsPeer ==
  state = "Up" /\ again /\ last.rx # last.tx => t.asyncTx = Larger(last.rx, t.desired)

\* The client reconnects, which may end DetectFailure (session.go:529), only
\* for a peer that has asked for a longer interval before: one that always
\* sends the same intervals never causes it.  (With an interval above one
\* second AdminDown from the peer is enough, session.go:249.)
RestartOnlyIfLowered == t.restart /\ conf.tx <= Slow => last.rx < maxRx
=============================================================================

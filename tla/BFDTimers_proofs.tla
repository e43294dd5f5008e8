-------------------------- MODULE BFDTimers_proofs --------------------------
(***************************************************************************)
(* The negotiation of intervals for every configuration and every sequence *)
(* of packets.                                                             *)
(*                                                                         *)
(* The properties hold although two fields are mixed up, and the invariant *)
(* says why: remoteMinRx always holds the transmit interval of the last    *)
(* packet, so every packet whose two intervals differ is negotiated anew;  *)
(* and as long as the configured interval is at most Slow, nothing is ever *)
(* left in finalDetect, and asyncTx is bounded by what the peer has asked  *)
(* for and by desired.                                                     *)
(***************************************************************************)
EXTENDS BFDTimers, TLAPS

Timers ==
  [desired : Nat, remoteMinRx : Nat, asyncTx : Nat, asyncDetect : Nat,
   finalDetect : Nat, mult : Nat, poll : BOOLEAN, restart : BOOLEAN]

TypeInv ==
  /\ conf \in [tx : Nat, rx : Nat]
  /\ state \in BFDStates /\ t \in Timers
  /\ last \in Packets \cup {None} /\ again \in BOOLEAN /\ maxRx \in Nat

\* What is remembered of the last packet.
Heard ==
  last # None =>
    t.remoteMinRx = last.tx /\ t.mult = last.mult /\ last.rx <= maxRx

\* With a configured interval of at most one second.
Usual ==
  conf.tx <= Slow =>
    /\ t.finalDetect = 0 /\ t.desired \in {Slow, conf.tx}
    /\ t.asyncTx <= Larger(maxRx, t.desired)
    /\ last # None => t.asyncDetect = CalcDetectTime(last.mult, conf.rx, last.tx)

TimersInv == TypeInv /\ Heard /\ Usual /\ TxRespectsPeer /\ RestartOnlyIfLowered

\* The detection time is a number of 32 bits, the product if that fits.
LEMMA DetectTime ==
  ASSUME NEW m \in Nat, NEW a \in Nat, NEW b \in Nat
  PROVE  /\ Larger(a, b) \in Nat /\ CalcDetectTime(m, a, b) \in Nat
         /\ m * Larger(a, b) < Word => CalcDetectTime(m, a, b) = m * Larger(a, b)
<1> DEFINE x == m * Larger(a, b)
<1>1. Larger(a, b) \in Nat
  BY DEF Larger
<1>2. x \in Nat
  BY <1>1
<1>3. CalcDetectTime(m, a, b) = x % Word
  BY DEF CalcDetectTime
<1> HIDE DEF x
<1>4. x % Word \in Nat /\ (x < Word => x % Word = x)
  BY <1>2, IntervalsAssumption
<1> QED BY <1>1, <1>3, <1>4 DEF x

\* The three setters of a packet, one after the other.
LEMMA NegotiateIs ==
  ASSUME TypeInv, NEW p \in Packets
  PROVE  LET u == Negotiate(t, p)
         IN  /\ u \in Timers
             /\ u.remoteMinRx = p.tx /\ u.mult = p.mult
             /\ u.asyncDetect = CalcDetectTime(p.mult, conf.rx, p.tx)
             /\ u.desired = t.desired /\ u.finalDetect = t.finalDetect
             /\ u.asyncTx = IF p.rx = t.remoteMinRx THEN t.asyncTx ELSE Larger(p.rx, t.desired)
             /\ u.restart => p.rx # t.remoteMinRx /\ Larger(p.rx, t.desired) < t.asyncTx
<1> DEFINE u1 == SetRemoteMinRx(t, p.rx)
           u2 == SetRemoteDetectMult(u1, conf.rx, p.mult)
           u3 == SetRemoteMinTx(u2, conf.rx, p.tx)
<1>1. /\ p.rx \in Nat /\ p.tx \in Nat \ {0} /\ p.mult \in Nat /\ conf.rx \in Nat
      /\ t \in Timers
  BY IntervalsAssumption DEF TypeInv, Packets
<1>2. Larger(p.rx, t.desired) \in Nat /\ t.desired \in Nat /\ t.asyncTx \in Nat
  BY <1>1 DEF Larger, Timers
<1>3. /\ u1 \in Timers
      /\ u1.desired = t.desired /\ u1.finalDetect = t.finalDetect
      /\ u1.asyncTx = IF p.rx = t.remoteMinRx THEN t.asyncTx ELSE Larger(p.rx, t.desired)
      /\ u1.restart => p.rx # t.remoteMinRx /\ Larger(p.rx, t.desired) < t.asyncTx
  <2>1. CASE p.rx = t.remoteMinRx
    <3>1. u1 = [t EXCEPT !.restart = FALSE]
      BY <2>1 DEF SetRemoteMinRx
    <3> QED BY <3>1, <2>1, <1>1 DEF Timers
  <2>2. CASE p.rx # t.remoteMinRx
    <3> DEFINE x == Larger(p.rx, t.desired)
               b == x < t.asyncTx
    <3>1. u1 = [t EXCEPT !.asyncTx = x, !.remoteMinRx = p.rx, !.restart = b]
      BY <2>2 DEF SetRemoteMinRx
    <3>2. b \in BOOLEAN
      OBVIOUS
    <3>3. x \in Nat
      BY <1>2
    <3> HIDE DEF b, x
    <3>4. /\ u1 \in Timers /\ u1.desired = t.desired /\ u1.finalDetect = t.finalDetect
          /\ u1.asyncTx = x /\ u1.restart = b
      BY <3>1, <3>2, <3>3, <1>1 DEF Timers
    <3> QED BY <3>4, <2>2 DEF b, x
  <2> QED BY <2>1, <2>2
<1> HIDE DEF u1
<1>4. /\ u2 \in Timers /\ u2.mult = p.mult
      /\ u2.desired = u1.desired /\ u2.finalDetect = u1.finalDetect
      /\ u2.asyncTx = u1.asyncTx /\ u2.restart = u1.restart
  <2>1. CASE p.mult = u1.mult
    BY <2>1, <1>3 DEF SetRemoteDetectMult
  <2>2. CASE p.mult # u1.mult
    <3> DEFINE d == CalcDetectTime(p.mult, conf.rx, u1.mult)
    <3>1. u1.mult \in Nat
      BY <1>3 DEF Timers
    <3>2. d \in Nat
      BY <3>1, <1>1, DetectTime
    <3>3. u2 = [u1 EXCEPT !.asyncDetect = d, !.mult = p.mult]
      BY <2>2 DEF SetRemoteDetectMult
    <3> HIDE DEF d, u2
    <3> QED BY <3>2, <3>3, <1>1, <1>3 DEF Timers
  <2> QED BY <2>1, <2>2
<1> HIDE DEF u2
<1>5. /\ u3 \in Timers /\ u3.remoteMinRx = p.tx /\ u3.mult = u2.mult
      /\ u3.asyncDetect = CalcDetectTime(u2.mult, conf.rx, p.tx)
      /\ u3.desired = u2.desired /\ u3.finalDetect = u2.finalDetect
      /\ u3.asyncTx = u2.asyncTx /\ u3.restart = u2.restart
  <2> DEFINE d == CalcDetectTime(u2.mult, conf.rx, p.tx)
  <2>1. u2.mult \in Nat
    BY <1>4 DEF Timers
  <2>2. d \in Nat
    BY <2>1, <1>1, DetectTime
  <2>3. u3 = [u2 EXCEPT !.asyncDetect = d, !.remoteMinRx = p.tx]
    BY <1>1 DEF SetRemoteMinTx
  <2> HIDE DEF d, u3
  <2>4. /\ u3 \in Timers /\ u3.remoteMinRx = p.tx /\ u3.mult = u2.mult /\ u3.asyncDetect = d
        /\ u3.desired = u2.desired /\ u3.finalDetect = u2.finalDetect
        /\ u3.asyncTx = u2.asyncTx /\ u3.restart = u2.restart
    BY <2>2, <2>3, <1>1, <1>4 DEF Timers
  <2> QED BY <2>4 DEF d
<1>6. Negotiate(t, p) = u3
  BY DEF Negotiate, u1, u2, u3
<1> HIDE DEF u3
<1> QED BY <1>3, <1>4, <1>5, <1>6

\* What setDesiredMinTxInterval leaves alone, and what it sets.
LEMMA DesiredIs ==
  ASSUME NEW u \in Timers, NEW s, NEW v \in Nat
  PROVE  LET w == SetDesiredMinTx(u, s, v)
         IN  /\ w \in Timers /\ w.desired = v
             /\ w.remoteMinRx = u.remoteMinRx /\ w.mult = u.mult
             /\ w.asyncDetect = u.asyncDetect /\ w.restart = u.restart
             /\ ~(v > u.desired /\ s = "Up") =>
                  w.finalDetect = u.finalDetect /\ (w.asyncTx = v \/ (v = u.desired /\ w.asyncTx = u.asyncTx))
<1> DEFINE w == SetDesiredMinTx(u, s, v)
<1>1. CASE v = u.desired
  <2>1. w = u
    BY <1>1 DEF SetDesiredMinTx
  <2> QED BY <2>1, <1>1
<1>2. CASE v # u.desired /\ v > u.desired /\ s = "Up"
  <2> DEFINE f == Larger(v, u.remoteMinRx)
  <2>1. w = [u EXCEPT !.finalDetect = f, !.asyncTx = u.asyncTx, !.desired = v, !.poll = TRUE]
    BY <1>2 DEF SetDesiredMinTx
  <2>2. f \in Nat
    BY DEF Larger, Timers
  <2> HIDE DEF f, w
  <2>3. /\ w \in Timers /\ w.desired = v
        /\ w.remoteMinRx = u.remoteMinRx /\ w.mult = u.mult
        /\ w.asyncDetect = u.asyncDetect /\ w.restart = u.restart
    BY <2>1, <2>2 DEF Timers
  <2> QED BY <2>3, <1>2 DEF w
<1>3. CASE v # u.desired /\ ~(v > u.desired /\ s = "Up")
  <2>1. w = [u EXCEPT !.finalDetect = u.finalDetect, !.asyncTx = v, !.desired = v, !.poll = TRUE]
    BY <1>3 DEF SetDesiredMinTx
  <2> HIDE DEF w
  <2>2. /\ w \in Timers /\ w.desired = v
        /\ w.remoteMinRx = u.remoteMinRx /\ w.mult = u.mult
        /\ w.asyncDetect = u.asyncDetect /\ w.restart = u.restart
        /\ w.finalDetect = u.finalDetect /\ w.asyncTx = v
    BY <2>1 DEF Timers
  <2> QED BY <2>2 DEF w
<1> QED BY <1>1, <1>2, <1>3

\* The state change after the negotiation.
LEMMA AfterStateIs ==
  ASSUME TypeInv, NEW u \in Timers, NEW new \in BFDStates, NEW r,
         new = "Up" => r # "AdminDown"
  PROVE  LET w == AfterState(u, new, r)
         IN  /\ w \in Timers
             /\ w.remoteMinRx = u.remoteMinRx /\ w.mult = u.mult
             /\ w.asyncDetect = u.asyncDetect /\ w.restart = u.restart
             /\ state = "Up" /\ new = "Up" /\ r # "AdminDown" =>
                  w.asyncTx = u.asyncTx /\ w.desired = u.desired
             /\ conf.tx <= Slow /\ u.desired \in {Slow, conf.tx} =>
                  /\ w.finalDetect = u.finalDetect /\ w.desired \in {Slow, conf.tx}
                  /\ \/ w.asyncTx = w.desired
                     \/ w.asyncTx = u.asyncTx /\ w.desired >= u.desired
<1> DEFINE w == AfterState(u, new, r)
<1>1. conf.tx \in Nat /\ Slow \in Nat /\ u.desired \in Nat
  BY IntervalsAssumption DEF TypeInv, Timers
<1>2. CASE state # "Up" /\ new = "Up"
  <2>1. w = SetDesiredMinTx(u, new, conf.tx)
    BY <1>2 DEF AfterState
  <2>2. conf.tx <= Slow /\ u.desired \in {Slow, conf.tx} => ~(conf.tx > u.desired)
    BY <1>1
  <2> HIDE DEF w
  <2> QED BY <2>1, <2>2, <1>1, <1>2, DesiredIs DEF w
<1>3. CASE ~(state # "Up" /\ new = "Up") /\ state # "Down" /\ r = "AdminDown"
  <2>1. w = [u EXCEPT !.desired = Slow]
    BY <1>3 DEF AfterState
  <2>2. /\ w \in Timers /\ w.desired = Slow
        /\ w.remoteMinRx = u.remoteMinRx /\ w.mult = u.mult /\ w.asyncTx = u.asyncTx
        /\ w.asyncDetect = u.asyncDetect /\ w.restart = u.restart
        /\ w.finalDetect = u.finalDetect
    BY <2>1, <1>1 DEF Timers
  <2>3. conf.tx <= Slow /\ u.desired \in {Slow, conf.tx} => Slow >= u.desired
    BY <1>1
  <2> HIDE DEF w
  <2> QED BY <2>2, <2>3, <1>3 DEF w
<1>4. CASE ~(state # "Up" /\ new = "Up") /\ ~(state # "Down" /\ r = "AdminDown")
  <2>1. w = u
    BY <1>4 DEF AfterState
  <2> QED BY <2>1, <1>1
<1> QED BY <1>2, <1>3, <1>4

\* The end of a poll sequence.
LEMMA EndPollIs ==
  ASSUME NEW u \in Timers, NEW final \in BOOLEAN
  PROVE  LET w == IF final THEN EndPoll(u) ELSE u
         IN  /\ w \in Timers
             /\ w.remoteMinRx = u.remoteMinRx /\ w.mult = u.mult /\ w.asyncTx = u.asyncTx
             /\ w.restart = u.restart /\ w.desired = u.desired
             /\ u.finalDetect = 0 => w.finalDetect = 0 /\ w.asyncDetect = u.asyncDetect
<1> DEFINE d == IF u.finalDetect > 0 THEN u.finalDetect ELSE u.asyncDetect
<1>1. d \in Nat /\ (u.finalDetect = 0 => d = u.asyncDetect)
  BY DEF Timers
<1>2. EndPoll(u) = [u EXCEPT !.poll = FALSE, !.finalDetect = 0, !.asyncDetect = d]
  BY DEF EndPoll
<1> HIDE DEF d
<1>3. CASE final
  <2> DEFINE w == EndPoll(u)
  <2>1. w = [u EXCEPT !.poll = FALSE, !.finalDetect = 0, !.asyncDetect = d]
    BY <1>2
  <2> HIDE DEF w
  <2>2. /\ w \in Timers
        /\ w.remoteMinRx = u.remoteMinRx /\ w.mult = u.mult /\ w.asyncTx = u.asyncTx
        /\ w.restart = u.restart /\ w.desired = u.desired
        /\ w.finalDetect = 0 /\ w.asyncDetect = d
    BY <1>1, <2>1 DEF Timers
  <2> QED BY <2>2, <1>1, <1>3 DEF w
<1>4. CASE ~final
  BY <1>4
<1> QED BY <1>3, <1>4

\* A packet keeps the invariant.
LEMMA RxPacketKeepsInv ==
  ASSUME TimersInv, NEW p \in Packets, NEW r \in Received, NEW final \in BOOLEAN,
         RxPacket(p, r, final)
  PROVE  TimersInv'
<1> DEFINE new == NextState(state, r)
           u   == Negotiate(t, p)
           w   == AfterState(u, new, r)
<1>1. /\ state' = new /\ t' = IF final THEN EndPoll(w) ELSE w
      /\ last' = p /\ conf' = conf /\ maxRx' = Larger(maxRx, p.rx)
  BY DEF RxPacket
<1>2. (again' = (state = "Up" /\ last = p)) /\ again' \in BOOLEAN
  BY Zenon DEF RxPacket
<1>3. new \in BFDStates /\ (new = "Up" => r # "AdminDown")
  BY DEF NextState, BFDStates, Received, TimersInv, TypeInv
<1>4. /\ p.rx \in Nat /\ p.tx \in Nat /\ p.mult \in Nat /\ p # None
      /\ conf.tx \in Nat /\ conf.rx \in Nat /\ maxRx \in Nat /\ Slow \in Nat
      /\ t \in Timers /\ t.desired \in Nat /\ t.asyncTx \in Nat /\ TypeInv
  BY IntervalsAssumption, NoneAssumption DEF TimersInv, TypeInv, Packets, Timers
<1>5. /\ u \in Timers /\ u.remoteMinRx = p.tx /\ u.mult = p.mult
      /\ u.asyncDetect = CalcDetectTime(p.mult, conf.rx, p.tx)
      /\ u.desired = t.desired /\ u.finalDetect = t.finalDetect
      /\ u.asyncTx = IF p.rx = t.remoteMinRx THEN t.asyncTx ELSE Larger(p.rx, t.desired)
      /\ u.restart => p.rx # t.remoteMinRx /\ Larger(p.rx, t.desired) < t.asyncTx
  BY <1>4, NegotiateIs
<1> HIDE DEF new, u
<1>6. /\ w \in Timers
      /\ w.remoteMinRx = u.remoteMinRx /\ w.mult = u.mult
      /\ w.asyncDetect = u.asyncDetect /\ w.restart = u.restart
      /\ state = "Up" /\ new = "Up" /\ r # "AdminDown" =>
           w.asyncTx = u.asyncTx /\ w.desired = u.desired
      /\ conf.tx <= Slow /\ u.desired \in {Slow, conf.tx} =>
           /\ w.finalDetect = u.finalDetect /\ w.desired \in {Slow, conf.tx}
           /\ \/ w.asyncTx = w.desired
              \/ w.asyncTx = u.asyncTx /\ w.desired >= u.desired
  BY <1>3, <1>4, <1>5, AfterStateIs
<1> HIDE DEF w
<1>7. /\ t' \in Timers
      /\ t'.remoteMinRx = w.remoteMinRx /\ t'.mult = w.mult /\ t'.asyncTx = w.asyncTx
      /\ t'.restart = w.restart /\ t'.desired = w.desired
      /\ w.finalDetect = 0 => t'.finalDetect = 0 /\ t'.asyncDetect = w.asyncDetect
  BY <1>1, <1>6, EndPollIs
<1>8. maxRx' \in Nat /\ maxRx' >= maxRx /\ maxRx' >= p.rx
  BY <1>1, <1>4 DEF Larger
<1>9. TypeInv'
  BY <1>1, <1>2, <1>3, <1>7, <1>8 DEF TypeInv, TimersInv
<1>10. Heard'
  BY <1>1, <1>5, <1>6, <1>7, <1>8 DEF Heard
<1>11. Usual'
  <2> SUFFICES ASSUME conf.tx <= Slow PROVE
        /\ t'.finalDetect = 0 /\ t'.desired \in {Slow, conf.tx}
        /\ t'.asyncTx <= Larger(maxRx', t'.desired)
        /\ t'.asyncDetect = CalcDetectTime(p.mult, conf.rx, p.tx)
    BY <1>1 DEF Usual
  <2>1. /\ t.finalDetect = 0 /\ t.desired \in {Slow, conf.tx}
        /\ t.asyncTx <= Larger(maxRx, t.desired)
    BY DEF TimersInv, Usual
  <2>2. u.asyncTx <= Larger(maxRx', t.desired) /\ u.asyncTx \in Nat
    BY <1>4, <1>5, <1>8, <2>1 DEF Larger, Timers
  <2>3. w.asyncTx <= Larger(maxRx', w.desired)
    BY <1>4, <1>5, <1>6, <1>8, <2>1, <2>2 DEF Larger, Timers
  <2> QED BY <1>5, <1>6, <1>7, <2>1, <2>3
<1>12. TxRespectsPeer'
  <2> SUFFICES ASSUME new = "Up", state = "Up", last = p, p.rx # p.tx
               PROVE  t'.asyncTx = Larger(p.rx, t'.desired)
    BY <1>1, <1>2 DEF TxRespectsPeer
  <2>1. t.remoteMinRx = p.tx
    BY <1>4 DEF TimersInv, Heard
  <2> QED BY <2>1, <1>3, <1>5, <1>6, <1>7
<1>13. RestartOnlyIfLowered'
  <2> SUFFICES ASSUME t'.restart, conf.tx <= Slow PROVE p.rx < maxRx'
    BY <1>1 DEF RestartOnlyIfLowered
  <2>1. Larger(p.rx, t.desired) < t.asyncTx
    BY <1>5, <1>6, <1>7
  <2>2. t.asyncTx <= Larger(maxRx, t.desired)
    BY DEF TimersInv, Usual
  <2> QED BY <2>1, <2>2, <1>4, <1>8 DEF Larger
<1> QED BY <1>9, <1>10, <1>11, <1>12, <1>13 DEF TimersInv

\* So does a failure that DetectFailure declares.
LEMMA ExpireKeepsInv ==
  ASSUME TimersInv, Expire
  PROVE  TimersInv'
<1> DEFINE u == [t EXCEPT !.restart = FALSE]
<1>1. /\ state' = "Down" /\ t' = SetDesiredMinTx(u, "Down", Slow) /\ again' = FALSE
      /\ conf' = conf /\ last' = last /\ maxRx' = maxRx
  BY DEF Expire
<1>2. /\ u \in Timers /\ u.remoteMinRx = t.remoteMinRx /\ u.mult = t.mult
      /\ u.asyncTx = t.asyncTx /\ u.desired = t.desired /\ u.asyncDetect = t.asyncDetect
      /\ u.finalDetect = t.finalDetect /\ ~u.restart
  BY DEF TimersInv, TypeInv, Timers
<1>3. Slow \in Nat
  BY IntervalsAssumption
<1> HIDE DEF u
<1>4. /\ t' \in Timers /\ t'.desired = Slow
      /\ t'.remoteMinRx = u.remoteMinRx /\ t'.mult = u.mult
      /\ t'.asyncDetect = u.asyncDetect /\ t'.restart = u.restart
      /\ t'.finalDetect = u.finalDetect
      /\ t'.asyncTx = Slow \/ (Slow = u.desired /\ t'.asyncTx = u.asyncTx)
  BY <1>1, <1>2, <1>3, DesiredIs
<1>5. TypeInv'
  BY <1>1, <1>4 DEF TimersInv, TypeInv, BFDStates
<1>6. Heard'
  BY <1>1, <1>2, <1>4 DEF TimersInv, Heard
<1>7. Usual'
  <2> SUFFICES ASSUME conf.tx <= Slow PROVE
        /\ t'.finalDetect = 0 /\ t'.desired \in {Slow, conf.tx}
        /\ t'.asyncTx <= Larger(maxRx, t'.desired)
        /\ last # None => t'.asyncDetect = CalcDetectTime(last.mult, conf.rx, last.tx)
    BY <1>1 DEF Usual
  <2>1. maxRx \in Nat /\ t.asyncTx \in Nat
    BY DEF TimersInv, TypeInv, Timers
  <2>2. t'.asyncTx <= Larger(maxRx, t'.desired)
    BY <2>1, <1>2, <1>3, <1>4 DEF TimersInv, Usual, Larger
  <2> QED BY <2>2, <1>2, <1>4 DEF TimersInv, Usual
<1>8. TxRespectsPeer'
  BY <1>1 DEF TxRespectsPeer
<1>9. RestartOnlyIfLowered'
  BY <1>2, <1>4 DEF RestartOnlyIfLowered
<1> QED BY <1>5, <1>6, <1>7, <1>8, <1>9 DEF TimersInv

\* The invariant holds throughout.
THEOREM TimersInvHolds == Spec => []TimersInv
<1>1. Init => TimersInv
  <2> SUFFICES ASSUME Init PROVE TimersInv
    OBVIOUS
  <2>1. /\ t \in Timers /\ t.desired = Slow /\ t.asyncTx = Slow /\ t.finalDetect = 0
        /\ t.restart = FALSE /\ Slow \in Nat /\ last = None /\ again = FALSE /\ maxRx = 0
    BY IntervalsAssumption DEF Init, NewTimers, Timers
  <2>2. TypeInv
    <3>1. conf \in [tx : Nat, rx : Nat]
      BY IntervalsAssumption DEF Init
    <3>2. state \in BFDStates
      BY DEF Init, BFDStates
    <3>3. last \in Packets \cup {None} /\ maxRx \in Nat
      BY <2>1
    <3>4. again \in BOOLEAN
      BY <2>1
    <3> QED BY <2>1, <3>1, <3>2, <3>3, <3>4, Zenon DEF TypeInv
  <2>3. Usual
    BY <2>1 DEF Usual, Larger
  <2> QED BY <2>1, <2>2, <2>3 DEF TimersInv, Heard, TxRespectsPeer, RestartOnlyIfLowered
<1>2. TimersInv /\ [Next]_vars => TimersInv'
  <2> SUFFICES ASSUME TimersInv, [Next]_vars PROVE TimersInv'
    OBVIOUS
  <2>1. CASE Next
    BY <2>1, RxPacketKeepsInv, ExpireKeepsInv DEF Next
  <2>2. CASE UNCHANGED vars
    BY <2>2 DEF vars, TimersInv, TypeInv, Heard, Usual, TxRespectsPeer, RestartOnlyIfLowered
  <2> QED BY <2>1, <2>2
<1> QED BY <1>1, <1>2, PTL DEF Spec

\* The detection time is right after every packet, for every configuration of
\* at most one second (setRemoteMinTxInterval, setRemoteDetectMult).
THEOREM DetectTimeRightHolds == Spec => []DetectTimeRight
<1>1. TimersInv => DetectTimeRight
  <2> SUFFICES ASSUME TimersInv, last # None, conf.tx <= Slow,
                      last.mult * Larger(conf.rx, last.tx) < Word
               PROVE  t.asyncDetect = last.mult * Larger(conf.rx, last.tx)
    BY DEF DetectTimeRight
  <2>1. last.mult \in Nat /\ conf.rx \in Nat /\ last.tx \in Nat
    BY IntervalsAssumption DEF TimersInv, TypeInv, Packets
  <2>2. t.asyncDetect = CalcDetectTime(last.mult, conf.rx, last.tx)
    BY DEF TimersInv, Usual
  <2>3. CalcDetectTime(last.mult, conf.rx, last.tx) = last.mult * Larger(conf.rx, last.tx)
    BY <2>1, DetectTime, Zenon
  <2> QED BY <2>2, <2>3, Zenon
<1> QED BY <1>1, TimersInvHolds, PTL

\* A session that is up sends as the peer asked (setRemoteMinRxInterval).
THEOREM TxRespectsPeerHolds == Spec => []TxRespectsPeer
<1>1. TimersInv => TxRespectsPeer
  BY DEF TimersInv
<1> QED BY <1>1, TimersInvHolds, PTL

\* A peer with constant intervals never makes the client reconnect
\* (restartTxPackets).
THEOREM RestartOnlyIfLoweredHolds == Spec => []RestartOnlyIfLowered
<1>1. TimersInv => RestartOnlyIfLowered
  BY DEF TimersInv
<1> QED BY <1>1, TimersInvHolds, PTL
=============================================================================

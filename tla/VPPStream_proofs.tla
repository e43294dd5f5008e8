-------------------------- MODULE VPPStream_proofs --------------------------
(***************************************************************************)
(* The shared stream, for any number of callers, calls and dumps: no last  *)
(* reply is lost, and one that came too late is never made up for.         *)
(*                                                                         *)
(* The invariant is StreamType and RepliesBalance.  What needs an argument *)
(* is how the number of last replies in a queue changes when a message is  *)
(* appended (FinalsAppend), when VPP answers a dump (FinalsDetails) and    *)
(* when RecvMsg takes the first one (FinalsTail).  Solo adds what the      *)
(* stream holds while it has one user at a time: the messages of his call. *)
(***************************************************************************)
EXTENDS VPPStream, FiniteSetTheorems, SequenceTheorems, TLAPS

StreamType ==
  /\ calls \in Nat /\ owed \in Nat
  /\ requests \in Seq(Messages) /\ replies \in Seq(Messages)
  /\ waiting \in [Callers -> Requests \cup {NoCall}]
  /\ half \subseteq Callers /\ (\A c \in half : waiting[c] # NoCall)
  /\ panicked \in BOOLEAN

StreamInv == StreamType /\ RepliesBalance

\* The places of the last replies in a queue.
At(s) == {i \in 1..Len(s) : s[i].kind \notin Dumps}

\* What one message adds to Finals.
One(m) == IF m.kind \notin Dumps THEN 1 ELSE 0

\* The last replies of a queue can be counted.
LEMMA FinalsNat ==
  ASSUME NEW s \in Seq(Messages)
  PROVE  IsFiniteSet(At(s)) /\ Finals(s) \in Nat /\ Finals(s) = Cardinality(At(s))
<1>1. IsFiniteSet(1..Len(s))
  <2>1. Len(s) \in Nat
    OBVIOUS
  <2> QED BY <2>1, FS_Interval
<1>2. At(s) \subseteq 1..Len(s)
  BY DEF At
<1>3. IsFiniteSet(At(s)) /\ Cardinality(At(s)) \in Nat
  BY <1>1, <1>2, FS_Subset, FS_CardinalityType
<1> QED BY <1>3 DEF Finals, At

\* SendMsg: a message at the end of a queue.
LEMMA FinalsAppend ==
  ASSUME NEW s \in Seq(Messages), NEW m \in Messages
  PROVE  Finals(Append(s, m)) = Finals(s) + One(m)
<1> DEFINE t == Append(s, m)
<1>1. /\ t \in Seq(Messages) /\ Len(t) = Len(s) + 1 /\ Len(s) \in Nat
      /\ t[Len(s) + 1] = m /\ \A i \in 1..Len(s) : t[i] = s[i]
  OBVIOUS
<1> HIDE DEF t
<1>2. CASE m.kind \notin Dumps
  <2>1. At(t) = At(s) \cup {Len(s) + 1} /\ Len(s) + 1 \notin At(s)
    BY <1>1, <1>2 DEF At
  <2>2. Cardinality(At(t)) = Cardinality(At(s)) + 1
    BY <2>1, FinalsNat, FS_AddElement
  <2>3. Finals(t) = Finals(s) + 1
    BY <2>2, <1>1, FinalsNat
  <2> QED BY <2>3, <1>2 DEF One, t
<1>3. CASE m.kind \in Dumps
  <2>1. At(t) = At(s)
    BY <1>1, <1>3 DEF At
  <2>2. Finals(t) = Finals(s) /\ Finals(s) \in Nat
    BY <2>1, <1>1, FinalsNat
  <2> QED BY <2>2, <1>3 DEF One, t
<1> QED BY <1>2, <1>3

\* VPP answers a dump: details end no call.
LEMMA FinalsDetails ==
  ASSUME NEW s \in Seq(Messages), NEW d \in Messages, NEW n \in Nat, d.kind \in Dumps
  PROVE  Finals(s \o [i \in 1..n |-> d]) = Finals(s)
<1> DEFINE u == [i \in 1..n |-> d]
           t == s \o u
<1>1. u \in Seq(Messages) /\ Len(u) = n /\ \A i \in 1..n : u[i] = d
  OBVIOUS
<1> HIDE DEF u
<1>2. /\ t \in Seq(Messages) /\ Len(t) = Len(s) + n /\ Len(s) \in Nat
      /\ \A i \in 1..Len(s) : t[i] = s[i]
  BY <1>1
<1>3. \A i \in (Len(s) + 1)..(Len(s) + n) : t[i] = d
  <2> TAKE i \in (Len(s) + 1)..(Len(s) + n)
  <2>1. t[i] = u[i - Len(s)] /\ i - Len(s) \in 1..n
    BY <1>1, <1>2
  <2> QED BY <2>1, <1>1
<1> HIDE DEF t
<1>4. At(t) = At(s)
  BY <1>2, <1>3 DEF At
<1>5. Finals(t) = Finals(s)
  BY <1>4, <1>2, FinalsNat
<1> QED BY <1>5 DEF t, u

\* RecvMsg: the first message leaves a queue.
LEMMA FinalsTail ==
  ASSUME NEW s \in Seq(Messages), s # <<>>
  PROVE  Finals(Tail(s)) = Finals(s) - One(Head(s))
<1> DEFINE t == Tail(s)
           A == At(s) \ {1}
           f == [i \in At(t) |-> i + 1]
<1>1. /\ t \in Seq(Messages) /\ Len(t) = Len(s) - 1 /\ Len(s) \in Nat /\ Len(s) >= 1
      /\ Head(s) = s[1] /\ \A i \in 1..Len(t) : t[i] = s[i + 1]
  OBVIOUS
<1> HIDE DEF t
<1>2. f \in Bijection(At(t), A)
  <2>1. \A i \in At(t) : i \in Nat /\ i + 1 \in A
    BY <1>1 DEF At
  <2>2. \A j \in A : j - 1 \in At(t) /\ f[j - 1] = j
    BY <1>1 DEF At
  <2>3. \A i, j \in At(t) : f[i] = f[j] => i = j
    BY <2>1
  <2>4. f \in [At(t) -> A]
    BY <2>1
  <2>5. \A j \in A : \E i \in At(t) : f[i] = j
    BY <2>2
  <2> HIDE DEF f, A
  <2> QED BY <2>3, <2>4, <2>5 DEF Bijection, Injection, Surjection, IsInjective
<1>3. ExistsBijection(At(t), A)
  BY <1>2 DEF ExistsBijection
<1>4. Cardinality(A) = Cardinality(At(t)) /\ IsFiniteSet(At(s)) /\ IsFiniteSet(At(t))
  BY <1>1, <1>3, FinalsNat, FS_Bijection
<1>5. CASE s[1].kind \notin Dumps
  <2>1. 1 \in At(s)
    BY <1>1, <1>5 DEF At
  <2>2. Cardinality(A) = Cardinality(At(s)) - 1
    BY <2>1, <1>4, FS_RemoveElement
  <2>3. Finals(t) = Finals(s) - 1
    BY <2>2, <1>1, <1>4, FinalsNat
  <2> QED BY <2>3, <1>1, <1>5 DEF One, t
<1>6. CASE s[1].kind \in Dumps
  <2>1. A = At(s)
    BY <1>1, <1>6 DEF At
  <2>2. Finals(t) = Finals(s) /\ Finals(s) \in Nat
    BY <2>1, <1>1, <1>4, FinalsNat
  <2> QED BY <2>2, <1>1, <1>6 DEF One, t
<1> QED BY <1>5, <1>6

\* The callers that wait can be counted; one more, one less.
LEMMA WaitingCount ==
  ASSUME NEW S, NEW T, S \subseteq Callers, T \subseteq Callers, NEW c
  PROVE  /\ Cardinality(S) \in Nat
         /\ c \notin S /\ T = S \cup {c} => Cardinality(T) = Cardinality(S) + 1
         /\ c \in S /\ T = S \ {c} => Cardinality(T) = Cardinality(S) - 1
<1>1. IsFiniteSet(S) /\ Cardinality(S) \in Nat
  BY CallersAssumption, FS_Subset, FS_CardinalityType
<1> QED BY <1>1, FS_AddElement, FS_RemoveElement

\* SendMsg of a request: a call with one reply has its last reply under way
\* now, a dump only with the ping.
LEMMA SendKeepsInv ==
  ASSUME StreamInv, NEW c \in Callers, NEW k \in CallsOf[c], Send(c, k)
  PROVE  StreamInv'
<1> DEFINE m == [kind |-> k, id |-> calls + 1]
<1>1. m \in Requests /\ m \in Messages /\ m # NoCall /\ m.kind = k
  BY NoCallAssumption DEF StreamInv, StreamType, Requests, Messages, Kinds
<1>2. /\ waiting[c] = NoCall /\ calls' = calls + 1
      /\ requests' = Append(requests, m)
      /\ waiting' = [waiting EXCEPT ![c] = m]
      /\ half' = IF k \in Dumps THEN half \cup {c} ELSE half
      /\ replies' = replies /\ owed' = owed /\ panicked' = panicked
  BY DEF Send
<1> HIDE DEF m
<1>3. c \notin half
  BY <1>2 DEF StreamInv, StreamType
<1>4. StreamType'
  BY <1>1, <1>2 DEF StreamInv, StreamType
<1>5. /\ Finals(requests') = Finals(requests) + One(m) /\ Finals(replies') = Finals(replies)
      /\ Finals(requests) \in Nat /\ Finals(replies) \in Nat /\ owed \in Nat /\ owed' = owed
  BY <1>1, <1>2, FinalsAppend, FinalsNat DEF StreamInv, StreamType
<1>6. Waiting \subseteq Callers /\ Waiting' \subseteq Callers
  BY DEF Waiting
<1>7. CASE k \in Dumps
  <2>1. Waiting' = Waiting
    BY <1>2, <1>3, <1>7 DEF Waiting, StreamInv, StreamType
  <2>2. One(m) = 0
    BY <1>1, <1>7 DEF One
  <2>3. RepliesBalance'
    BY <1>2, <1>5, <2>1, <2>2 DEF StreamInv, RepliesBalance
  <2> QED BY <1>4, <2>3 DEF StreamInv
<1>8. CASE k \notin Dumps
  <2>1. Waiting' = Waiting \cup {c} /\ c \notin Waiting
    BY <1>1, <1>2, <1>3, <1>8 DEF Waiting, StreamInv, StreamType
  <2>2. Cardinality(Waiting') = Cardinality(Waiting) + 1 /\ Cardinality(Waiting) \in Nat
    BY <1>6, <2>1, WaitingCount
  <2>3. One(m) = 1
    BY <1>1, <1>8 DEF One
  <2>4. ASSUME ~panicked
        PROVE  Finals(requests') + Finals(replies') = Cardinality(Waiting') + owed'
    <3>1. Finals(requests) + Finals(replies) = Cardinality(Waiting) + owed
      BY <2>4 DEF StreamInv, RepliesBalance
    <3> QED BY <3>1, <1>5, <2>2, <2>3
  <2>5. RepliesBalance'
    BY <1>2, <2>4 DEF RepliesBalance
  <2> QED BY <1>4, <2>5 DEF StreamInv
<1> QED BY <1>7, <1>8

\* SendMsg of the ping: the dump waits for its reply from now on.
LEMMA SendPingKeepsInv ==
  ASSUME StreamInv, NEW c \in Callers, SendPing(c)
  PROVE  StreamInv'
<1> DEFINE m == [kind |-> Ping, id |-> waiting[c].id]
<1>1. /\ c \in half /\ requests' = Append(requests, m) /\ half' = half \ {c}
      /\ calls' = calls /\ replies' = replies /\ waiting' = waiting
      /\ panicked' = panicked /\ owed' = owed
  BY DEF SendPing
<1>2. waiting[c] # NoCall /\ waiting[c] \in Requests
  BY <1>1 DEF StreamInv, StreamType
<1>3. m \in Messages /\ m.kind = Ping
  BY <1>2 DEF Requests, Messages
<1> HIDE DEF m
<1>4. StreamType'
  BY <1>1, <1>3 DEF StreamInv, StreamType
<1>5. /\ Finals(requests') = Finals(requests) + 1 /\ Finals(replies') = Finals(replies)
      /\ Finals(requests) \in Nat /\ Finals(replies) \in Nat /\ owed \in Nat /\ owed' = owed
  BY <1>1, <1>3, PingAssumption, FinalsAppend, FinalsNat DEF StreamInv, StreamType, One
<1>6. Waiting' = Waiting \cup {c} /\ c \notin Waiting
  BY <1>1, <1>2 DEF Waiting, StreamInv, StreamType
<1>7. Waiting \subseteq Callers /\ Waiting' \subseteq Callers
  BY DEF Waiting
<1>8. Cardinality(Waiting') = Cardinality(Waiting) + 1 /\ Cardinality(Waiting) \in Nat
  BY <1>6, <1>7, WaitingCount
<1>9. ASSUME ~panicked
      PROVE  Finals(requests') + Finals(replies') = Cardinality(Waiting') + owed'
  <2>1. Finals(requests) + Finals(replies) = Cardinality(Waiting) + owed
    BY <1>9 DEF StreamInv, RepliesBalance
  <2> QED BY <2>1, <1>5, <1>8
<1>10. RepliesBalance'
  BY <1>1, <1>9 DEF RepliesBalance
<1> QED BY <1>4, <1>10 DEF StreamInv

\* VPP turns a request into a reply, or a dump into details.
LEMMA AnswerKeepsInv ==
  ASSUME StreamInv, NEW n \in 0..MaxRows, Answer(n)
  PROVE  StreamInv'
<1> DEFINE h == Head(requests)
<1>1. /\ requests # <<>> /\ requests' = Tail(requests)
      /\ (h.kind \notin Dumps => n = 1)
      /\ replies' = replies \o [i \in 1..n |-> h]
      /\ calls' = calls /\ waiting' = waiting /\ half' = half
      /\ panicked' = panicked /\ owed' = owed
  BY DEF Answer
<1>2. /\ requests \in Seq(Messages) /\ replies \in Seq(Messages) /\ h \in Messages
      /\ Tail(requests) \in Seq(Messages) /\ n \in Nat
  BY <1>1, BoundsAssumption DEF StreamInv, StreamType
<1> HIDE DEF h
<1>3. replies' \in Seq(Messages)
  BY <1>1, <1>2
<1>4. StreamType'
  BY <1>1, <1>2, <1>3 DEF StreamInv, StreamType
<1>5. Finals(requests') = Finals(requests) - One(h)
  BY <1>1, <1>2, FinalsTail DEF h
<1>6. Finals(replies') = Finals(replies) + One(h)
  <2>1. CASE h.kind \in Dumps
    BY <2>1, <1>1, <1>2, FinalsDetails, FinalsNat DEF One
  <2>2. CASE h.kind \notin Dumps
    <3>1. replies' = Append(replies, h)
      BY <2>2, <1>1, <1>2
    <3> QED BY <3>1, <1>2, FinalsAppend
  <2> QED BY <2>1, <2>2
<1>7. Waiting' = Waiting
  BY <1>1 DEF Waiting
<1>8. Finals(requests) \in Nat /\ Finals(replies) \in Nat /\ One(h) \in Nat
  BY <1>2, FinalsNat DEF One
<1>9. RepliesBalance'
  BY <1>1, <1>5, <1>6, <1>7, <1>8 DEF StreamInv, RepliesBalance
<1> QED BY <1>4, <1>9 DEF StreamInv

\* RecvMsg takes one message: a detail of the caller's own dump, the last
\* reply of some call, or a detail of another dump, which leaves the last
\* reply of this call owed.
LEMMA RecvKeepsInv ==
  ASSUME StreamInv, NEW c \in Callers, Recv(c)
  PROVE  StreamInv'
<1> DEFINE m == Head(replies)
           w == waiting[c]
<1>1. /\ ~panicked /\ w # NoCall /\ c \notin half /\ replies # <<>>
      /\ replies' = Tail(replies)
      /\ waiting' = IF Ends(w, m) THEN [waiting EXCEPT ![c] = NoCall] ELSE waiting
      /\ owed' = IF m.kind \in Dumps \ {w.kind} THEN owed + 1 ELSE owed
      /\ calls' = calls /\ requests' = requests /\ half' = half
  BY DEF Recv
<1>2. panicked' \in BOOLEAN /\ (panicked' = (w.kind \notin Dumps /\ m.kind # w.kind))
  BY Zenon DEF Recv
<1>3. replies \in Seq(Messages) /\ Tail(replies) \in Seq(Messages) /\ w \in Requests
  BY <1>1 DEF StreamInv, StreamType
<1>4. Finals(replies') = Finals(replies) - One(m)
  BY <1>1, <1>3, FinalsTail
<1> HIDE DEF m, w
<1>5. StreamType'
  BY <1>1, <1>2, <1>3 DEF StreamInv, StreamType
<1>6. Finals(requests) \in Nat /\ Finals(replies) \in Nat /\ owed \in Nat /\ requests' = requests
  BY <1>1, FinalsNat DEF StreamInv, StreamType
<1>7. Finals(requests) + Finals(replies) = Cardinality(Waiting) + owed
  BY <1>1 DEF StreamInv, RepliesBalance
<1>8. Waiting \subseteq Callers /\ Waiting' \subseteq Callers /\ c \in Waiting
  BY <1>1 DEF Waiting, w
<1>9. SUFFICES ASSUME ~panicked'
               PROVE  Finals(requests') + Finals(replies') = Cardinality(Waiting') + owed'
  BY <1>5 DEF StreamInv, RepliesBalance
<1>10. CASE Ends(w, m)
  <2>1. Waiting' = Waiting \ {c}
    BY <1>1, <1>10 DEF Waiting, StreamInv, StreamType, w
  <2>2. Cardinality(Waiting') = Cardinality(Waiting) - 1 /\ Cardinality(Waiting) \in Nat
    BY <1>8, <2>1, WaitingCount
  <2>3. CASE m.kind \in Dumps
    <3>1. m.kind # w.kind
      BY <1>2, <1>9, <1>10, <2>3 DEF Ends
    <3>2. One(m) = 0 /\ owed' = owed + 1
      BY <1>1, <2>3, <3>1 DEF One
    <3> QED BY <3>2, <2>2, <1>4, <1>6, <1>7
  <2>4. CASE m.kind \notin Dumps
    <3>1. One(m) = 1 /\ owed' = owed
      BY <1>1, <2>4 DEF One
    <3> QED BY <3>1, <2>2, <1>4, <1>6, <1>7
  <2> QED BY <2>3, <2>4
<1>11. CASE ~Ends(w, m)
  <2>1. m.kind = w.kind /\ m.kind \in Dumps
    BY <1>11 DEF Ends
  <2>2. One(m) = 0 /\ owed' = owed
    BY <1>1, <2>1 DEF One
  <2>3. Waiting' = Waiting
    BY <1>1, <1>11 DEF Waiting
  <2> QED BY <2>2, <2>3, <1>4, <1>6, <1>7
<1> QED BY <1>10, <1>11

\* A timeout ends a call and leaves its last reply under way.
LEMMA TimeoutKeepsInv ==
  ASSUME StreamInv, NEW c \in Callers, Timeout(c)
  PROVE  StreamInv'
<1>1. /\ waiting[c] # NoCall /\ c \notin half /\ waiting' = [waiting EXCEPT ![c] = NoCall]
      /\ owed' = owed + 1 /\ half' = half
      /\ calls' = calls /\ requests' = requests /\ replies' = replies /\ panicked' = panicked
  BY DEF Timeout
<1>2. StreamType'
  BY <1>1 DEF StreamInv, StreamType
<1>3. Waiting' = Waiting \ {c} /\ c \in Waiting
  BY <1>1 DEF Waiting, StreamInv, StreamType
<1>4. Waiting \subseteq Callers /\ Waiting' \subseteq Callers
  BY DEF Waiting
<1>5. Cardinality(Waiting') = Cardinality(Waiting) - 1 /\ Cardinality(Waiting) \in Nat
  BY <1>3, <1>4, WaitingCount
<1>6. RepliesBalance'
  BY <1>1, <1>5 DEF StreamInv, StreamType, RepliesBalance
<1> QED BY <1>2, <1>6 DEF StreamInv

\* The invariant of the stream.
LEMMA StreamInvHolds == Spec => []StreamInv
<1>1. Init => StreamInv
  <2> SUFFICES ASSUME Init PROVE StreamInv
    OBVIOUS
  <2>1. StreamType
    <3>1. <<>> \in Seq(Messages)
      OBVIOUS
    <3>2. waiting \in [Callers -> Requests \cup {NoCall}]
      BY DEF Init
    <3> QED BY <3>1, <3>2 DEF Init, StreamType
  <2>2. Waiting = {} /\ owed = 0 /\ requests = <<>> /\ replies = <<>>
    BY DEF Init, Waiting
  <2>3. Finals(<<>>) = 0
    <3>1. {i \in 1..Len(<<>>) : <<>>[i].kind \notin Dumps} = {}
      OBVIOUS
    <3> QED BY <3>1, FS_EmptySet DEF Finals
  <2>4. RepliesBalance
    BY <2>2, <2>3, FS_EmptySet DEF RepliesBalance
  <2> QED BY <2>1, <2>4 DEF StreamInv
<1>2. StreamInv /\ [Next]_vars => StreamInv'
  <2> SUFFICES ASSUME StreamInv, [Next]_vars PROVE StreamInv'
    OBVIOUS
  <2>1. CASE Next
    BY <2>1, SendKeepsInv, SendPingKeepsInv, AnswerKeepsInv, RecvKeepsInv, TimeoutKeepsInv DEF Next
  <2>2. CASE UNCHANGED vars
    BY <2>2 DEF vars, StreamInv, StreamType, RepliesBalance, Waiting, Finals
  <2> QED BY <2>1, <2>2
<1> QED BY <1>1, <1>2, PTL DEF Spec

\* Last replies under way are as many as the calls that wait for one and the
\* calls that returned without it, for any number of callers on the stream.
THEOREM RepliesBalanceHolds == Spec => []RepliesBalance
<1>1. StreamInv => RepliesBalance
  BY DEF StreamInv
<1> QED BY <1>1, StreamInvHolds, PTL

-----------------------------------------------------------------------------
(* One goroutine at a time.                                                *)

\* The last reply of a dump.
PingOf(w) == [kind |-> Ping, id |-> w.id]

Details(R, w) == \A i \in 1..Len(R) : R[i] = w

\* The stream, from requests Q and replies R, of a caller in call w that no
\* other call disturbs; H is empty once the ping of a dump has been sent.
OwnOnly(Q, R, w, H) ==
  IF w.kind \notin Dumps
  THEN H = {} /\ ((Q = <<w>> /\ R = <<>>) \/ (Q = <<>> /\ R = <<w>>))
  ELSE IF H # {} THEN Q \in {<<w>>, <<>>} /\ Details(R, w)
  ELSE \/ Q \in {<<w, PingOf(w)>>, <<PingOf(w)>>} /\ Details(R, w)
       \/ /\ Q = <<>> /\ Len(R) >= 1 /\ R[Len(R)] = PingOf(w)
          /\ \A i \in 1..(Len(R) - 1) : R[i] = w

Idle == requests = <<>> /\ replies = <<>> /\ half = {} /\ \A c \in Callers : waiting[c] = NoCall

Alone(c) ==
  /\ waiting[c] # NoCall /\ half \subseteq {c}
  /\ \A d \in Callers \ {c} : waiting[d] = NoCall
  /\ OwnOnly(requests, replies, waiting[c], half)

\* As long as no call began during another one and every call has had its
\* last reply, the stream holds nothing but the messages of the present call.
Solo ==
  ~shared /\ owed = 0 => ~mixed /\ ~panicked /\ (Idle \/ \E c \in Callers : Alone(c))

\* VPP answers.
LEMMA OwnAnswer ==
  ASSUME NEW Q \in Seq(Messages), NEW R \in Seq(Messages), NEW w \in Requests, NEW H,
         OwnOnly(Q, R, w, H), Q # <<>>, NEW n \in Nat, Head(Q).kind \notin Dumps => n = 1
  PROVE  OwnOnly(Tail(Q), R \o [i \in 1..n |-> Head(Q)], w, H)
<1> DEFINE D(m) == [i \in 1..n |-> m]
<1>1. w \in Messages /\ PingOf(w) \in Messages /\ PingOf(w).kind \notin Dumps
  BY PingAssumption DEF Requests, Messages, PingOf
<1>2. ASSUME NEW m \in Messages
      PROVE  /\ R \o D(m) \in Seq(Messages) /\ Len(R \o D(m)) = Len(R) + n /\ Len(R) \in Nat
             /\ \A i \in 1..Len(R) : (R \o D(m))[i] = R[i]
             /\ \A i \in (Len(R) + 1)..(Len(R) + n) : (R \o D(m))[i] = m
  <2>1. D(m) \in Seq(Messages) /\ Len(D(m)) = n /\ \A i \in 1..n : D(m)[i] = m
    OBVIOUS
  <2> HIDE DEF D
  <2>2. /\ R \o D(m) \in Seq(Messages) /\ Len(R \o D(m)) = Len(R) + n /\ Len(R) \in Nat
        /\ \A i \in 1..Len(R) : (R \o D(m))[i] = R[i]
    BY <2>1
  <2>3. ASSUME NEW i \in (Len(R) + 1)..(Len(R) + n) PROVE (R \o D(m))[i] = m
    <3>1. (R \o D(m))[i] = D(m)[i - Len(R)] /\ i - Len(R) \in 1..n
      BY <2>1, <2>2
    <3> QED BY <2>1, <3>1
  <2> QED BY <2>2, <2>3
<1>3. ASSUME Details(R, w) PROVE Details(R \o D(w), w)
  <2>1. \A i \in 1..(Len(R) + n) : i \in 1..Len(R) \/ i \in (Len(R) + 1)..(Len(R) + n)
    BY <1>1, <1>2
  <2> QED BY <1>1, <1>2, <1>3, <2>1 DEF Details
<1>4. CASE w.kind \notin Dumps
  <2>1. Q = <<w>> /\ R = <<>> /\ H = {}
    BY <1>4 DEF OwnOnly
  <2>2. Head(Q) = w /\ Tail(Q) = <<>> /\ n = 1
    BY <1>4, <2>1
  <2>3. R \o D(w) = <<w>>
    BY <1>1, <2>1, <2>2
  <2> QED BY <1>4, <2>1, <2>2, <2>3 DEF OwnOnly
<1>5. CASE w.kind \in Dumps /\ H # {}
  <2>1. Q = <<w>> /\ Details(R, w)
    BY <1>5 DEF OwnOnly
  <2>2. Head(Q) = w /\ Tail(Q) = <<>>
    BY <2>1
  <2> QED BY <1>3, <1>5, <2>1, <2>2 DEF OwnOnly
<1>6. CASE w.kind \in Dumps /\ H = {} /\ Q = <<w, PingOf(w)>> /\ Details(R, w)
  <2>1. Head(Q) = w /\ Tail(Q) = <<PingOf(w)>>
    BY <1>6
  <2> QED BY <1>3, <1>6, <2>1 DEF OwnOnly
<1>7. CASE w.kind \in Dumps /\ H = {} /\ Q = <<PingOf(w)>> /\ Details(R, w)
  <2> DEFINE P == R \o D(PingOf(w))
  <2>1. Head(Q) = PingOf(w) /\ Tail(Q) = <<>> /\ n = 1
    BY <1>1, <1>7
  <2>2. Len(P) = Len(R) + 1 /\ Len(R) \in Nat /\ P[Len(P)] = PingOf(w)
        /\ \A i \in 1..Len(R) : P[i] = R[i]
    BY <1>1, <1>2, <2>1
  <2> HIDE DEF P
  <2>3. Len(P) >= 1 /\ \A i \in 1..(Len(P) - 1) : P[i] = w
    BY <1>7, <2>2 DEF Details
  <2>4. OwnOnly(<<>>, P, w, H)
    BY <1>7, <2>2, <2>3 DEF OwnOnly
  <2> QED BY <2>1, <2>4 DEF P
<1> QED BY <1>4, <1>5, <1>6, <1>7 DEF OwnOnly

\* The caller receives: a message of its own call, of the type it asserts;
\* the last one leaves nothing behind.
LEMMA OwnRecv ==
  ASSUME NEW Q \in Seq(Messages), NEW R \in Seq(Messages), NEW w \in Requests,
         OwnOnly(Q, R, w, {}), R # <<>>
  PROVE  /\ Head(R).id = w.id
         /\ w.kind \notin Dumps => Head(R).kind = w.kind
         /\ Head(R).kind \notin Dumps \ {w.kind}
         /\ Ends(w, Head(R)) => Q = <<>> /\ Tail(R) = <<>>
         /\ ~Ends(w, Head(R)) => OwnOnly(Q, Tail(R), w, {})
<1>1. PingOf(w).id = w.id /\ PingOf(w).kind = Ping /\ Ping \notin Dumps
  BY PingAssumption DEF PingOf
<1>2. /\ Len(R) \in Nat \ {0} /\ Head(R) = R[1] /\ Len(Tail(R)) = Len(R) - 1
      /\ \A i \in 1..(Len(R) - 1) : Tail(R)[i] = R[i + 1]
  OBVIOUS
<1>3. CASE w.kind \notin Dumps
  <2>1. Q = <<>> /\ R = <<w>>
    BY <1>3 DEF OwnOnly
  <2>2. Head(R) = w /\ Tail(R) = <<>>
    BY <2>1
  <2> QED BY <1>3, <2>1, <2>2 DEF Ends
<1>4. CASE w.kind \in Dumps /\ Q \in {<<w, PingOf(w)>>, <<PingOf(w)>>} /\ Details(R, w)
  <2>1. Head(R) = w /\ ~Ends(w, Head(R))
    BY <1>2, <1>4 DEF Details, Ends
  <2>2. Details(Tail(R), w)
    <3>1. \A i \in 1..(Len(R) - 1) : i + 1 \in 1..Len(R)
      BY <1>2
    <3> QED BY <1>2, <1>4, <3>1 DEF Details
  <2> QED BY <1>4, <2>1, <2>2 DEF OwnOnly
<1>5. CASE /\ w.kind \in Dumps /\ Q = <<>> /\ Len(R) >= 1 /\ R[Len(R)] = PingOf(w)
           /\ \A i \in 1..(Len(R) - 1) : R[i] = w
  <2>1. CASE Len(R) = 1
    <3>1. Len(Tail(R)) = 0 /\ Tail(R) \in Seq(Messages) /\ Head(R) = PingOf(w)
      BY <1>2, <1>5, <2>1
    <3>2. Tail(R) = <<>>
      BY <3>1, EmptySeq
    <3> QED BY <1>1, <1>5, <3>1, <3>2 DEF Ends
  <2>2. CASE Len(R) > 1
    <3>1. Head(R) = w /\ ~Ends(w, Head(R))
      BY <1>2, <1>5, <2>2 DEF Ends
    <3>2. Len(Tail(R)) >= 1 /\ Tail(R)[Len(Tail(R))] = PingOf(w)
      BY <1>2, <1>5, <2>2
    <3>3. \A i \in 1..(Len(Tail(R)) - 1) : Tail(R)[i] = w
      <4> SUFFICES ASSUME NEW i \in 1..(Len(Tail(R)) - 1) PROVE Tail(R)[i] = w
        OBVIOUS
      <4>1. i \in 1..(Len(R) - 1) /\ i + 1 \in 1..(Len(R) - 1)
        BY <1>2
      <4>2. Tail(R)[i] = R[i + 1] /\ R[i + 1] = w
        BY <1>2, <1>5, <4>1
      <4> QED BY <4>2
    <3> QED BY <1>5, <3>1, <3>2, <3>3 DEF OwnOnly
  <2>3. Len(R) = 1 \/ Len(R) > 1
    BY <1>2
  <2> QED BY <2>1, <2>2, <2>3
<1> QED BY <1>3, <1>4, <1>5 DEF OwnOnly

SoloInv == StreamInv /\ Solo

\* A call begins: alone, or on a stream that is shared from now on.
LEMMA SendKeepsSolo ==
  ASSUME SoloInv, NEW c \in Callers, NEW k \in CallsOf[c], Send(c, k)
  PROVE  Solo'
<1> DEFINE m == [kind |-> k, id |-> calls + 1]
<1> SUFFICES ASSUME ~shared', owed' = 0
             PROVE  ~mixed' /\ ~panicked' /\ Alone(c)'
  BY DEF Solo
<1>1. /\ waiting \in [Callers -> Requests \cup {NoCall}]
      /\ waiting[c] = NoCall /\ requests' = Append(requests, m)
      /\ waiting' = [waiting EXCEPT ![c] = m] /\ replies' = replies
      /\ half' = IF k \in Dumps THEN half \cup {c} ELSE half
      /\ owed' = owed /\ panicked' = panicked /\ mixed' = mixed
  BY DEF Send, SoloInv, StreamInv, StreamType
<1>2. ~shared /\ \A d \in Callers : waiting[d] = NoCall
  BY DEF Send
<1>3. ~mixed /\ ~panicked /\ Idle
  BY <1>1, <1>2 DEF SoloInv, Solo, Alone
<1>4. m # NoCall /\ m.kind = k /\ m \in Requests
  BY NoCallAssumption DEF SoloInv, StreamInv, StreamType, Requests, Kinds
<1> HIDE DEF m
<1>5. requests' = <<m>> /\ replies' = <<>>
  BY <1>1, <1>3 DEF Idle
<1>6. waiting'[c] = m /\ \A d \in Callers \ {c} : waiting'[d] = NoCall
  BY <1>1, <1>2
<1>7. half' = IF k \in Dumps THEN {c} ELSE {}
  BY <1>1, <1>3 DEF Idle
<1>8. Details(<<>>, m)
  BY DEF Details
<1>9. OwnOnly(<<m>>, <<>>, m, half')
  BY <1>4, <1>7, <1>8 DEF OwnOnly
<1>10. half' \subseteq {c}
  BY <1>7
<1>11. Alone(c)'
  BY <1>4, <1>5, <1>6, <1>9, <1>10 DEF Alone
<1> QED BY <1>1, <1>3, <1>11

\* The ping of a dump.
LEMMA PingKeepsSolo ==
  ASSUME SoloInv, NEW c \in Callers, SendPing(c)
  PROVE  Solo'
<1> SUFFICES ASSUME ~shared', owed' = 0
             PROVE  ~mixed' /\ ~panicked' /\ Alone(c)'
  BY DEF Solo
<1>1. /\ c \in half /\ requests' = Append(requests, PingOf(waiting[c])) /\ half' = half \ {c}
      /\ replies' = replies /\ waiting' = waiting /\ requests \in Seq(Messages)
      /\ owed' = owed /\ panicked' = panicked /\ mixed' = mixed /\ shared' = shared
  BY DEF SendPing, SoloInv, StreamInv, StreamType, PingOf
<1>2. waiting[c] # NoCall
  BY <1>1 DEF SoloInv, StreamInv, StreamType
<1>3. ~mixed /\ ~panicked /\ Alone(c)
  BY <1>1, <1>2 DEF SoloInv, Solo, Alone, Idle
<1> DEFINE w == waiting[c]
<1>4. /\ half' = {} /\ half # {} /\ OwnOnly(requests, replies, w, half)
      /\ \A d \in Callers \ {c} : waiting[d] = NoCall
  BY <1>1, <1>3 DEF Alone
<1> HIDE DEF w
<1>5. w.kind \in Dumps /\ requests \in {<<w>>, <<>>} /\ Details(replies, w)
  BY <1>4 DEF OwnOnly
<1>6. Append(requests, PingOf(w)) \in {<<w, PingOf(w)>>, <<PingOf(w)>>}
  <2>1. ASSUME NEW a, NEW b PROVE Append(<<a>>, b) = <<a, b>>
    <3> DEFINE A == Append(<<a>>, b)
               B == <<a, b>>
    <3>1. <<a>> \in Seq({a, b}) /\ B \in Seq({a, b}) /\ Len(<<a>>) = 1 /\ <<a>>[1] = a
      OBVIOUS
    <3>2. A \in Seq({a, b}) /\ Len(A) = 2 /\ A[1] = a /\ A[2] = b
      BY <3>1
    <3>3. Len(B) = 2 /\ B[1] = a /\ B[2] = b
      OBVIOUS
    <3> HIDE DEF A, B
    <3>4. A = B
      BY <3>1, <3>2, <3>3, SeqEqual
    <3> QED BY <3>4 DEF A, B
  <2>2. Append(<<>>, PingOf(w)) = <<PingOf(w)>>
    OBVIOUS
  <2> QED BY <1>5, <2>1, <2>2
<1>7. OwnOnly(Append(requests, PingOf(w)), replies, w, {})
  BY <1>5, <1>6 DEF OwnOnly
<1>8. Alone(c)'
  BY <1>1, <1>2, <1>4, <1>7 DEF Alone, w
<1> QED BY <1>1, <1>3, <1>8

\* VPP answers the one caller there is.
LEMMA AnswerKeepsSolo ==
  ASSUME SoloInv, NEW n \in 0..MaxRows, Answer(n)
  PROVE  Solo'
<1> SUFFICES ASSUME ~shared', owed' = 0
             PROVE  ~mixed' /\ ~panicked' /\ \E c \in Callers : Alone(c)'
  BY DEF Solo
<1>1. /\ requests # <<>> /\ requests' = Tail(requests)
      /\ (Head(requests).kind \notin Dumps => n = 1)
      /\ replies' = replies \o [i \in 1..n |-> Head(requests)]
      /\ waiting' = waiting /\ half' = half
      /\ owed' = owed /\ panicked' = panicked /\ mixed' = mixed /\ shared' = shared
      /\ requests \in Seq(Messages) /\ replies \in Seq(Messages)
      /\ waiting \in [Callers -> Requests \cup {NoCall}]
  BY DEF Answer, SoloInv, StreamInv, StreamType
<1>2. ~mixed /\ ~panicked /\ ~Idle
  BY <1>1 DEF SoloInv, Solo, Idle
<1>3. PICK c \in Callers : Alone(c)
  BY <1>1, <1>2 DEF SoloInv, Solo
<1>4. PICK w \in Requests : w = waiting[c]
  BY <1>1, <1>3 DEF Alone
<1>5. OwnOnly(requests, replies, w, half) /\ n \in Nat
  BY <1>3, <1>4, BoundsAssumption DEF Alone
<1>6. OwnOnly(requests', replies', w, half)
  BY <1>1, <1>5, OwnAnswer
<1>7. Alone(c)'
  BY <1>1, <1>3, <1>4, <1>6 DEF Alone
<1> QED BY <1>1, <1>2, <1>7

\* The caller receives what is its own.
LEMMA RecvKeepsSolo ==
  ASSUME SoloInv, NEW c \in Callers, Recv(c)
  PROVE  Solo'
<1> DEFINE m == Head(replies)
<1> SUFFICES ASSUME ~shared', owed' = 0
             PROVE  ~mixed' /\ ~panicked' /\ (Idle' \/ Alone(c)')
  BY DEF Solo
<1>1. /\ waiting \in [Callers -> Requests \cup {NoCall}] /\ owed \in Nat
      /\ requests \in Seq(Messages) /\ replies \in Seq(Messages)
  BY DEF SoloInv, StreamInv, StreamType
<1>2. PICK w \in Requests : w = waiting[c]
  BY <1>1 DEF Recv
<1>3. /\ ~panicked /\ w # NoCall /\ c \notin half /\ replies # <<>>
      /\ replies' = Tail(replies)
      /\ waiting' = IF Ends(w, m) THEN [waiting EXCEPT ![c] = NoCall] ELSE waiting
      /\ owed' = IF m.kind \in Dumps \ {w.kind} THEN owed + 1 ELSE owed
      /\ requests' = requests /\ half' = half /\ shared' = shared
  BY <1>2 DEF Recv
<1>4. /\ panicked' <=> w.kind \notin Dumps /\ m.kind # w.kind
      /\ mixed' <=> mixed \/ m.id # w.id
  BY <1>2, Zenon DEF Recv
<1>5. owed = 0
  BY <1>1, <1>3
<1>6. ~mixed /\ Alone(c)
  BY <1>2, <1>3, <1>5 DEF SoloInv, Solo, Idle, Alone
<1>7. half = {} /\ OwnOnly(requests, replies, w, {})
      /\ \A d \in Callers \ {c} : waiting[d] = NoCall
  BY <1>2, <1>3, <1>6 DEF Alone
<1>8. /\ m.id = w.id
      /\ w.kind \notin Dumps => m.kind = w.kind
      /\ Ends(w, m) => requests = <<>> /\ Tail(replies) = <<>>
      /\ ~Ends(w, m) => OwnOnly(requests, Tail(replies), w, {})
  BY <1>1, <1>3, <1>7, OwnRecv
<1> HIDE DEF m
<1>9. ~mixed' /\ ~panicked'
  BY <1>4, <1>6, <1>8
<1>10. CASE Ends(w, m)
  <2>1. Idle'
    BY <1>1, <1>3, <1>7, <1>8, <1>10 DEF Idle
  <2> QED BY <1>9, <2>1
<1>11. CASE ~Ends(w, m)
  <2>1. Alone(c)'
    BY <1>2, <1>3, <1>7, <1>8, <1>11 DEF Alone
  <2> QED BY <1>9, <2>1
<1> QED BY <1>10, <1>11

\* Used by one goroutine at a time and without a timeout the stream gives
\* every call its own replies: the sends and receives of the calls and dumps
\* fit together, and no type assertion fails.
THEOREM OnlySharingMixesHolds == Spec => []OnlySharingMixes
<1>1. Init => Solo
  BY DEF Init, Solo, Idle
<1>2. SoloInv /\ [Next]_vars => Solo'
  <2> SUFFICES ASSUME SoloInv, [Next]_vars PROVE Solo'
    OBVIOUS
  <2>1. ASSUME NEW c \in Callers, Timeout(c) PROVE Solo'
    <3>1. owed' = owed + 1 /\ owed \in Nat
      BY <2>1 DEF Timeout, SoloInv, StreamInv, StreamType
    <3> QED BY <3>1 DEF Solo
  <2>2. CASE UNCHANGED vars
    BY <2>2 DEF vars, SoloInv, Solo, Idle, Alone
  <2> QED BY <2>1, <2>2, SendKeepsSolo, PingKeepsSolo, AnswerKeepsSolo, RecvKeepsSolo DEF Next
<1>3. StreamInv /\ Solo => OnlySharingMixes
  <2>1. StreamInv => owed \in Nat
    BY DEF StreamInv, StreamType
  <2>2. owed \in Nat /\ owed # 0 => owed > 0
    OBVIOUS
  <2> QED BY <2>1, <2>2 DEF Solo, OnlySharingMixes
<1> QED BY <1>1, <1>2, <1>3, StreamInvHolds, PTL DEF Spec, SoloInv
=============================================================================

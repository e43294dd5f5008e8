---------------------------- MODULE PhyNet_proofs ----------------------------
(***************************************************************************)
(* The handler of the physical network for any routers, prefixes and       *)
(* refusals of VPP, any number of changes, crashes and panics: with an     *)
(* empty queue GoBGP's VPNv4 table has what the routers announce, VPP has  *)
(* the routes, and of earlier processes no more than what their successors *)
(* do not dump.                                                            *)
(*                                                                         *)
(* InSync speaks of the empty queue only.  The invariant says of every     *)
(* entry what the queue is going to make of it: its last queued update     *)
(* says what GoBGP knows, and if there is none the VPNv4 prefix and the    *)
(* route are already there.                                                *)
(***************************************************************************)
EXTENDS PhyNet, SequenceTheorems, TLAPS

\* No two VRFs share their router: ParseVPNv4UpdateFromPHYNET takes the
\* first VRF it meets with the address of the router.
OneVRFPerRouter == \A v, w \in VRFs : NextHop[v] = NextHop[w] => v = w

\* The update is about the entry.
About(u, e) == u.router = NextHop[e.vrf] /\ u.prefix = e.prefix

\* The routers, as GoBGP knows them, announce the entry.
Told(B, e) == NextHop[e.vrf] \in Routers /\ e.prefix \in B[NextHop[e.vrf]]

\* The last update of Q about the entry says whether it is announced.
Pending(Q, e, told) ==
  \E j \in 1..Len(Q) :
    /\ About(Q[j], e) /\ Q[j].withdraw = ~told
    /\ \A k \in (j + 1)..Len(Q) : ~About(Q[k], e)

\* The entry is in the VPNv4 table and routed by VPP, or neither, but for a
\* refusal.
Settled(A, R, F, e, told) ==
  /\ e \in A <=> told
  /\ e \notin F => (e \in R <=> told)

Due(Q, A, R, F, e, told) ==
  \/ Pending(Q, e, told)
  \/ (\A k \in 1..Len(Q) : ~About(Q[k], e)) /\ Settled(A, R, F, e, told)

\* What is left of earlier processes was not in a dump, or in too long a one.
OldInv == wrapped \/ \A e \in old : e.prefix \in HostPrefixes

PhyInv ==
  /\ TypeOK /\ OldInv
  /\ ~up => post = Nothing /\ queue = <<>> /\ adv = {}
  /\ up => \A e \in Entries : Due(queue, adv, routes, refused, e, Told(post, e))

-----------------------------------------------------------------------------
(* The queue.                                                              *)

\* A longer queue: the new update is the last one about its entry.
LEMMA AppendDue ==
  ASSUME NEW X, NEW Q \in Seq(X), NEW u \in X, NEW A, NEW R, NEW F, NEW e,
         NEW told \in BOOLEAN, NEW now \in BOOLEAN,
         Due(Q, A, R, F, e, told),
         About(u, e) => u.withdraw = ~now,
         ~About(u, e) => now = told
  PROVE  Due(Append(Q, u), A, R, F, e, now)
<1> DEFINE P == Append(Q, u)
           n == Len(Q)
<1>1. n \in Nat /\ Len(P) = n + 1 /\ P[n + 1] = u /\ \A k \in 1..n : P[k] = Q[k]
  BY AppendProperties, LenProperties
<1> HIDE DEF P, n
<1>2. \A k \in 1..(n + 1) : k \in 1..n \/ k = n + 1
  BY <1>1
<1>3. CASE About(u, e)
  <2>1. n + 1 \in 1..Len(P) /\ \A k \in ((n + 1) + 1)..Len(P) : FALSE
    BY <1>1
  <2>2. Pending(P, e, now)
    BY <1>1, <1>3, <2>1 DEF Pending
  <2> QED BY <2>2 DEF Due, P
<1>4. CASE ~About(u, e) /\ Pending(Q, e, told)
  <2>1. PICK j \in 1..n : About(Q[j], e) /\ Q[j].withdraw = ~told
                          /\ \A k \in (j + 1)..n : ~About(Q[k], e)
    BY <1>4 DEF Pending, n
  <2>2. ASSUME NEW k \in (j + 1)..(n + 1) PROVE ~About(P[k], e)
    <3>1. k = n + 1 \/ (k \in 1..n /\ k \in (j + 1)..n)
      BY <1>1
    <3> QED BY <1>1, <1>4, <2>1, <3>1
  <2>3. j \in 1..Len(P) /\ P[j] = Q[j]
    BY <1>1
  <2>4. Pending(P, e, now)
    BY <1>1, <1>4, <2>1, <2>2, <2>3 DEF Pending
  <2> QED BY <2>4 DEF Due, P
<1>5. CASE ~About(u, e) /\ (\A k \in 1..n : ~About(Q[k], e)) /\ Settled(A, R, F, e, told)
  <2>1. \A k \in 1..Len(P) : ~About(P[k], e)
    BY <1>1, <1>2, <1>5
  <2> QED BY <1>5, <2>1 DEF Due, P
<1> QED BY <1>3, <1>4, <1>5 DEF Due, n

\* The head of the queue has been handled: its entry is settled as it says,
\* the others are left alone.
LEMMA TailDue ==
  ASSUME NEW X, NEW Q \in Seq(X), Q # <<>>, NEW A, NEW R, NEW F, NEW A1, NEW R1, NEW F1,
         NEW e, NEW told \in BOOLEAN,
         Due(Q, A, R, F, e, told),
         About(Head(Q), e) => \A t \in BOOLEAN : Head(Q).withdraw = ~t => Settled(A1, R1, F1, e, t),
         ~About(Head(Q), e) /\ Settled(A, R, F, e, told) => Settled(A1, R1, F1, e, told)
  PROVE  Due(Tail(Q), A1, R1, F1, e, told)
<1> DEFINE P == Tail(Q)
           n == Len(Q)
<1>1. /\ n \in Nat \ {0} /\ Len(P) = n - 1 /\ Head(Q) = Q[1]
      /\ \A k \in 1..(n - 1) : P[k] = Q[k + 1]
  BY HeadTailProperties, EmptySeq, LenProperties
<1> HIDE DEF P, n
<1>2. CASE Pending(Q, e, told)
  <2>1. PICK j \in 1..n : About(Q[j], e) /\ Q[j].withdraw = ~told
                          /\ \A k \in (j + 1)..n : ~About(Q[k], e)
    BY <1>2 DEF Pending, n
  <2>2. ASSUME NEW k \in j..(n - 1) PROVE ~About(P[k], e)
    <3>1. k \in 1..(n - 1) /\ k + 1 \in (j + 1)..n
      BY <1>1
    <3> QED BY <1>1, <2>1, <3>1
  <2>3. CASE j = 1
    <3>1. Settled(A1, R1, F1, e, told)
      BY <1>1, <2>1, <2>3
    <3>2. \A k \in 1..Len(P) : ~About(P[k], e)
      BY <1>1, <2>2, <2>3
    <3> QED BY <3>1, <3>2 DEF Due, P
  <2>4. CASE j # 1
    <3>1. j - 1 \in 1..Len(P) /\ P[j - 1] = Q[j] /\ (j - 1) + 1 = j
      BY <1>1, <2>4
    <3>2. \A k \in ((j - 1) + 1)..Len(P) : ~About(P[k], e)
      BY <1>1, <2>2, <3>1
    <3>3. Pending(P, e, told)
      BY <2>1, <3>1, <3>2 DEF Pending
    <3> QED BY <3>3 DEF Due, P
  <2> QED BY <2>3, <2>4
<1>3. CASE (\A k \in 1..n : ~About(Q[k], e)) /\ Settled(A, R, F, e, told)
  <2>1. \A k \in 1..Len(P) : k + 1 \in 1..n /\ P[k] = Q[k + 1]
    BY <1>1
  <2>2. 1 \in 1..n
    BY <1>1
  <2>3. \A k \in 1..Len(P) : ~About(P[k], e)
    BY <1>3, <2>1
  <2>4. Settled(A1, R1, F1, e, told)
    BY <1>1, <1>3, <2>2
  <2> QED BY <2>3, <2>4 DEF Due, P
<1> QED BY <1>2, <1>3 DEF Due, n

-----------------------------------------------------------------------------
(* The actions.                                                            *)

\* GoBGP tells of a change.
LEMMA AnnounceKeeps ==
  ASSUME PhyInv, NEW r \in Routers, NEW p \in Prefixes, Announce(r, p)
  PROVE  PhyInv'
<1> DEFINE u == [router |-> r, prefix |-> p, withdraw |-> p \notin net[r]]
<1>1. /\ u \in Updates /\ u.router = r /\ u.prefix = p /\ u.withdraw = (p \notin net[r])
  BY DEF Updates
<1>2. /\ queue' = Append(queue, u) /\ queue \in Seq(Updates) /\ up /\ up'
      /\ post \in [Routers -> SUBSET Prefixes]
      /\ post' = [post EXCEPT ![r] = IF p \in net[r] THEN @ \cup {p} ELSE @ \ {p}]
      /\ UNCHANGED <<net, routes, old, adv, up, refused, wrapped, changes, crashes>>
  BY DEF Announce, PhyInv, TypeOK
<1> HIDE DEF u
<1>3. post' \in [Routers -> SUBSET Prefixes] /\ queue' \in Seq(Updates)
  BY <1>1, <1>2, AppendProperties
<1>4. TypeOK' /\ OldInv'
  BY <1>2, <1>3 DEF PhyInv, TypeOK, OldInv
<1>5. ASSUME NEW e \in Entries
      PROVE  Due(Append(queue, u), adv, routes, refused, e, Told(post', e))
  <2>1. Due(queue, adv, routes, refused, e, Told(post, e))
    BY <1>2 DEF PhyInv
  <2>2. Told(post, e) \in BOOLEAN /\ Told(post', e) \in BOOLEAN
    BY DEF Told
  <2>3. About(u, e) => u.withdraw = ~Told(post', e)
    BY <1>1, <1>2 DEF About, Told
  <2>4. ~About(u, e) => Told(post', e) = Told(post, e)
    <3>1. CASE NextHop[e.vrf] # r
      BY <1>2, <3>1 DEF Told
    <3>2. CASE NextHop[e.vrf] = r /\ e.prefix # p
      BY <1>2, <3>2 DEF Told
    <3> QED BY <1>1, <3>1, <3>2 DEF About
  <2> QED BY <1>1, <1>2, <2>1, <2>2, <2>3, <2>4, AppendDue
<1> QED BY <1>2, <1>4, <1>5 DEF PhyInv

\* The callback handles an update: the entry of its VRF is settled as it
\* says, or VPP refused the call.
LEMMA HandleKeeps ==
  ASSUME OneVRFPerRouter, PhyInv, Handle
  PROVE  PhyInv'
<1>1. /\ up /\ up' /\ queue # <<>> /\ queue \in Seq(Updates)
      /\ queue' = Tail(queue) /\ post' = post
      /\ UNCHANGED <<net, post, up, wrapped, changes, crashes>>
  BY DEF Handle, PhyInv, TypeOK
<1>2. Head(queue) \in Updates /\ queue' \in Seq(Updates)
  BY <1>1, HeadTailProperties
<1>3. PICK u \in Updates : u = Head(queue)
  BY <1>2
<1>4. PICK v \in VRFOf(u) \ {Default}, ok \in BOOLEAN :
        /\ Advertise(u, v, ok) \/ Withdraw(u, v, ok)
        /\ refused' = Refused(Entry(v, u), ok)
        /\ old' \in Leftover(Entry(v, u), ok)
  BY <1>3 DEF Handle
<1> DEFINE x == Entry(v, u)
<1>5. v \in VRFs /\ NextHop[v] = u.router
  BY <1>4 DEF VRFOf, Matching
<1>6. x \in Entries /\ x.vrf = v /\ x.prefix = u.prefix
  BY <1>5 DEF Entry, Entries, Updates
<1>7. \A e \in Entries : About(u, e) <=> e = x
  <2> SUFFICES ASSUME NEW e \in Entries PROVE About(u, e) => e = x
    BY <1>5, <1>6 DEF About
  <2>1. About(u, e) => e.vrf = v /\ e.prefix = u.prefix
    BY <1>5 DEF About, OneVRFPerRouter, Entries
  <2>2. e.vrf = v /\ e.prefix = u.prefix => e = x
    BY DEF Entries, Entry
  <2> QED BY <2>1, <2>2
<1>8. /\ adv' = IF u.withdraw THEN adv \ {x} ELSE adv \cup {x}
      /\ routes' = IF ~ok THEN routes ELSE IF u.withdraw THEN routes \ {x} ELSE routes \cup {x}
      /\ refused' = IF ok THEN refused \ {x} ELSE refused \cup {x}
      /\ old' \subseteq old
  BY <1>4 DEF Advertise, Withdraw, AddRoute, DelRoute, Refused, Leftover
<1> HIDE DEF x
<1>9. TypeOK' /\ OldInv'
  <2>1. /\ adv' \subseteq Entries /\ routes' \subseteq Entries /\ refused' \subseteq Entries
        /\ old' \subseteq Entries
    BY <1>6, <1>8 DEF PhyInv, TypeOK
  <2>2. OldInv'
    BY <1>1, <1>8 DEF PhyInv, OldInv
  <2> QED BY <1>1, <1>2, <2>1, <2>2 DEF PhyInv, TypeOK
<1>10. ASSUME NEW e \in Entries
       PROVE  Due(Tail(queue), adv', routes', refused', e, Told(post, e))
  <2>1. Due(queue, adv, routes, refused, e, Told(post, e)) /\ Told(post, e) \in BOOLEAN
    BY <1>1 DEF PhyInv, Told
  <2>2. ASSUME About(u, e), NEW t \in BOOLEAN, u.withdraw = ~t
        PROVE  Settled(adv', routes', refused', e, t)
    BY <1>7, <1>8, <2>2 DEF Settled
  <2>3. ASSUME ~About(u, e), Settled(adv, routes, refused, e, Told(post, e))
        PROVE  Settled(adv', routes', refused', e, Told(post, e))
    BY <1>7, <1>8, <2>3 DEF Settled
  <2> QED BY <1>1, <1>3, <2>1, <2>2, <2>3, TailDue
<1> QED BY <1>1, <1>9, <1>10 DEF PhyInv

\* The process dies.
LEMMA DieKeeps ==
  ASSUME PhyInv, Die, crashes' \in Nat
  PROVE  PhyInv'
<1>1. Nothing \in [Routers -> SUBSET Prefixes] /\ <<>> \in Seq(Updates)
  BY EmptySeq DEF Nothing
<1> QED BY <1>1 DEF Die, PhyInv, TypeOK, OldInv

\* The next process begins without the routes it has dumped.
LEMMA RestartClears ==
  ASSUME PhyInv, Restart
  PROVE  PhyInv'
<1>0. MayStay \subseteq routes \cup old /\ TooMany \in BOOLEAN
  BY DEF MayStay, TooMany
<1>1. /\ post' = Nothing /\ queue' = <<>> /\ adv' = {} /\ routes' = {} /\ up'
      /\ old' \subseteq MayStay /\ wrapped' = TooMany
      /\ TypeOK'
  BY <1>0 DEF Restart, PhyInv, TypeOK
<1>2. OldInv'
  <2>1. CASE TooMany
    BY <1>1, <2>1 DEF OldInv
  <2>2. CASE ~TooMany
    BY <1>1, <2>2 DEF OldInv, MayStay, Dumped
  <2> QED BY <2>1, <2>2
<1>3. ASSUME NEW e \in Entries
      PROVE  Due(queue', adv', routes', refused', e, Told(post', e))
  <2>1. \A k \in 1..Len(queue') : FALSE
    BY <1>1
  <2>2. Told(post', e) = FALSE
    BY <1>1 DEF Told, Nothing
  <2> QED BY <1>1, <2>1, <2>2 DEF Due, Settled
<1> QED BY <1>1, <1>2, <1>3 DEF PhyInv

LEMMA InitPhy == Init => PhyInv
<1> SUFFICES ASSUME Init PROVE PhyInv
  OBVIOUS
<1>1. TypeOK
  <2>1. Nothing \in [Routers -> SUBSET Prefixes] /\ <<>> \in Seq(Updates)
    BY EmptySeq DEF Nothing
  <2> QED BY <2>1 DEF Init, TypeOK
<1>2. ASSUME NEW e \in Entries
      PROVE  Due(queue, adv, routes, refused, e, Told(post, e))
  <2>1. \A k \in 1..Len(queue) : FALSE
    BY DEF Init
  <2>2. Told(post, e) = FALSE
    BY DEF Init, Told, Nothing
  <2> QED BY <2>1, <2>2 DEF Init, Due, Settled
<1> QED BY <1>1, <1>2 DEF Init, PhyInv, OldInv

LEMMA NextPhy ==
  ASSUME OneVRFPerRouter
  PROVE  PhyInv /\ [Next]_vars => PhyInv'
<1> SUFFICES ASSUME PhyInv, [Next]_vars PROVE PhyInv'
  OBVIOUS
<1>1. ASSUME NEW r \in Routers, NEW p \in Prefixes, Change(r, p) PROVE PhyInv'
  <2>1. TypeOK' /\ OldInv'
    BY <1>1 DEF Change, PhyInv, TypeOK, OldInv
  <2> QED BY <1>1, <2>1 DEF Change, PhyInv
<1>2. ASSUME NEW r \in Routers, NEW p \in Prefixes, Announce(r, p) PROVE PhyInv'
  BY <1>2, AnnounceKeeps
<1>3. CASE Handle
  BY <1>3, HandleKeeps
<1>4. CASE Panic \/ Crash
  <2>1. Die /\ crashes' \in Nat
    BY <1>4 DEF Panic, Crash, PhyInv, TypeOK
  <2> QED BY <2>1, DieKeeps
<1>5. CASE Restart
  BY <1>5, RestartClears
<1>6. CASE UNCHANGED vars
  BY <1>6 DEF vars, PhyInv, TypeOK, OldInv
<1> QED BY <1>1, <1>2, <1>3, <1>4, <1>5, <1>6 DEF Next

\* With an empty queue every entry is settled.
LEMMA DueIsInSync == PhyInv => InSync
<1> SUFFICES ASSUME PhyInv, up, queue = <<>>
             PROVE  adv = Wanted(post) /\ Installed(Wanted(post))
  BY DEF InSync
<1>1. ASSUME NEW e \in Entries PROVE Settled(adv, routes, refused, e, Told(post, e))
  <2>1. \A k \in 1..Len(queue) : FALSE
    OBVIOUS
  <2>2. Due(queue, adv, routes, refused, e, Told(post, e))
    BY DEF PhyInv
  <2> QED BY <2>1, <2>2 DEF Due, Pending
<1>2. \A e \in Entries : Told(post, e) <=> e \in Wanted(post)
  BY DEF Told, Wanted
<1>3. Wanted(post) \subseteq Entries /\ adv \subseteq Entries
  BY DEF Wanted, PhyInv, TypeOK
<1>4. adv = Wanted(post)
  BY <1>1, <1>2, <1>3 DEF Settled
<1>5. Installed(Wanted(post))
  BY <1>1, <1>2 DEF Settled, Installed, PhyInv, OldInv
<1> QED BY <1>4, <1>5

\* When the callback has caught up, GoBGP's VPNv4 table has exactly what the
\* routers announce and VPP has exactly those routes, but for the entries
\* whose last call it refused and for the host routes of earlier processes,
\* which DumpIPRoutes leaves out (vpp.go:1204): for any number of routers,
\* prefixes, changes, crashes and panics.
THEOREM InSyncHolds == ASSUME OneVRFPerRouter PROVE Spec => []InSync
<1> QED BY InitPhy, NextPhy, DueIsInSync, PTL DEF Spec
=============================================================================

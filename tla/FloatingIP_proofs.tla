-------------------------- MODULE FloatingIP_proofs --------------------------
(***************************************************************************)
(* IndInv is an invariant of FloatingIP for every configuration and every  *)
(* pattern of VPP errors.  A handler is a composition of DelFIPAndTunnel   *)
(* and AddFIPAndTunnel on the state record, so the invariant is stated for *)
(* such records (SInv) and one lemma per operation shows that it is kept.  *)
(*                                                                         *)
(* From IndInv it follows that VPP and GoBGP hold no more than the storage *)
(* does, that one update touches one floating IP, that the handler         *)
(* implements the abstract table, and that behind the queue of GoBGP       *)
(* (TFSync) it ends up with what it was told.                              *)
(***************************************************************************)
EXTENDS TFSync, SequenceTheorems, FiniteSetTheorems, TLAPS

-----------------------------------------------------------------------------
(* What DelPath and AddPath do to the paths of a route, for every route.   *)

\* Cutting position i out of a sequence shifts what follows by one.
LEMMA RemoveAtLemma ==
  ASSUME NEW S, NEW s \in Seq(S), NEW i \in 1..Len(s)
  PROVE  /\ RemoveAt(s, i) \in Seq(S)
         /\ Len(RemoveAt(s, i)) = Len(s) - 1
         /\ \A j \in 1..(Len(s) - 1) :
              RemoveAt(s, i)[j] = IF j < i THEN s[j] ELSE s[j + 1]
<1> DEFINE a == SubSeq(s, 1, i - 1)
           b == SubSeq(s, i + 1, Len(s))
<1>0. /\ Len(s) \in Nat
      /\ \A j \in 1..Len(s) : s[j] \in S
  BY LenProperties, ElementOfSeq
<1>1. /\ a \in Seq(S) /\ Len(a) = i - 1
      /\ \A j \in 1..(i - 1) : a[j] = s[j]
  <2>1. \A j \in 1..(i - 1) : s[j] \in S
    BY <1>0
  <2>2. /\ SubSeq(s, 1, i - 1) \in Seq(S)
        /\ Len(SubSeq(s, 1, i - 1)) = IF 1 <= i - 1 THEN (i - 1) - 1 + 1 ELSE 0
        /\ \A j \in 1..((i - 1) - 1 + 1) : SubSeq(s, 1, i - 1)[j] = s[1 + j - 1]
    BY <1>0, <2>1, SubSeqProperties
  <2> QED BY <1>0, <2>2
<1>2. /\ b \in Seq(S) /\ Len(b) = Len(s) - i
      /\ \A j \in 1..(Len(s) - i) : b[j] = s[i + j]
  <2>1. \A j \in (i + 1)..Len(s) : s[j] \in S
    BY <1>0
  <2>2. /\ SubSeq(s, i + 1, Len(s)) \in Seq(S)
        /\ Len(SubSeq(s, i + 1, Len(s))) =
             IF i + 1 <= Len(s) THEN Len(s) - (i + 1) + 1 ELSE 0
        /\ \A j \in 1..(Len(s) - (i + 1) + 1) :
             SubSeq(s, i + 1, Len(s))[j] = s[(i + 1) + j - 1]
    BY <1>0, <2>1, SubSeqProperties
  <2> QED BY <1>0, <2>2
<1>3. /\ a \o b \in Seq(S)
      /\ Len(a \o b) = Len(a) + Len(b)
      /\ \A j \in 1..(Len(a) + Len(b)) :
           (a \o b)[j] = IF j <= Len(a) THEN a[j] ELSE b[j - Len(a)]
  BY <1>1, <1>2, ConcatProperties
<1>4. RemoveAt(s, i) = a \o b
  BY DEF RemoveAt
<1> HIDE DEF a, b
<1>5. /\ RemoveAt(s, i) \in Seq(S)
      /\ Len(RemoveAt(s, i)) = Len(s) - 1
  BY <1>0, <1>1, <1>2, <1>3, <1>4
<1>6. ASSUME NEW j \in 1..(Len(s) - 1)
      PROVE  RemoveAt(s, i)[j] = IF j < i THEN s[j] ELSE s[j + 1]
  <2>1. (a \o b)[j] = IF j <= i - 1 THEN a[j] ELSE b[j - (i - 1)]
    BY <1>0, <1>1, <1>2, <1>3
  <2>2. CASE j < i
    BY <1>0, <1>1, <1>4, <2>1, <2>2
  <2>3. CASE ~(j < i)
    <3>1. j - (i - 1) \in 1..(Len(s) - i) /\ i + (j - (i - 1)) = j + 1
      BY <1>0, <2>3
    <3> QED BY <1>0, <1>2, <1>4, <2>1, <2>3, <3>1
  <2> QED BY <2>2, <2>3
<1> QED BY <1>5, <1>6

\* DelPath of a next-hop the route has removes exactly that next-hop; every
\* other path stays, in a route that is one path shorter.
LEMMA DelPathLemma ==
  ASSUME NEW S, NEW paths \in Seq(S), Distinct(paths),
         NEW nh \in NextHops(paths)
  PROVE  /\ DelPath(paths, nh) \in Seq(S)
         /\ Len(DelPath(paths, nh)) = Len(paths) - 1
         /\ Distinct(DelPath(paths, nh))
         /\ ToSet(DelPath(paths, nh)) = {p \in ToSet(paths) : p.nh # nh}
<1> DEFINE i == PathIndex(paths, nh)
           q == DelPath(paths, nh)
<1>0. /\ Len(paths) \in Nat /\ DOMAIN paths = 1..Len(paths)
  BY LenProperties
<1>1. i \in 1..Len(paths) /\ paths[i].nh = nh
  BY <1>0 DEF PathIndex, NextHops
<1>2. q = RemoveAt(paths, i)
  BY DEF DelPath
<1> HIDE DEF i
<1>3. /\ q \in Seq(S) /\ Len(q) = Len(paths) - 1 /\ DOMAIN q = 1..(Len(paths) - 1)
      /\ \A j \in 1..(Len(paths) - 1) :
           q[j] = IF j < i THEN paths[j] ELSE paths[j + 1]
  <2>1. /\ RemoveAt(paths, i) \in Seq(S) /\ Len(RemoveAt(paths, i)) = Len(paths) - 1
        /\ \A j \in 1..(Len(paths) - 1) :
             RemoveAt(paths, i)[j] = IF j < i THEN paths[j] ELSE paths[j + 1]
    BY <1>1, RemoveAtLemma
  <2> HIDE DEF q
  <2> QED BY <1>2, <2>1, LenProperties
<1> HIDE DEF q
<1>4. Distinct(q)
  <2> SUFFICES ASSUME NEW j \in 1..(Len(paths) - 1), NEW k \in 1..(Len(paths) - 1),
                      q[j].nh = q[k].nh
               PROVE  j = k
    BY <1>3 DEF Distinct
  <2> DEFINE p(m) == IF m < i THEN m ELSE m + 1
  <2>1. /\ p(j) \in 1..Len(paths) /\ p(k) \in 1..Len(paths)
        /\ q[j] = paths[p(j)] /\ q[k] = paths[p(k)]
    BY <1>0, <1>1, <1>3
  <2>2. p(j) = p(k)
    BY <1>0, <2>1 DEF Distinct
  <2> QED BY <1>0, <1>1, <2>2
<1>5. ASSUME NEW j \in 1..(Len(paths) - 1)
      PROVE  \E k \in 1..Len(paths) : paths[k].nh # nh /\ q[j] = paths[k]
  <2>1. CASE j < i
    <3>1. j \in 1..Len(paths) /\ j # i /\ q[j] = paths[j]
      BY <1>0, <1>1, <1>3, <2>1
    <3> QED BY <1>0, <1>1, <3>1 DEF Distinct
  <2>2. CASE ~(j < i)
    <3>1. j + 1 \in 1..Len(paths) /\ j + 1 # i /\ q[j] = paths[j + 1]
      BY <1>0, <1>1, <1>3, <2>2
    <3> QED BY <1>0, <1>1, <3>1 DEF Distinct
  <2> QED BY <2>1, <2>2
<1>6. ASSUME NEW k \in 1..Len(paths), paths[k].nh # nh
      PROVE  \E j \in 1..(Len(paths) - 1) : q[j] = paths[k]
  <2>1. CASE k < i
    <3>1. k \in 1..(Len(paths) - 1) /\ q[k] = paths[k]
      BY <1>0, <1>1, <1>3, <2>1
    <3> QED BY <3>1
  <2>2. CASE ~(k < i)
    <3>1. k - 1 \in 1..(Len(paths) - 1) /\ q[k - 1] = paths[k]
      BY <1>0, <1>1, <1>3, <1>6, <2>2
    <3> QED BY <3>1
  <2> QED BY <2>1, <2>2
<1>7. ToSet(q) = {p \in ToSet(paths) : p.nh # nh}
  <2>1. ASSUME NEW p \in ToSet(q)
        PROVE  p \in ToSet(paths) /\ p.nh # nh
    <3>1. PICK j \in 1..(Len(paths) - 1) : p = q[j]
      BY <1>3 DEF ToSet
    <3>2. PICK k \in 1..Len(paths) : paths[k].nh # nh /\ q[j] = paths[k]
      BY <1>5
    <3> QED BY <1>0, <3>1, <3>2 DEF ToSet
  <2>2. ASSUME NEW p \in ToSet(paths), p.nh # nh
        PROVE  p \in ToSet(q)
    <3>1. PICK k \in 1..Len(paths) : p = paths[k]
      BY <1>0 DEF ToSet
    <3>2. PICK j \in 1..(Len(paths) - 1) : q[j] = paths[k]
      BY <1>6, <2>2, <3>1
    <3> QED BY <1>3, <3>1, <3>2 DEF ToSet
  <2> QED BY <2>1, <2>2
<1> QED BY <1>3, <1>4, <1>7 DEF q

\* AddPath of a path with a label: it is in the route, every path via another
\* next-hop stays, and no next-hop occurs twice.
LEMMA AddPathLemma ==
  ASSUME NEW S, NEW paths \in Seq(S), Distinct(paths),
         NEW path \in S, path.label # 0
  PROVE  /\ AddPath(paths, path) \in Seq(S)
         /\ AddPath(paths, path) # <<>>
         /\ Distinct(AddPath(paths, path))
         /\ ToSet(AddPath(paths, path)) = {p \in ToSet(paths) : p.nh # path.nh} \cup {path}
<1> DEFINE q == DelPath(paths, path.nh)
           r == AddPath(paths, path)
<1>1. /\ q \in Seq(S) /\ Distinct(q)
      /\ ToSet(q) = {p \in ToSet(paths) : p.nh # path.nh}
  <2>1. CASE path.nh \in NextHops(paths)
    BY <2>1, DelPathLemma
  <2>2. CASE path.nh \notin NextHops(paths)
    BY <2>2 DEF DelPath, NextHops, ToSet
  <2> QED BY <2>1, <2>2
<1>2. r = Append(q, path)
  BY DEF AddPath
<1> HIDE DEF q
<1>3. /\ r \in Seq(S) /\ r # <<>> /\ Len(q) \in Nat
      /\ DOMAIN r = 1..(Len(q) + 1) /\ DOMAIN q = 1..Len(q)
      /\ \A j \in 1..Len(q) : r[j] = q[j]
      /\ r[Len(q) + 1] = path
  BY <1>1, <1>2, AppendProperties, LenProperties
<1> HIDE DEF r
<1>4. \A j \in 1..Len(q) : q[j].nh # path.nh
  BY <1>1, <1>3 DEF ToSet
<1>5. Distinct(r)
  BY <1>1, <1>3, <1>4 DEF Distinct
<1>6. ToSet(r) = ToSet(q) \cup {path}
  <2>1. ASSUME NEW j \in 1..(Len(q) + 1), j \notin 1..Len(q)
        PROVE  r[j] = path
    BY <1>3, <2>1
  <2> QED BY <1>3, <2>1 DEF ToSet
<1> QED BY <1>1, <1>3, <1>5, <1>6 DEF r

-----------------------------------------------------------------------------
(* IndInv on a state record.                                               *)

SType(s) ==
  s \in [fip    : [Hosts -> Routes \cup {NoRoute}],
         tun    : [NHs -> Tunnels \cup {NoTunnel}],
         served : [VRFs -> Nat],
         fib    : SUBSET FibPathType,
         encap  : SUBSET EncapType,
         adv    : SUBSET VRFs]

SDistinct(s) ==
  \A f \in Hosts : s.fip[f] # NoRoute =>
    s.fip[f].paths # <<>> /\ Distinct(s.fip[f].paths)

STunnels(s) == \A n \in NHs : GetFIPServed(s.tun, n) = Cardinality(Via(s.fip, n))

SVRFs(s) == \A v \in VRFs : s.served[v] = Cardinality(In(s.fip, v))

SUnique(s) == \A d, e \in s.encap : d.id = e.id => d = e

SEncap(s) ==
  \A n \in NHs : s.tun[n] # NoTunnel => [id |-> s.tun[n].id, nh |-> n] \in s.encap

SFib(s) == \A f \in Hosts : s.fip[f] # NoRoute => FibPaths(f, s.fip[f]) \subseteq s.fib

SPaths(s) ==
  \A f \in Hosts : s.fip[f] # NoRoute =>
    \A i \in DOMAIN s.fip[f].paths :
      /\ s.tun[s.fip[f].paths[i].nh] # NoTunnel
      /\ s.tun[s.fip[f].paths[i].nh].id = s.fip[f].paths[i].tun

SInv(s) ==
  /\ SType(s) /\ SDistinct(s) /\ STunnels(s) /\ SVRFs(s)
  /\ SUnique(s) /\ SEncap(s) /\ SFib(s) /\ SPaths(s)

\* The record form says the same as the variables.
LEMMA StateInv == IndInv <=> SInv(State) /\ up \in BOOLEAN /\ DownIsEmpty
<1>1. TypeOK <=> SType(State) /\ up \in BOOLEAN
  BY DEF TypeOK, SType, State
<1>2. DistinctNextHops <=> SDistinct(State)
  BY DEF DistinctNextHops, SDistinct, State
<1>3. TunnelRefCount <=> STunnels(State)
  BY DEF TunnelRefCount, STunnels, State
<1>4. VRFRefCount <=> SVRFs(State)
  BY DEF VRFRefCount, SVRFs, State
<1>5. StoredIsInstalled <=> SUnique(State) /\ SEncap(State) /\ SFib(State) /\ SPaths(State)
  BY DEF StoredIsInstalled, SUnique, SEncap, SFib, SPaths, State
<1> QED BY <1>1, <1>2, <1>3, <1>4, <1>5 DEF IndInv, SInv

-----------------------------------------------------------------------------
(* Counting.                                                               *)

\* The sets the counters stand for are finite, so their cardinality is a number.
LEMMA ViaFinite ==
  ASSUME NEW F, NEW n
  PROVE  /\ IsFiniteSet(Via(F, n)) /\ Cardinality(Via(F, n)) \in Nat
         /\ IsFiniteSet(In(F, n)) /\ Cardinality(In(F, n)) \in Nat
<1>1. Via(F, n) \in SUBSET Hosts /\ In(F, n) \in SUBSET Hosts
  BY DEF Via, In
<1> QED BY <1>1, FiniteAssumption, FS_Subset, FS_CardinalityType

\* Storing no route for f takes f out of the sets that are counted.
LEMMA ForgetCount ==
  ASSUME NEW F \in [Hosts -> Routes \cup {NoRoute}], NEW f \in Hosts, NEW n
  PROVE  LET G == [F EXCEPT ![f] = NoRoute]
         IN  /\ Via(G, n) = Via(F, n) \ {f}
             /\ In(G, n) = In(F, n) \ {f}
             /\ f \in Via(F, n) => /\ Cardinality(Via(F, n)) > 0
                                   /\ Cardinality(Via(G, n)) = Cardinality(Via(F, n)) - 1
             /\ f \in In(F, n) => /\ Cardinality(In(F, n)) > 0
                                  /\ Cardinality(In(G, n)) = Cardinality(In(F, n)) - 1
             /\ f \notin Via(F, n) => Via(G, n) = Via(F, n)
             /\ f \notin In(F, n) => In(G, n) = In(F, n)
<1> DEFINE G == [F EXCEPT ![f] = NoRoute]
<1>1. Via(G, n) = Via(F, n) \ {f}
  BY DEF Via
<1>2. In(G, n) = In(F, n) \ {f}
  BY DEF In
<1> HIDE DEF G
<1>3. f \in Via(F, n) => Cardinality(Via(G, n)) = Cardinality(Via(F, n)) - 1
  BY <1>1, ViaFinite, FS_RemoveElement
<1>4. f \in In(F, n) => Cardinality(In(G, n)) = Cardinality(In(F, n)) - 1
  BY <1>2, ViaFinite, FS_RemoveElement
<1>5. Cardinality(Via(G, n)) \in Nat /\ Cardinality(In(G, n)) \in Nat
      /\ Cardinality(Via(F, n)) \in Nat /\ Cardinality(In(F, n)) \in Nat
  BY ViaFinite
<1>6. /\ f \in Via(F, n) => Cardinality(Via(F, n)) > 0
      /\ f \in In(F, n) => Cardinality(In(F, n)) > 0
  BY <1>3, <1>4, <1>5
<1>7. /\ f \notin Via(F, n) => Via(G, n) = Via(F, n)
      /\ f \notin In(F, n) => In(G, n) = In(F, n)
  BY <1>1, <1>2
<1> QED BY <1>1, <1>2, <1>3, <1>4, <1>6, <1>7 DEF G

\* Storing a route where there was none adds f to them.
LEMMA LearnCount ==
  ASSUME NEW F \in [Hosts -> Routes \cup {NoRoute}], NEW f \in Hosts, F[f] = NoRoute,
         NEW r, r # NoRoute, NEW n
  PROVE  LET G == [F EXCEPT ![f] = r]
         IN  /\ Cardinality(Via(G, n)) = IF n \in NextHops(r.paths)
                  THEN Cardinality(Via(F, n)) + 1 ELSE Cardinality(Via(F, n))
             /\ Cardinality(In(G, n)) = IF n = r.vrf
                  THEN Cardinality(In(F, n)) + 1 ELSE Cardinality(In(F, n))
<1> DEFINE G == [F EXCEPT ![f] = r]
<1>1. Via(G, n) = IF n \in NextHops(r.paths) THEN Via(F, n) \cup {f} ELSE Via(F, n)
  BY DEF Via
<1>2. In(G, n) = IF n = r.vrf THEN In(F, n) \cup {f} ELSE In(F, n)
  BY DEF In
<1>3. f \notin Via(F, n) /\ f \notin In(F, n)
  BY DEF Via, In
<1> HIDE DEF G
<1>4. Cardinality(Via(F, n) \cup {f}) = Cardinality(Via(F, n)) + 1
  BY <1>3, ViaFinite, FS_AddElement
<1>5. Cardinality(In(F, n) \cup {f}) = Cardinality(In(F, n)) + 1
  BY <1>3, ViaFinite, FS_AddElement
<1> QED BY <1>1, <1>2, <1>4, <1>5 DEF G

-----------------------------------------------------------------------------
(* DelFIPAndTunnelFromVPPAndStorage keeps the invariant.                   *)

\* Whatever VPP refuses to delete, deleting a stored route leaves a storage
\* whose counters are exact and whose records are installed, without the route.
LEMMA DelKeepsInv ==
  ASSUME NEW s, SInv(s), NEW f \in Hosts, s.fip[f] # NoRoute,
         NEW v \in VRFs, NEW d
  PROVE  SInv(DelFIPAndTunnel(s, f, s.fip[f], v, d))
<1> DEFINE r      == s.fip[f]
           nhs    == NextHops(r.paths)
           count  == [s.served EXCEPT ![r.vrf] = Dec(@)]
           rest   == DecServed(s.tun, nhs)
           unused == {n \in nhs : GetFIPServed(rest, n) = 0}
           ids    == {r.paths[i].tun : i \in {j \in DOMAIN r.paths :
                                                r.paths[j].nh \in unused \ d.tunnels}}
           t      == DelFIPAndTunnel(s, f, r, v, d)
<1>1. /\ t.fip = [s.fip EXCEPT ![f] = NoRoute]
      /\ t.tun = [n \in NHs |-> IF n \in unused THEN NoTunnel ELSE rest[n]]
      /\ t.served = count
      /\ t.fib = IF d.route THEN s.fib ELSE FibDel(s.fib, f, r)
      /\ t.encap = {e \in s.encap : e.id \notin ids}
      /\ t.adv = IF count[r.vrf] = 0 THEN s.adv \ {v} ELSE s.adv
      /\ t = [fip |-> t.fip, tun |-> t.tun, served |-> t.served,
              fib |-> t.fib, encap |-> t.encap, adv |-> t.adv]
  BY DEF DelFIPAndTunnel, Unused
<1> HIDE DEF t
<1>2. /\ s.fip \in [Hosts -> Routes \cup {NoRoute}]
      /\ s.tun \in [NHs -> Tunnels \cup {NoTunnel}]
      /\ s.served \in [VRFs -> Nat]
      /\ s.fib \in SUBSET FibPathType /\ s.encap \in SUBSET EncapType
      /\ s.adv \in SUBSET VRFs
  BY DEF SInv, SType
<1>3. r \in Routes /\ r.vrf \in VRFs /\ r.paths \in Seq(Paths) /\ nhs \subseteq NHs
  <2>1. r \in Routes
    BY <1>2
  <2>2. r.vrf \in VRFs /\ r.paths \in Seq(Paths)
    BY <2>1 DEF Routes
  <2>3. \A i \in DOMAIN r.paths : r.paths[i] \in Paths
    BY <2>2, LenProperties, ElementOfSeq
  <2>4. \A i \in DOMAIN r.paths : r.paths[i].nh \in NHs
    BY <2>3 DEF Paths
  <2> QED BY <2>1, <2>2, <2>4 DEF NextHops
<1>4. \A n \in nhs : s.tun[n] # NoTunnel /\ s.tun[n] \in Tunnels
  BY <1>2, <1>3 DEF SInv, SPaths, NextHops
<1>5. \A n \in NHs : f \in Via(s.fip, n) <=> n \in nhs
  BY DEF Via
<1>6. \A w \in VRFs : f \in In(s.fip, w) <=> w = r.vrf
  BY DEF In

\* The tunnel records after the decrements.
<1>7. ASSUME NEW n \in NHs
      PROVE  rest[n] = IF n \in nhs THEN [id |-> s.tun[n].id, served |-> Dec(s.tun[n].served)]
                                    ELSE s.tun[n]
  BY <1>4 DEF DecServed
<1> HIDE DEF rest
<1>8. \A n \in nhs : /\ s.tun[n].served \in Nat /\ s.tun[n].id \in TunIds
                     /\ Dec(s.tun[n].served) \in Nat
                     /\ rest[n] \in Tunnels /\ rest[n] # NoTunnel
                     /\ rest[n].id = s.tun[n].id /\ rest[n].served = Dec(s.tun[n].served)
  <2> SUFFICES ASSUME NEW n \in nhs
               PROVE  /\ s.tun[n].served \in Nat /\ s.tun[n].id \in TunIds
                      /\ Dec(s.tun[n].served) \in Nat
                      /\ rest[n] \in Tunnels /\ rest[n] # NoTunnel
                      /\ rest[n].id = s.tun[n].id /\ rest[n].served = Dec(s.tun[n].served)
    OBVIOUS
  <2>1. s.tun[n].served \in Nat /\ s.tun[n].id \in TunIds
    BY <1>4 DEF Tunnels
  <2>2. Dec(s.tun[n].served) \in Nat
    BY <2>1 DEF Dec
  <2>3. rest[n] = [id |-> s.tun[n].id, served |-> Dec(s.tun[n].served)]
    BY <1>3, <1>7
  <2>4. rest[n] \in Tunnels
    BY <2>1, <2>2, <2>3 DEF Tunnels
  <2> QED BY <2>1, <2>2, <2>3, <2>4, NoRecordAssumption
<1>9. \A n \in NHs : t.tun[n] # NoTunnel =>
        n \notin unused /\ s.tun[n] # NoTunnel /\ t.tun[n].id = s.tun[n].id
  <2> SUFFICES ASSUME NEW n \in NHs, t.tun[n] # NoTunnel
               PROVE  n \notin unused /\ s.tun[n] # NoTunnel /\ t.tun[n].id = s.tun[n].id
    OBVIOUS
  <2>1. n \notin unused /\ t.tun[n] = rest[n]
    BY <1>1
  <2>2. CASE n \in nhs
    BY <1>4, <1>8, <2>1, <2>2
  <2>3. CASE n \notin nhs
    BY <1>7, <2>1, <2>3
  <2> QED BY <2>2, <2>3
<1>10. SType(t)
  <2>1. t.fip \in [Hosts -> Routes \cup {NoRoute}]
    BY <1>1, <1>2
  <2>2. t.tun \in [NHs -> Tunnels \cup {NoTunnel}]
    <3>1. ASSUME NEW n \in NHs
          PROVE  rest[n] \in Tunnels \cup {NoTunnel}
      <4>1. CASE n \in nhs
        BY <1>8, <4>1
      <4>2. CASE n \notin nhs
        BY <1>2, <1>7, <4>2
      <4> QED BY <4>1, <4>2
    <3> HIDE DEF unused
    <3> QED BY <1>1, <3>1
  <2>3. t.served \in [VRFs -> Nat]
    BY <1>1, <1>2, <1>3 DEF Dec
  <2>4. t.fib \in SUBSET FibPathType /\ t.encap \in SUBSET EncapType /\ t.adv \in SUBSET VRFs
    BY <1>1, <1>2 DEF FibDel, FibEntry
  <2> QED BY <1>1, <2>1, <2>2, <2>3, <2>4 DEF SType
<1>11. SDistinct(t)
  BY <1>1, <1>2 DEF SInv, SDistinct
<1>12. STunnels(t)
  <2> SUFFICES ASSUME NEW n \in NHs
               PROVE  GetFIPServed(t.tun, n) = Cardinality(Via(t.fip, n))
    BY DEF STunnels
  <2>1. GetFIPServed(s.tun, n) = Cardinality(Via(s.fip, n))
    BY DEF SInv, STunnels
  <2>2. CASE n \in nhs
    <3>1. /\ Cardinality(Via(s.fip, n)) > 0
          /\ Cardinality(Via(t.fip, n)) = Cardinality(Via(s.fip, n)) - 1
      BY <1>1, <1>2, <1>5, <2>2, ForgetCount
    <3>2. s.tun[n].served = Cardinality(Via(s.fip, n)) /\ s.tun[n].served \in Nat
      BY <1>4, <1>8, <2>1, <2>2 DEF GetFIPServed
    <3>3. rest[n].served = Cardinality(Via(t.fip, n)) /\ rest[n] # NoTunnel
      BY <1>8, <2>2, <3>1, <3>2 DEF Dec
    <3> QED BY <1>1, <2>2, <3>3 DEF GetFIPServed
  <2>3. CASE n \notin nhs
    <3>1. Via(t.fip, n) = Via(s.fip, n)
      BY <1>1, <1>2, <1>5, <2>3, ForgetCount
    <3>2. t.tun[n] = s.tun[n]
      BY <1>1, <1>7, <2>3
    <3> QED BY <2>1, <3>1, <3>2 DEF GetFIPServed
  <2> QED BY <2>2, <2>3
<1>13. SVRFs(t)
  <2> SUFFICES ASSUME NEW w \in VRFs
               PROVE  t.served[w] = Cardinality(In(t.fip, w))
    BY DEF SVRFs
  <2>1. s.served[w] = Cardinality(In(s.fip, w)) /\ s.served[w] \in Nat
    BY <1>2 DEF SInv, SVRFs
  <2>2. CASE w = r.vrf
    <3>1. /\ Cardinality(In(s.fip, w)) > 0
          /\ Cardinality(In(t.fip, w)) = Cardinality(In(s.fip, w)) - 1
      BY <1>1, <1>2, <1>6, <2>2, ForgetCount
    <3>2. t.served[w] = Dec(s.served[w])
      BY <1>1, <1>2, <2>2
    <3> QED BY <2>1, <3>1, <3>2 DEF Dec
  <2>3. CASE w # r.vrf
    <3>1. In(t.fip, w) = In(s.fip, w)
      BY <1>1, <1>2, <1>6, <2>3, ForgetCount
    <3>2. t.served[w] = s.served[w]
      BY <1>1, <1>2, <2>3
    <3> QED BY <2>1, <3>1, <3>2
  <2> QED BY <2>2, <2>3
<1>14. SUnique(t)
  BY <1>1 DEF SInv, SUnique
<1>15. SEncap(t)
  <2> SUFFICES ASSUME NEW n \in NHs, t.tun[n] # NoTunnel
               PROVE  [id |-> t.tun[n].id, nh |-> n] \in t.encap
    BY DEF SEncap
  <2>1. /\ n \notin unused /\ t.tun[n].id = s.tun[n].id
        /\ [id |-> s.tun[n].id, nh |-> n] \in s.encap
    BY <1>9 DEF SInv, SEncap
  <2>2. ASSUME NEW i \in DOMAIN r.paths, r.paths[i].nh \in unused
        PROVE  r.paths[i].tun # s.tun[n].id
    <3> DEFINE m == r.paths[i].nh
    <3>1. s.tun[m] # NoTunnel /\ s.tun[m].id = r.paths[i].tun /\ m \in NHs
      BY <1>3 DEF SInv, SPaths, NextHops
    <3>2. [id |-> s.tun[m].id, nh |-> m] \in s.encap
      BY <3>1 DEF SInv, SEncap
    <3>3. m # n
      BY <2>1, <2>2
    <3> HIDE DEF m
    <3> QED BY <2>1, <3>1, <3>2, <3>3 DEF SInv, SUnique
  <2>3. s.tun[n].id \notin ids
    BY <2>2
  <2> QED BY <1>1, <2>1, <2>3
<1>16. SFib(t)
  <2> SUFFICES ASSUME NEW g \in Hosts, t.fip[g] # NoRoute, NEW e \in FibPaths(g, t.fip[g])
               PROVE  e \in t.fib
    BY DEF SFib
  <2>1. g # f /\ t.fip[g] = s.fip[g]
    BY <1>1, <1>2
  <2>2. e \in s.fib
    BY <2>1 DEF SInv, SFib
  <2>3. e.prefix = g
    BY DEF FibPaths
  <2>4. e \notin FibPaths(f, r) /\ e \notin FibEntry(s.fib, f, r)
    BY <2>1, <2>3 DEF FibPaths, FibEntry
  <2> QED BY <1>1, <2>2, <2>4 DEF FibDel
<1>17. SPaths(t)
  <2> SUFFICES ASSUME NEW g \in Hosts, t.fip[g] # NoRoute, NEW i \in DOMAIN t.fip[g].paths
               PROVE  /\ t.tun[t.fip[g].paths[i].nh] # NoTunnel
                      /\ t.tun[t.fip[g].paths[i].nh].id = t.fip[g].paths[i].tun
    BY DEF SPaths
  <2> DEFINE n == t.fip[g].paths[i].nh
  <2>1. g # f /\ t.fip[g] = s.fip[g]
    BY <1>1, <1>2
  <2>2. s.tun[n] # NoTunnel /\ s.tun[n].id = t.fip[g].paths[i].tun
    BY <2>1 DEF SInv, SPaths
  <2>3. n \in NHs
    <3>1. t.fip[g] \in Routes
      BY <1>2, <2>1
    <3>2. t.fip[g].paths \in Seq(Paths)
      BY <3>1 DEF Routes
    <3>3. t.fip[g].paths[i] \in Paths
      BY <3>2, LenProperties, ElementOfSeq
    <3> QED BY <3>3 DEF Paths
  <2>4. g \in Via(t.fip, n)
    BY DEF Via, NextHops
  <2> HIDE DEF n
  <2>5. GetFIPServed(t.tun, n) # 0
    BY <1>12, <2>3, <2>4, ViaFinite, FS_EmptySet DEF STunnels
  <2>6. t.tun[n] # NoTunnel
    BY <2>5 DEF GetFIPServed
  <2> QED BY <1>9, <2>2, <2>3, <2>6 DEF n
<1> QED BY <1>1, <1>10, <1>11, <1>12, <1>13, <1>14, <1>15, <1>16, <1>17 DEF SInv, t

-----------------------------------------------------------------------------
(* AddFIPAndTunnelInVPPAndStorage keeps the invariant, whatever VPP        *)
(* answers.                                                                *)

\* Paths whose tunnel may still be unknown.
Received == [nh : NHs, tun : TunIds \cup {UndefinedTunnelID}, label : Labels]

\* Whatever VPP refuses to add, adding a route to a prefix that has none keeps
\* the counters exact and installs what is stored.
LEMMA AddKeepsInv ==
  ASSUME NEW s, SInv(s), NEW f \in Hosts, s.fip[f] = NoRoute, NEW v \in VRFs,
         NEW r, r.vrf \in VRFs, r.paths \in Seq(Received),
         r.paths # <<>>, Distinct(r.paths),
         NEW a \in AddOutcomes(s, r)
  PROVE  SInv(AddFIPAndTunnel(s, f, r, v, a))
<1> DEFINE nhs   == NextHops(r.paths)
           made  == {n \in Missing(s, r) : a.fail = 0 \/ PathIndex(r.paths, n) < a.fail}
           T     == [n \in NHs |-> IF n \in made THEN [id |-> a.ids[n], served |-> 0]
                                                 ELSE s.tun[n]]
           E     == s.encap \cup {[id |-> a.ids[n], nh |-> n] : n \in made}
           route == [vrf   |-> r.vrf,
                     paths |-> [i \in DOMAIN r.paths |->
                                  [nh |-> r.paths[i].nh, tun |-> T[r.paths[i].nh].id,
                                   label |-> r.paths[i].label]]]
           count == [s.served EXCEPT ![r.vrf] = @ + 1]
           t     == AddFIPAndTunnel(s, f, r, v, a)
<1>1. /\ s.fip \in [Hosts -> Routes \cup {NoRoute}]
      /\ s.tun \in [NHs -> Tunnels \cup {NoTunnel}]
      /\ s.served \in [VRFs -> Nat]
      /\ s.fib \in SUBSET FibPathType /\ s.encap \in SUBSET EncapType
      /\ s.adv \in SUBSET VRFs
      /\ s = [fip |-> s.fip, tun |-> s.tun, served |-> s.served,
              fib |-> s.fib, encap |-> s.encap, adv |-> s.adv]
  BY DEF SInv, SType
<1>2. /\ DOMAIN r.paths = 1..Len(r.paths) /\ Len(r.paths) \in Nat
      /\ \A i \in DOMAIN r.paths : r.paths[i] \in Received
  BY LenProperties, ElementOfSeq
<1>3. /\ nhs \subseteq NHs
      /\ \A i \in DOMAIN r.paths : r.paths[i].nh \in nhs /\ r.paths[i].label \in Labels
  BY <1>2 DEF NextHops, Received
<1>4. /\ made \subseteq Missing(s, r) /\ Missing(s, r) \subseteq nhs
      /\ a.fail = 0 => made = Missing(s, r)
  BY DEF Missing
<1>5. /\ \A n \in made : a.ids[n] \in TunIds /\ \A e \in s.encap : e.id # a.ids[n]
      /\ \A m, n \in made : a.ids[m] = a.ids[n] => m = n
  <2>1. a.ids \in Injection(Missing(s, r), FreeIds(s))
    BY DEF AddOutcomes
  <2>2. /\ a.ids \in [Missing(s, r) -> FreeIds(s)]
        /\ \A m, n \in Missing(s, r) : a.ids[m] = a.ids[n] => m = n
    BY <2>1 DEF Injection, IsInjective
  <2> HIDE DEF made
  <2> QED BY <1>4, <2>2 DEF FreeIds
<1> HIDE DEF made

\* The tunnels made so far: records with no floating IP yet.
<1>6. \A n \in NHs : T[n] = IF n \in made THEN [id |-> a.ids[n], served |-> 0] ELSE s.tun[n]
  OBVIOUS
<1>7. \A n \in made : /\ T[n] \in Tunnels /\ T[n] # NoTunnel
                      /\ T[n].id = a.ids[n] /\ T[n].served = 0
                      /\ s.tun[n] = NoTunnel
  BY <1>3, <1>4, <1>5, NoRecordAssumption DEF Tunnels, Missing
<1>8. /\ T \in [NHs -> Tunnels \cup {NoTunnel}]
      /\ E \in SUBSET EncapType
  <2>1. \A n \in NHs : T[n] \in Tunnels \cup {NoTunnel}
    BY <1>1, <1>6, <1>7
  <2>2. \A n \in made : [id |-> a.ids[n], nh |-> n] \in EncapType
    BY <1>3, <1>4, <1>5 DEF EncapType
  <2> QED BY <1>1, <2>1, <2>2
<1>9. \A n \in NHs : GetFIPServed(T, n) = Cardinality(Via(s.fip, n))
  <2> SUFFICES ASSUME NEW n \in NHs
               PROVE  GetFIPServed(T, n) = GetFIPServed(s.tun, n)
    BY DEF SInv, STunnels
  <2>1. CASE n \in made
    BY <1>7, <2>1 DEF GetFIPServed
  <2>2. CASE n \notin made
    BY <1>6, <2>2 DEF GetFIPServed
  <2> QED BY <2>1, <2>2
<1>10. \A n \in NHs : s.tun[n] # NoTunnel => T[n] = s.tun[n]
  BY <1>6, <1>7
<1>11. \A n \in NHs : T[n] # NoTunnel => [id |-> T[n].id, nh |-> n] \in E
  <2> SUFFICES ASSUME NEW n \in NHs, T[n] # NoTunnel
               PROVE  [id |-> T[n].id, nh |-> n] \in E
    OBVIOUS
  <2>1. CASE n \in made
    BY <1>7, <2>1
  <2>2. CASE n \notin made
    BY <1>6, <2>2 DEF SInv, SEncap
  <2> QED BY <2>1, <2>2
<1>12. \A d, e \in E : d.id = e.id => d = e
  <2> SUFFICES ASSUME NEW d \in E, NEW e \in E, d.id = e.id
               PROVE  d = e
    OBVIOUS
  <2>1. CASE d \in s.encap /\ e \in s.encap
    BY <2>1 DEF SInv, SUnique
  <2>2. CASE d \in s.encap /\ e \notin s.encap
    <3>1. PICK n \in made : e = [id |-> a.ids[n], nh |-> n]
      BY <2>2
    <3> QED BY <1>5, <2>2, <3>1
  <2>3. CASE d \notin s.encap /\ e \in s.encap
    <3>1. PICK n \in made : d = [id |-> a.ids[n], nh |-> n]
      BY <2>3
    <3> QED BY <1>5, <2>3, <3>1
  <2>4. CASE d \notin s.encap /\ e \notin s.encap
    <3>1. PICK m \in made : d = [id |-> a.ids[m], nh |-> m]
      BY <2>4
    <3>2. PICK n \in made : e = [id |-> a.ids[n], nh |-> n]
      BY <2>4
    <3> QED BY <1>5, <3>1, <3>2
  <2> QED BY <2>1, <2>2, <2>3, <2>4
<1>13. ASSUME NEW g \in Hosts, s.fip[g] # NoRoute, NEW i \in DOMAIN s.fip[g].paths
       PROVE  /\ s.fip[g].paths[i].nh \in NHs
              /\ T[s.fip[g].paths[i].nh] # NoTunnel
              /\ T[s.fip[g].paths[i].nh].id = s.fip[g].paths[i].tun
  <2>1. s.fip[g].paths \in Seq(Paths)
    BY <1>1, <1>13 DEF Routes
  <2>2. s.fip[g].paths[i] \in Paths
    BY <2>1, LenProperties, ElementOfSeq
  <2>3. s.fip[g].paths[i].nh \in NHs
    BY <2>2 DEF Paths
  <2> HIDE DEF T
  <2> QED BY <1>10, <1>13, <2>3 DEF SInv, SPaths
<1>14. CASE a.fail # 0 \/ a.route
  <2>1. t = [fip |-> s.fip, tun |-> T, served |-> s.served,
             fib |-> s.fib, encap |-> E, adv |-> s.adv]
    <3>1. t = [s EXCEPT !.tun = T, !.encap = E]
      BY <1>14 DEF AddFIPAndTunnel, WithTunnelIDs, made
    <3> HIDE DEF t, T, E
    <3> QED BY <1>1, <3>1
  <2> HIDE DEF t, T, E
  <2>2. /\ t.fip = s.fip /\ t.tun = T /\ t.served = s.served
        /\ t.fib = s.fib /\ t.encap = E /\ t.adv = s.adv
    BY <2>1
  <2>3. SType(t)
    BY <1>1, <1>8, <2>1 DEF SType
  <2>4. SDistinct(t) /\ SVRFs(t) /\ SFib(t)
    BY <2>2 DEF SInv, SDistinct, SVRFs, SFib
  <2>5. STunnels(t) /\ SUnique(t) /\ SEncap(t) /\ SPaths(t)
    BY <1>9, <1>11, <1>12, <1>13, <2>2 DEF STunnels, SUnique, SEncap, SPaths
  <2> QED BY <2>3, <2>4, <2>5 DEF SInv, t
<1>15. CASE ~(a.fail # 0 \/ a.route)
  <2>1. t = [fip |-> [s.fip EXCEPT ![f] = route], tun |-> IncServed(T, nhs),
             served |-> count, fib |-> FibAdd(s.fib, f, route), encap |-> E,
             adv |-> IF AlreadyAdvertised(count[r.vrf]) THEN s.adv ELSE s.adv \cup {v}]
    BY <1>15 DEF AddFIPAndTunnel, WithTunnelIDs, made
  <2> HIDE DEF t
  <2>2. /\ t.fip = [s.fip EXCEPT ![f] = route] /\ t.tun = IncServed(T, nhs)
        /\ t.served = count /\ t.fib = FibAdd(s.fib, f, route) /\ t.encap = E
        /\ t.adv = IF AlreadyAdvertised(count[r.vrf]) THEN s.adv ELSE s.adv \cup {v}
    BY <2>1
  <2>3. \A n \in nhs : T[n] # NoTunnel /\ T[n] \in Tunnels
    <3> SUFFICES ASSUME NEW n \in nhs PROVE T[n] # NoTunnel
      BY <1>3, <1>8
    <3>1. CASE n \in made
      BY <1>7, <3>1
    <3>2. CASE n \notin made
      BY <1>3, <1>4, <1>6, <1>15, <3>2 DEF Missing
    <3> QED BY <3>1, <3>2
  <2> HIDE DEF T, E
  \* The route that is stored.
  <2>4. /\ route.vrf = r.vrf /\ DOMAIN route.paths = DOMAIN r.paths
        /\ \A i \in DOMAIN r.paths :
             /\ route.paths[i].nh = r.paths[i].nh
             /\ route.paths[i].tun = T[r.paths[i].nh].id
             /\ route.paths[i].label = r.paths[i].label
             /\ route.paths[i] \in Paths
    <3>1. \A i \in DOMAIN r.paths : T[r.paths[i].nh].id \in TunIds
      BY <1>3, <2>3 DEF Tunnels
    <3> QED BY <1>3, <3>1 DEF Paths
  <2>5. route.paths \in Seq(Paths)
    <3>1. route.paths = [i \in 1..Len(r.paths) |-> route.paths[i]]
      BY <1>2
    <3> DEFINE q == route.paths
    <3>2. \A i \in 1..Len(r.paths) : q[i] \in Paths
      BY <1>2, <2>4
    <3> HIDE DEF q
    <3>3. q \in [1..Len(r.paths) -> Paths]
      BY <3>1, <3>2 DEF q
    <3>4. q \in Seq(Paths)
      BY <1>2, <3>3, SeqDef
    <3> QED BY <3>4 DEF q
  <2>6. route \in Routes /\ route # NoRoute
    BY <2>5, NoRecordAssumption DEF Routes
  <2>7. NextHops(route.paths) = nhs /\ Distinct(route.paths) /\ route.paths # <<>>
    <3>1. route.paths # <<>>
      <4>1. Len(r.paths) # 0
        BY EmptySeq
      <4>2. 1 \in DOMAIN route.paths
        BY <1>2, <2>4, <4>1
      <4> QED BY <4>2
    <3>2. NextHops(route.paths) = nhs
      <4> HIDE DEF route
      <4> QED BY <2>4 DEF NextHops
    <3>3. Distinct(route.paths)
      <4> HIDE DEF route
      <4> QED BY <2>4 DEF Distinct
    <3> QED BY <3>1, <3>2, <3>3
  <2> HIDE DEF route
  <2>8. ASSUME NEW n \in NHs
        PROVE  t.tun[n] = IF n \in nhs THEN [id |-> T[n].id, served |-> T[n].served + 1]
                                       ELSE T[n]
    BY <2>2, <2>3 DEF IncServed
  <2>9. \A n \in nhs : /\ T[n].served \in Nat /\ T[n].id \in TunIds
                       /\ t.tun[n] \in Tunnels /\ t.tun[n] # NoTunnel
                       /\ t.tun[n].id = T[n].id /\ t.tun[n].served = T[n].served + 1
    <3> SUFFICES ASSUME NEW n \in nhs
                 PROVE  /\ T[n].served \in Nat /\ T[n].id \in TunIds
                        /\ t.tun[n] \in Tunnels /\ t.tun[n] # NoTunnel
                        /\ t.tun[n].id = T[n].id /\ t.tun[n].served = T[n].served + 1
      OBVIOUS
    <3>1. T[n].served \in Nat /\ T[n].id \in TunIds
      BY <2>3 DEF Tunnels
    <3>2. t.tun[n] = [id |-> T[n].id, served |-> T[n].served + 1]
      BY <1>3, <2>8
    <3>3. t.tun[n] \in Tunnels
      BY <3>1, <3>2 DEF Tunnels
    <3> QED BY <3>1, <3>2, <3>3, NoRecordAssumption
  <2>10. \A n \in NHs : t.tun[n] # NoTunnel => T[n] # NoTunnel /\ t.tun[n].id = T[n].id
    BY <2>3, <2>8, <2>9
  <2>11. \A n \in NHs : T[n] # NoTunnel => t.tun[n] # NoTunnel
    BY <2>8, <2>9
  <2>12. FibPaths(f, route) \subseteq FibPathType
    <3> SUFFICES ASSUME NEW i \in DOMAIN route.paths
                 PROVE  [vrf |-> route.vrf, prefix |-> f, tun |-> route.paths[i].tun,
                         label |-> route.paths[i].label] \in FibPathType
      BY DEF FibPaths
    <3>1. route.paths[i] \in Paths
      BY <2>4
    <3> QED BY <2>4, <3>1 DEF FibPathType, Paths
  <2>13. SType(t)
    <3>1. t.fip \in [Hosts -> Routes \cup {NoRoute}]
      BY <1>1, <2>2, <2>6
    <3>2. t.tun \in [NHs -> Tunnels \cup {NoTunnel}]
      <4>1. \A n \in NHs : t.tun[n] \in Tunnels \cup {NoTunnel}
        BY <1>8, <2>8, <2>9
      <4> QED BY <2>2, <4>1 DEF IncServed
    <3>3. t.served \in [VRFs -> Nat]
      BY <1>1, <2>2
    <3>4. t.fib \in SUBSET FibPathType
      BY <1>1, <2>2, <2>12 DEF FibAdd
    <3>5. t.encap \in SUBSET EncapType /\ t.adv \in SUBSET VRFs
      BY <1>1, <1>8, <2>2
    <3> QED BY <2>1, <2>2, <3>1, <3>2, <3>3, <3>4, <3>5 DEF SType
  <2>14. SDistinct(t)
    BY <1>1, <2>2, <2>7 DEF SInv, SDistinct
  <2>15. STunnels(t)
    <3> SUFFICES ASSUME NEW n \in NHs
                 PROVE  GetFIPServed(t.tun, n) = Cardinality(Via(t.fip, n))
      BY DEF STunnels
    <3>1. Cardinality(Via(t.fip, n)) = IF n \in nhs THEN Cardinality(Via(s.fip, n)) + 1
                                                    ELSE Cardinality(Via(s.fip, n))
      <4>1. Cardinality(Via([s.fip EXCEPT ![f] = route], n)) =
              IF n \in NextHops(route.paths) THEN Cardinality(Via(s.fip, n)) + 1
                                             ELSE Cardinality(Via(s.fip, n))
        BY <1>1, <2>6, LearnCount
      <4> QED BY <2>2, <2>7, <4>1
    <3>2. CASE n \in nhs
      BY <1>9, <2>3, <2>9, <3>1, <3>2 DEF GetFIPServed
    <3>3. CASE n \notin nhs
      BY <1>9, <2>8, <3>1, <3>3 DEF GetFIPServed
    <3> QED BY <3>2, <3>3
  <2>16. SVRFs(t)
    <3> SUFFICES ASSUME NEW w \in VRFs
                 PROVE  t.served[w] = Cardinality(In(t.fip, w))
      BY DEF SVRFs
    <3>1. Cardinality(In(t.fip, w)) = IF w = r.vrf THEN Cardinality(In(s.fip, w)) + 1
                                                   ELSE Cardinality(In(s.fip, w))
      <4>1. Cardinality(In([s.fip EXCEPT ![f] = route], w)) =
              IF w = route.vrf THEN Cardinality(In(s.fip, w)) + 1
                               ELSE Cardinality(In(s.fip, w))
        BY <1>1, <2>6, LearnCount
      <4> QED BY <2>2, <2>4, <4>1
    <3>2. s.served[w] = Cardinality(In(s.fip, w))
      BY DEF SInv, SVRFs
    <3> QED BY <1>1, <2>2, <3>1, <3>2
  <2>17. SUnique(t) /\ SEncap(t)
    BY <1>11, <1>12, <2>2, <2>10 DEF SUnique, SEncap
  <2>18. SFib(t)
    <3> SUFFICES ASSUME NEW g \in Hosts, t.fip[g] # NoRoute
                 PROVE  FibPaths(g, t.fip[g]) \subseteq t.fib
      BY DEF SFib
    <3>1. CASE g = f
      BY <1>1, <2>2, <3>1 DEF FibAdd
    <3>2. CASE g # f
      <4>1. t.fip[g] = s.fip[g]
        BY <1>1, <2>2, <3>2
      <4>2. FibPaths(g, t.fip[g]) \subseteq s.fib
        BY <4>1 DEF SInv, SFib
      <4>3. \A e \in FibPaths(g, t.fip[g]) : e.prefix = g
        BY DEF FibPaths
      <4> QED BY <2>2, <3>2, <4>2, <4>3 DEF FibAdd, FibEntry
    <3> QED BY <3>1, <3>2
  <2>19. SPaths(t)
    <3> SUFFICES ASSUME NEW g \in Hosts, t.fip[g] # NoRoute, NEW i \in DOMAIN t.fip[g].paths
                 PROVE  /\ t.tun[t.fip[g].paths[i].nh] # NoTunnel
                        /\ t.tun[t.fip[g].paths[i].nh].id = t.fip[g].paths[i].tun
      BY DEF SPaths
    <3>1. CASE g = f
      <4>1. t.fip[g] = route
        BY <1>1, <2>2, <3>1
      <4>2. route.paths[i].nh \in nhs /\ route.paths[i].tun = T[route.paths[i].nh].id
        BY <1>3, <2>4, <4>1
      <4> QED BY <2>9, <4>1, <4>2
    <3>2. CASE g # f
      <4>1. t.fip[g] = s.fip[g]
        BY <1>1, <2>2, <3>2
      <4> QED BY <1>13, <2>10, <2>11, <4>1
    <3> QED BY <3>1, <3>2
  <2> QED BY <2>13, <2>14, <2>15, <2>16, <2>17, <2>18, <2>19 DEF SInv, t
<1> QED BY <1>14, <1>15

-----------------------------------------------------------------------------
(* The steps of the specification.                                         *)

\* The new state is a record that satisfies the invariant.
LEMMA ApplyKeepsInv ==
  ASSUME NEW s, SInv(s), Apply(s)
  PROVE  IndInv'
<1>1. TypeOK'
  BY DEF SInv, SType, Apply, TypeOK
<1>2. DistinctNextHops'
  BY DEF SInv, SDistinct, Apply, DistinctNextHops
<1>3. TunnelRefCount'
  BY DEF SInv, STunnels, Apply, TunnelRefCount
<1>4. VRFRefCount'
  BY DEF SInv, SVRFs, Apply, VRFRefCount
<1>5. StoredIsInstalled'
  BY DEF SInv, SUnique, SEncap, SFib, SPaths, Apply, StoredIsInstalled
<1>6. DownIsEmpty'
  BY DEF Apply, DownIsEmpty
<1> QED BY <1>1, <1>2, <1>3, <1>4, <1>5, <1>6 DEF IndInv

\* When the process dies the storage is empty.
LEMMA DieKeepsInv ==
  ASSUME NEW s, SInv(s), Die(s)
  PROVE  IndInv'
<1>1. TypeOK'
  BY DEF SInv, SType, Die, TypeOK
<1>2. \A n : Via(fip', n) = {} /\ In(fip', n) = {}
  BY DEF Die, Via, In
<1>3. Cardinality({}) = 0
  BY FS_EmptySet
<1>4. DistinctNextHops'
  BY DEF Die, DistinctNextHops
<1>5. TunnelRefCount'
  BY <1>2, <1>3 DEF Die, TunnelRefCount, GetFIPServed
<1>6. VRFRefCount'
  BY <1>2, <1>3 DEF Die, VRFRefCount
<1>7. StoredIsInstalled'
  BY DEF SInv, SUnique, Die, StoredIsInstalled
<1>8. DownIsEmpty'
  BY DEF Die, DownIsEmpty
<1> QED BY <1>1, <1>4, <1>5, <1>6, <1>7, <1>8 DEF IndInv

\* The route of an update and the stored route a handler changes are what
\* AddFIPAndTunnelInVPPAndStorage expects.
LEMMA ReceivedRoute ==
  ASSUME NEW u \in Updates
  PROVE  /\ u.vrf \in VRFs /\ u.prefix \in Hosts /\ u.nh \in NHs
         /\ ReceivedPath(u) \in Received
         /\ <<ReceivedPath(u)>> \in Seq(Received)
         /\ <<ReceivedPath(u)>> # <<>> /\ Distinct(<<ReceivedPath(u)>>)
<1>1. u.vrf \in VRFs /\ u.prefix \in Hosts /\ u.nh \in NHs /\ u.label \in Labels
  BY DEF Updates
<1>2. ReceivedPath(u) \in Received
  BY <1>1 DEF ReceivedPath, Received
<1> QED BY <1>1, <1>2 DEF Distinct

\* The stored route of a prefix is a sequence of typed, distinct paths.
LEMMA StoredRoute ==
  ASSUME IndInv, NEW f \in Hosts, fip[f] # NoRoute
  PROVE  /\ fip[f] \in Routes /\ fip[f].vrf \in VRFs
         /\ fip[f].paths \in Seq(Paths) /\ fip[f].paths \in Seq(Received)
         /\ fip[f].paths # <<>> /\ Distinct(fip[f].paths)
<1>1. fip[f] \in Routes
  BY DEF IndInv, TypeOK
<1>2. fip[f].vrf \in VRFs /\ fip[f].paths \in Seq(Paths)
  BY <1>1 DEF Routes
<1>3. Paths \subseteq Received
  BY DEF Paths, Received
<1>4. fip[f].paths \in Seq(Received)
  BY <1>2, <1>3, SeqMonotonic
<1> QED BY <1>1, <1>2, <1>4 DEF IndInv, DistinctNextHops

\* Delete the stored route and create it again with other paths.
LEMMA RecreateKeepsInv ==
  ASSUME IndInv, NEW f \in Hosts, fip[f] # NoRoute, NEW v \in VRFs, NEW d,
         NEW q \in Seq(Received), q # <<>>, Distinct(q),
         NEW a \in AddOutcomes(DelFIPAndTunnel(State, f, fip[f], v, d), [fip[f] EXCEPT !.paths = q])
  PROVE  SInv(AddFIPAndTunnel(DelFIPAndTunnel(State, f, fip[f], v, d), f,
                              [fip[f] EXCEPT !.paths = q], v, a))
<1> DEFINE s == DelFIPAndTunnel(State, f, fip[f], v, d)
           r == [fip[f] EXCEPT !.paths = q]
<1>1. State.fip = fip
  BY DEF State
<1>2. SInv(State)
  BY StateInv
<1>3. SInv(s) /\ s.fip = [fip EXCEPT ![f] = NoRoute]
  <2>1. SInv(DelFIPAndTunnel(State, f, State.fip[f], v, d))
    BY <1>1, <1>2, DelKeepsInv
  <2>2. DelFIPAndTunnel(State, f, fip[f], v, d).fip = [fip EXCEPT ![f] = NoRoute]
    BY <1>1 DEF DelFIPAndTunnel
  <2> QED BY <1>1, <2>1, <2>2
<1>4. s.fip[f] = NoRoute
  BY <1>3 DEF IndInv, TypeOK
<1>5. r.vrf \in VRFs /\ r.paths = q
  BY StoredRoute DEF Routes
<1> HIDE DEF s, r
<1>6. SInv(AddFIPAndTunnel(s, f, r, v, a))
  BY <1>3, <1>4, <1>5, AddKeepsInv DEF s, r
<1> QED BY <1>6 DEF s, r

\* Every branch of the callback of HandleBGPUpdate keeps the invariant.
LEMMA HandlerKeepsInv ==
  ASSUME IndInv, NEW u \in Updates, HandleUpdate(u)
  PROVE  IndInv'
<1> DEFINE f == u.prefix
<1>0. f \in Hosts /\ u.vrf \in VRFs
  BY ReceivedRoute
<1>1. State.fip = fip /\ SInv(State)
  BY StateInv DEF State
<1>2. CASE NewFIP(u)
  <2> DEFINE r == [vrf |-> u.vrf, paths |-> <<ReceivedPath(u)>>]
  <2>1. PICK a \in AddOutcomes(State, r) : Apply(AddFIPAndTunnel(State, f, r, u.vrf, a))
    BY <1>2 DEF NewFIP
  <2>2. State.fip[f] = NoRoute
    BY <1>1, <1>2 DEF NewFIP
  <2>3. /\ r.vrf \in VRFs /\ r.paths \in Seq(Received)
        /\ r.paths # <<>> /\ Distinct(r.paths)
    BY ReceivedRoute
  <2> HIDE DEF r
  <2>4. SInv(AddFIPAndTunnel(State, f, r, u.vrf, a))
    BY <1>0, <1>1, <2>2, <2>3, AddKeepsInv
  <2> QED BY <2>1, <2>4, ApplyKeepsInv
<1>3. CASE ChangeFIP(u)
  <2> DEFINE q == AddPath(fip[f].paths, ReceivedPath(u))
  <2>1. fip[f] # NoRoute
    BY <1>3 DEF ChangeFIP
  <2>2. PICK d : \E a \in AddOutcomes(DelFIPAndTunnel(State, f, fip[f], u.vrf, d),
                                      [fip[f] EXCEPT !.paths = q]) :
          Apply(AddFIPAndTunnel(DelFIPAndTunnel(State, f, fip[f], u.vrf, d), f,
                                [fip[f] EXCEPT !.paths = q], u.vrf, a))
    BY <1>3 DEF ChangeFIP
  <2>3. q \in Seq(Received) /\ q # <<>> /\ Distinct(q)
    <3>1. /\ fip[f].paths \in Seq(Received) /\ fip[f].paths # <<>>
          /\ Distinct(fip[f].paths) /\ ReceivedPath(u) \in Received
      BY <1>0, <2>1, StoredRoute, ReceivedRoute
    <3>2. CASE ReceivedPath(u).label = 0
      BY <3>1, <3>2 DEF AddPath
    <3>3. CASE ReceivedPath(u).label # 0
      BY <3>1, <3>3, AddPathLemma
    <3> QED BY <3>2, <3>3
  <2> HIDE DEF q
  <2> QED BY <1>0, <2>1, <2>2, <2>3, RecreateKeepsInv, ApplyKeepsInv
<1>4. CASE PanicFIP(u)
  <2>1. PICK d : Die(DelFIPAndTunnel(State, f, fip[f], u.vrf, d))
    BY <1>4 DEF PanicFIP
  <2>2. fip[f] # NoRoute
    BY <1>4 DEF PanicFIP
  <2>3. SInv(DelFIPAndTunnel(State, f, fip[f], u.vrf, d))
    BY <1>0, <1>1, <2>2, DelKeepsInv
  <2> QED BY <2>1, <2>3, DieKeepsInv
<1>5. ASSUME u.withdraw, ~Ignored(u)
      PROVE  fip[f] # NoRoute /\ u.nh \in NextHops(fip[f].paths)
  BY <1>5 DEF Ignored, IsFIPWithNHAndLabelExist, HasPath, NextHops
<1>6. CASE WithdrawFIP(u)
  <2>1. PICK d : Apply(DelFIPAndTunnel(State, f, fip[f], u.vrf, d))
    BY <1>6 DEF WithdrawFIP
  <2>2. fip[f] # NoRoute
    BY <1>5, <1>6 DEF WithdrawFIP
  <2>3. SInv(DelFIPAndTunnel(State, f, fip[f], u.vrf, d))
    BY <1>0, <1>1, <2>2, DelKeepsInv
  <2> QED BY <2>1, <2>3, ApplyKeepsInv
<1>7. CASE WithdrawPath(u)
  <2> DEFINE q == DelPath(fip[f].paths, u.nh)
  <2>1. fip[f] # NoRoute /\ u.nh \in NextHops(fip[f].paths) /\ Len(fip[f].paths) # 1
    BY <1>5, <1>7 DEF WithdrawPath
  <2>2. PICK d : \E a \in AddOutcomes(DelFIPAndTunnel(State, f, fip[f], u.vrf, d),
                                      [fip[f] EXCEPT !.paths = q]) :
          Apply(AddFIPAndTunnel(DelFIPAndTunnel(State, f, fip[f], u.vrf, d), f,
                                [fip[f] EXCEPT !.paths = q], u.vrf, a))
    BY <1>7 DEF WithdrawPath
  <2>3. q \in Seq(Received) /\ q # <<>> /\ Distinct(q)
    <3>1. /\ fip[f].paths \in Seq(Received) /\ fip[f].paths # <<>> /\ Distinct(fip[f].paths)
      BY <1>0, <2>1, StoredRoute
    <3>2. q \in Seq(Received) /\ Distinct(q) /\ Len(q) = Len(fip[f].paths) - 1
      BY <2>1, <3>1, DelPathLemma
    <3>3. Len(q) # 0
      BY <2>1, <3>1, <3>2, EmptySeq
    <3> QED BY <3>2, <3>3, EmptySeq
  <2> HIDE DEF q
  <2> QED BY <1>0, <2>1, <2>2, <2>3, RecreateKeepsInv, ApplyKeepsInv
<1> QED BY <1>2, <1>3, <1>4, <1>6, <1>7 DEF HandleUpdate

\* Every step keeps the invariant: an update, a crash, a restart, a stutter.
LEMMA NextKeepsInv == IndInv /\ [Next]_vars => IndInv'
<1> SUFFICES ASSUME IndInv, [Next]_vars PROVE IndInv'
  OBVIOUS
<1>1. CASE \E u \in Updates : HandleUpdate(u)
  BY <1>1, HandlerKeepsInv
<1>2. CASE Crash
  BY <1>2, StateInv, DieKeepsInv DEF Crash
<1>3. CASE Restart
  <2>0. /\ ~up /\ up' = TRUE /\ fib' = {} /\ encap' = {}
        /\ fip' = fip /\ tun' = tun /\ served' = served /\ adv' = adv
    BY <1>3 DEF Restart
  <2>1. TypeOK' /\ DistinctNextHops' /\ DownIsEmpty'
    BY <2>0 DEF IndInv, TypeOK, DistinctNextHops, DownIsEmpty
  <2>2. TunnelRefCount' /\ VRFRefCount'
    BY <2>0 DEF IndInv, TunnelRefCount, VRFRefCount
  <2>3. StoredIsInstalled'
    BY <2>0 DEF IndInv, StoredIsInstalled, DownIsEmpty
  <2> QED BY <2>1, <2>2, <2>3 DEF IndInv
<1>4. CASE UNCHANGED vars
  BY <1>4 DEF vars, IndInv, TypeOK, DistinctNextHops, TunnelRefCount, VRFRefCount,
              StoredIsInstalled, DownIsEmpty
<1> QED BY <1>1, <1>2, <1>3, <1>4 DEF Next

-----------------------------------------------------------------------------
(* The theorems.                                                           *)

\* The process starts with an empty storage, which satisfies the invariant.
LEMMA InitInv == Init => IndInv
<1> SUFFICES ASSUME Init PROVE IndInv
  OBVIOUS
<1>1. TypeOK /\ DistinctNextHops /\ DownIsEmpty /\ StoredIsInstalled
  BY DEF Init, TypeOK, DistinctNextHops, DownIsEmpty, StoredIsInstalled
<1>2. \A n : Via(fip, n) = {} /\ In(fip, n) = {}
  BY DEF Init, Via, In
<1>3. Cardinality({}) = 0
  BY FS_EmptySet
<1>4. TunnelRefCount /\ VRFRefCount
  BY <1>2, <1>3 DEF Init, TunnelRefCount, VRFRefCount, GetFIPServed
<1> QED BY <1>1, <1>4 DEF IndInv

\* The invariant holds in every reachable state.
THEOREM IndInvHolds == Spec => []IndInv
BY InitInv, NextKeepsInv, PTL DEF Spec

\* Type correctness: in particular every stored path has a tunnel id.
THEOREM TypeCorrect == Spec => []TypeOK
<1>1. IndInv => TypeOK
  BY DEF IndInv
<1> QED BY <1>1, IndInvHolds, PTL

\* A stored route never holds two paths via one vRouter, and never none.
THEOREM DistinctNextHopsHolds == Spec => []DistinctNextHops
<1>1. IndInv => DistinctNextHops
  BY DEF IndInv
<1> QED BY <1>1, IndInvHolds, PTL

\* The FIPServed counters of the tunnels are exact.
THEOREM TunnelRefCountHolds == Spec => []TunnelRefCount
<1>1. IndInv => TunnelRefCount
  BY DEF IndInv
<1> QED BY <1>1, IndInvHolds, PTL

\* The FIPServed counters of the VRFs are exact.
THEOREM VRFRefCountHolds == Spec => []VRFRefCount
<1>1. IndInv => VRFRefCount
  BY DEF IndInv
<1> QED BY <1>1, IndInvHolds, PTL

\* What the storage holds is in VPP, under any pattern of VPP errors.
THEOREM StoredIsInstalledHolds == Spec => []StoredIsInstalled
<1>1. IndInv => StoredIsInstalled
  BY DEF IndInv
<1> QED BY <1>1, IndInvHolds, PTL

-----------------------------------------------------------------------------
(* What the two operations of the handler do to each part of the state.    *)

\* A deletion that leads from s to t: the route is forgotten; the tunnels
\* that stay keep their ids, those that go were used by this route only.
DelDone(s, f, v, d, t) ==
  /\ t.fip = [s.fip EXCEPT ![f] = NoRoute]
  /\ t.fib = IF d.route THEN s.fib ELSE FibDel(s.fib, f, s.fip[f])
  /\ t.adv = IF t.served[s.fip[f].vrf] = 0 THEN s.adv \ {v} ELSE s.adv
  /\ t.encap \subseteq s.encap
  /\ \A n \in NHs : s.tun[n] # NoTunnel /\ t.tun[n] # NoTunnel =>
       t.tun[n].id = s.tun[n].id /\ (t.tun[n].served = 0 => s.tun[n].served = 0)
  /\ \A n \in NHs : t.tun[n] # NoTunnel => s.tun[n] # NoTunnel
  /\ \A n \in NHs : s.tun[n] # NoTunnel /\ t.tun[n] = NoTunnel /\ n \notin d.tunnels =>
       \A e \in t.encap : e.id # s.tun[n].id

\* That is what DelFIPAndTunnelFromVPPAndStorage does to a stored route.
LEMMA DelEffect ==
  ASSUME NEW s, SInv(s), NEW f \in Hosts, s.fip[f] # NoRoute, NEW v \in VRFs, NEW d
  PROVE  DelDone(s, f, v, d, DelFIPAndTunnel(s, f, s.fip[f], v, d))
<1> DEFINE r      == s.fip[f]
           nhs    == NextHops(r.paths)
           rest   == DecServed(s.tun, nhs)
           unused == {n \in nhs : GetFIPServed(rest, n) = 0}
           ids    == {r.paths[i].tun : i \in {j \in DOMAIN r.paths :
                                                r.paths[j].nh \in unused \ d.tunnels}}
           t      == DelFIPAndTunnel(s, f, r, v, d)
<1>1. /\ t.fip = [s.fip EXCEPT ![f] = NoRoute]
      /\ t.fib = IF d.route THEN s.fib ELSE FibDel(s.fib, f, r)
      /\ t.adv = IF t.served[r.vrf] = 0 THEN s.adv \ {v} ELSE s.adv
      /\ t.tun = [n \in NHs |-> IF n \in unused THEN NoTunnel ELSE rest[n]]
      /\ t.encap = {e \in s.encap : e.id \notin ids}
  BY DEF DelFIPAndTunnel, Unused
<1>2. \A n \in NHs : s.tun[n] \in Tunnels \cup {NoTunnel}
  BY DEF SInv, SType
<1>3. ASSUME NEW n \in NHs
      PROVE  rest[n] = IF n \in nhs /\ s.tun[n] # NoTunnel
                       THEN [id |-> s.tun[n].id, served |-> Dec(s.tun[n].served)]
                       ELSE s.tun[n]
  BY DEF DecServed
<1>4. ASSUME NEW n \in NHs, s.tun[n] # NoTunnel
      PROVE  /\ rest[n] # NoTunnel /\ rest[n].id = s.tun[n].id
             /\ n \in nhs => rest[n].served = Dec(s.tun[n].served)
             /\ n \notin nhs => rest[n] = s.tun[n]
  <2>1. s.tun[n].id \in TunIds /\ s.tun[n].served \in Nat
    BY <1>2, <1>4 DEF Tunnels
  <2>2. [id |-> s.tun[n].id, served |-> Dec(s.tun[n].served)] \in Tunnels
    BY <2>1 DEF Tunnels, Dec
  <2> HIDE DEF rest
  <2> QED BY <1>3, <1>4, <2>2, NoRecordAssumption
<1> HIDE DEF t, rest
<1>5. ASSUME NEW n \in NHs, s.tun[n] # NoTunnel, t.tun[n] # NoTunnel
      PROVE  t.tun[n].id = s.tun[n].id /\ (t.tun[n].served = 0 => s.tun[n].served = 0)
  <2>1. n \notin unused /\ t.tun[n] = rest[n]
    BY <1>1, <1>5
  <2>2. n \in nhs => rest[n].served # 0
    BY <1>4, <1>5, <2>1 DEF GetFIPServed
  <2> QED BY <1>4, <1>5, <2>1, <2>2
<1>6. ASSUME NEW n \in NHs, t.tun[n] # NoTunnel
      PROVE  s.tun[n] # NoTunnel
  BY <1>1, <1>3, <1>6
<1>7. ASSUME NEW n \in NHs, s.tun[n] # NoTunnel, t.tun[n] = NoTunnel, n \notin d.tunnels
      PROVE  \A e \in t.encap : e.id # s.tun[n].id
  <2>1. n \in unused \ d.tunnels
    BY <1>1, <1>4, <1>7
  <2>2. PICK i \in DOMAIN r.paths : r.paths[i].nh = n
    BY <2>1 DEF NextHops
  <2>3. r.paths[i].tun = s.tun[n].id
    BY <2>2 DEF SInv, SPaths
  <2>4. s.tun[n].id \in ids
    BY <2>1, <2>2, <2>3
  <2> QED BY <1>1, <2>4
<1>8. DelDone(s, f, v, d, t)
  BY <1>1, <1>5, <1>6, <1>7 DEF DelDone
<1> QED BY <1>8 DEF t

\* Route q has the VRF and the paths of r, whatever their tunnels.
SameRoute(q, r) ==
  /\ q.vrf = r.vrf /\ DOMAIN q.paths = DOMAIN r.paths
  /\ \A i \in DOMAIN r.paths : q.paths[i].nh = r.paths[i].nh /\ q.paths[i].label = r.paths[i].label

\* The addition of route r that leads from s to t succeeded: the route is
\* stored with the ids of its tunnels, installed and counted.
AddStored(s, f, r, v, t) ==
  /\ t.fip[f] \in Routes /\ t.fip[f] # NoRoute /\ SameRoute(t.fip[f], r)
  /\ t.fip = [s.fip EXCEPT ![f] = t.fip[f]]
  /\ t.fib = FibAdd(s.fib, f, t.fip[f])
  /\ t.served = [s.served EXCEPT ![r.vrf] = @ + 1]
  /\ t.adv = IF t.served[r.vrf] > 2 THEN s.adv ELSE s.adv \cup {v}
  /\ \A n \in NHs : t.tun[n] # NoTunnel /\ t.tun[n].served = 0 =>
       s.tun[n] # NoTunnel /\ s.tun[n].served = 0

\* VPP refused a call, and the route is not stored.
AddRefused(s, t) ==
  /\ Faults \cap {"addTunnel", "addRoute"} # {}
  /\ t.fip = s.fip /\ t.fib = s.fib /\ t.adv = s.adv

\* Tunnels that exist keep their ids, a new one is a record of the storage.
AddTunnels(s, t) ==
  /\ \A n \in NHs : s.tun[n] # NoTunnel => t.tun[n] # NoTunnel /\ t.tun[n].id = s.tun[n].id
  /\ \A e \in t.encap : e \in s.encap \/ (t.tun[e.nh] # NoTunnel /\ t.tun[e.nh].id = e.id)

\* That is what AddFIPAndTunnelInVPPAndStorage does for a prefix without a
\* route.
LEMMA AddEffect ==
  ASSUME NEW s, SInv(s), NEW f \in Hosts, s.fip[f] = NoRoute, NEW v \in VRFs,
         NEW r, r.vrf \in VRFs, r.paths \in Seq(Received),
         r.paths # <<>>, Distinct(r.paths),
         NEW a \in AddOutcomes(s, r)
  PROVE  LET t == AddFIPAndTunnel(s, f, r, v, a)
         IN  (AddStored(s, f, r, v, t) \/ AddRefused(s, t)) /\ AddTunnels(s, t)
<1> DEFINE nhs   == NextHops(r.paths)
           made  == {n \in Missing(s, r) : a.fail = 0 \/ PathIndex(r.paths, n) < a.fail}
           T     == [n \in NHs |-> IF n \in made THEN [id |-> a.ids[n], served |-> 0]
                                                 ELSE s.tun[n]]
           E     == s.encap \cup {[id |-> a.ids[n], nh |-> n] : n \in made}
           route == [vrf |-> r.vrf, paths |-> WithTunnelIDs(r.paths, T)]
           count == [s.served EXCEPT ![r.vrf] = @ + 1]
           t     == AddFIPAndTunnel(s, f, r, v, a)
<1>1. /\ s.fip \in [Hosts -> Routes \cup {NoRoute}]
      /\ s.tun \in [NHs -> Tunnels \cup {NoTunnel}]
      /\ s.served \in [VRFs -> Nat]
      /\ s = [fip |-> s.fip, tun |-> s.tun, served |-> s.served,
              fib |-> s.fib, encap |-> s.encap, adv |-> s.adv]
  BY DEF SInv, SType
<1>2. SInv(t)
  BY AddKeepsInv
<1>3. nhs \subseteq NHs /\ Missing(s, r) \subseteq nhs
  <2>1. \A i \in DOMAIN r.paths : r.paths[i] \in Received
    BY LenProperties, ElementOfSeq
  <2> QED BY <2>1 DEF NextHops, Missing, Received
<1>4. \A n \in made : n \in nhs /\ n \in NHs /\ s.tun[n] = NoTunnel /\ a.ids[n] \in TunIds
  <2>1. a.ids \in [Missing(s, r) -> FreeIds(s)]
    BY DEF AddOutcomes, Injection
  <2>2. \A n \in Missing(s, r) : a.ids[n] \in TunIds /\ s.tun[n] = NoTunnel
    BY <2>1 DEF FreeIds, Missing
  <2> QED BY <1>3, <2>2
<1> HIDE DEF made
<1>5. \A n \in made : /\ T[n] = [id |-> a.ids[n], served |-> 0] /\ T[n] # NoTunnel
                      /\ T[n].id = a.ids[n] /\ T[n].served = 0
  <2>1. \A n \in made : [id |-> a.ids[n], served |-> 0] \in Tunnels
    BY <1>4 DEF Tunnels
  <2> QED BY <1>4, <2>1, NoRecordAssumption
<1>6. \A n \in NHs : n \notin made => T[n] = s.tun[n]
  OBVIOUS
<1>7. \A n \in NHs : T[n] \in Tunnels \cup {NoTunnel}
  BY <1>1, <1>4, <1>5, <1>6 DEF Tunnels
<1>8. \A n \in NHs : s.tun[n] # NoTunnel => T[n] = s.tun[n]
  BY <1>4, <1>6
<1>9. \A e \in E : e \in s.encap \/ (e.nh \in made /\ T[e.nh] # NoTunnel /\ T[e.nh].id = e.id)
  <2> SUFFICES ASSUME NEW e \in E, e \notin s.encap
               PROVE  e.nh \in made /\ T[e.nh] # NoTunnel /\ T[e.nh].id = e.id
    OBVIOUS
  <2>1. PICK n \in made : e = [id |-> a.ids[n], nh |-> n]
    OBVIOUS
  <2>2. e.nh = n /\ e.id = a.ids[n]
    BY <2>1
  <2> HIDE DEF T
  <2> QED BY <1>5, <2>2
<1>10. CASE a.fail # 0 \/ a.route
  <2>1. Faults \cap {"addTunnel", "addRoute"} # {}
    BY <1>10 DEF AddOutcomes
  <2>2. t = [s EXCEPT !.tun = T, !.encap = E]
    BY <1>10 DEF AddFIPAndTunnel, made
  <2> HIDE DEF t, T, E
  <2>3. /\ t.fip = s.fip /\ t.tun = T /\ t.fib = s.fib /\ t.encap = E /\ t.adv = s.adv
    BY <1>1, <2>2
  <2>4. AddRefused(s, t) /\ AddTunnels(s, t)
    BY <1>8, <1>9, <2>1, <2>3 DEF AddRefused, AddTunnels
  <2> QED BY <2>4 DEF t
<1>11. CASE ~(a.fail # 0 \/ a.route)
  <2>1. /\ t.fip = [s.fip EXCEPT ![f] = route] /\ t.tun = IncServed(T, nhs)
        /\ t.served = count /\ t.fib = FibAdd(s.fib, f, route) /\ t.encap = E
        /\ t.adv = IF AlreadyAdvertised(count[r.vrf]) THEN s.adv ELSE s.adv \cup {v}
    BY <1>11 DEF AddFIPAndTunnel, made
  <2> HIDE DEF t, T, E
  <2>2. /\ t.fip[f] = route /\ t.served[r.vrf] = count[r.vrf]
        /\ t.adv = IF t.served[r.vrf] > 2 THEN s.adv ELSE s.adv \cup {v}
    BY <1>1, <2>1 DEF AlreadyAdvertised
  <2>3. SameRoute(route, r)
    BY DEF SameRoute, WithTunnelIDs
  <2> HIDE DEF route
  \* The counter of the VRF is exact and went up: a route is stored.
  <2>4. route # NoRoute
    <3>1. t.served[r.vrf] = s.served[r.vrf] + 1 /\ s.served[r.vrf] \in Nat
      BY <1>1, <2>2
    <3>2. /\ t.served[r.vrf] = Cardinality(In(t.fip, r.vrf))
          /\ s.served[r.vrf] = Cardinality(In(s.fip, r.vrf))
      BY <1>2 DEF SInv, SVRFs
    <3>3. t.fip # s.fip
      BY <3>1, <3>2
    <3> QED BY <1>1, <2>1, <3>3
  <2>5. route \in Routes
    BY <1>2, <2>2, <2>4 DEF SInv, SType
  <2>6. \A n \in NHs : t.tun[n] = IF n \in nhs /\ T[n] # NoTunnel
                                  THEN [id |-> T[n].id, served |-> T[n].served + 1] ELSE T[n]
    BY <2>1 DEF IncServed
  <2>7. ASSUME NEW n \in NHs, T[n] # NoTunnel
        PROVE  /\ t.tun[n] # NoTunnel /\ t.tun[n].id = T[n].id
               /\ t.tun[n].served = 0 => n \notin nhs /\ t.tun[n] = T[n]
    <3>1. T[n].id \in TunIds /\ T[n].served \in Nat
      BY <1>7, <2>7 DEF Tunnels
    <3>2. [id |-> T[n].id, served |-> T[n].served + 1] \in Tunnels
      BY <3>1 DEF Tunnels
    <3> QED BY <2>6, <2>7, <3>1, <3>2, NoRecordAssumption
  <2>8. ASSUME NEW n \in NHs, t.tun[n] # NoTunnel, t.tun[n].served = 0
        PROVE  s.tun[n] # NoTunnel /\ s.tun[n].served = 0
    <3>1. T[n] # NoTunnel
      BY <2>6, <2>8
    <3>2. n \notin nhs /\ t.tun[n] = T[n]
      BY <2>7, <2>8, <3>1
    <3> QED BY <1>4, <1>6, <2>8, <3>2
  <2>9. \A n \in NHs : s.tun[n] # NoTunnel => t.tun[n] # NoTunnel /\ t.tun[n].id = s.tun[n].id
    BY <1>8, <2>7
  <2>10. \A e \in t.encap : e \in s.encap \/ (t.tun[e.nh] # NoTunnel /\ t.tun[e.nh].id = e.id)
    BY <1>4, <1>9, <2>1, <2>7
  <2>11. AddStored(s, f, r, v, t)
    BY <2>1, <2>2, <2>3, <2>4, <2>5, <2>8 DEF AddStored
  <2>12. AddTunnels(s, t)
    BY <2>9, <2>10 DEF AddTunnels
  <2> QED BY <2>11, <2>12 DEF t
<1> QED BY <1>10, <1>11

-----------------------------------------------------------------------------
(* The branches of the callback, as compositions of the two operations.    *)

\* The route of the update is installed on its own.
Installs(u) ==
  LET r == [vrf |-> u.vrf, paths |-> <<ReceivedPath(u)>>]
  IN  \E a \in AddOutcomes(State, r) : Apply(AddFIPAndTunnel(State, u.prefix, r, u.vrf, a))

\* The stored route is deleted and created again with paths q.
Recreates(u, q) ==
  LET r == [fip[u.prefix] EXCEPT !.paths = q]
  IN  \E d \in DelOutcomes(fip[u.prefix]) :
        LET s == DelFIPAndTunnel(State, u.prefix, fip[u.prefix], u.vrf, d)
        IN  \E a \in AddOutcomes(s, r) : Apply(AddFIPAndTunnel(s, u.prefix, r, u.vrf, a))

\* The stored route is deleted.
Deletes(u) ==
  \E d \in DelOutcomes(fip[u.prefix]) :
    Apply(DelFIPAndTunnel(State, u.prefix, fip[u.prefix], u.vrf, d))

\* The stored route is deleted and the process is gone.
DeletesAndDies(u) ==
  \E d \in DelOutcomes(fip[u.prefix]) :
    Die(DelFIPAndTunnel(State, u.prefix, fip[u.prefix], u.vrf, d))

\* Every update the callback does not skip is one of four cases.
LEMMA HandlerCases ==
  ASSUME IndInv, NEW u \in Updates, HandleUpdate(u)
  PROVE  /\ up /\ ~Ignored(u)
         /\ \/ ~u.withdraw /\ fip[u.prefix] = NoRoute /\ Installs(u)
            \/ /\ fip[u.prefix] # NoRoute
               /\ \E q \in Seq(Received) :
                    /\ q # <<>> /\ Distinct(q) /\ Recreates(u, q)
                    /\ \/ ~u.withdraw /\ q = AddPath(fip[u.prefix].paths, ReceivedPath(u))
                       \/ /\ u.withdraw /\ Len(fip[u.prefix].paths) # 1
                          /\ q = DelPath(fip[u.prefix].paths, u.nh)
            \/ /\ u.withdraw /\ fip[u.prefix] # NoRoute /\ Len(fip[u.prefix].paths) = 1
               /\ Deletes(u)
            \/ ~u.withdraw /\ fip[u.prefix] # NoRoute /\ DeletesAndDies(u)
<1> DEFINE f == u.prefix
<1>0. f \in Hosts /\ u.vrf \in VRFs
  BY ReceivedRoute
<1>1. CASE NewFIP(u)
  BY <1>1 DEF NewFIP, Installs
<1>2. CASE ChangeFIP(u)
  <2> DEFINE q == AddPath(fip[f].paths, ReceivedPath(u))
  <2>1. up /\ ~Ignored(u) /\ ~u.withdraw /\ fip[f] # NoRoute
    BY <1>2 DEF ChangeFIP
  <2>2. Recreates(u, q)
    BY <1>2 DEF ChangeFIP, Recreates
  <2>3. q \in Seq(Received) /\ q # <<>> /\ Distinct(q)
    <3>1. /\ fip[f].paths \in Seq(Received) /\ fip[f].paths # <<>>
          /\ Distinct(fip[f].paths) /\ ReceivedPath(u) \in Received
      BY <1>0, <2>1, StoredRoute, ReceivedRoute
    <3>2. CASE ReceivedPath(u).label = 0
      BY <3>1, <3>2 DEF AddPath
    <3>3. CASE ReceivedPath(u).label # 0
      BY <3>1, <3>3, AddPathLemma
    <3> QED BY <3>2, <3>3
  <2> QED BY <2>1, <2>2, <2>3
<1>3. CASE PanicFIP(u)
  BY <1>3 DEF PanicFIP, DeletesAndDies
<1>4. ASSUME u.withdraw, ~Ignored(u)
      PROVE  fip[f] # NoRoute /\ u.nh \in NextHops(fip[f].paths)
  BY <1>4 DEF Ignored, IsFIPWithNHAndLabelExist, HasPath, NextHops
<1>5. CASE WithdrawFIP(u)
  BY <1>4, <1>5 DEF WithdrawFIP, Deletes
<1>6. CASE WithdrawPath(u)
  <2> DEFINE q == DelPath(fip[f].paths, u.nh)
  <2>1. /\ up /\ ~Ignored(u) /\ u.withdraw
        /\ fip[f] # NoRoute /\ u.nh \in NextHops(fip[f].paths) /\ Len(fip[f].paths) # 1
    BY <1>4, <1>6 DEF WithdrawPath
  <2>2. Recreates(u, q)
    BY <1>6 DEF WithdrawPath, Recreates
  <2>3. q \in Seq(Received) /\ q # <<>> /\ Distinct(q)
    <3>1. /\ fip[f].paths \in Seq(Received) /\ fip[f].paths # <<>> /\ Distinct(fip[f].paths)
      BY <1>0, <2>1, StoredRoute
    <3>2. q \in Seq(Received) /\ Distinct(q) /\ Len(q) = Len(fip[f].paths) - 1
      BY <2>1, <3>1, DelPathLemma
    <3>3. Len(q) # 0
      BY <2>1, <3>1, <3>2, EmptySeq
    <3> QED BY <3>2, <3>3, EmptySeq
  <2> QED BY <2>1, <2>2, <2>3
<1> QED BY <1>1, <1>2, <1>3, <1>5, <1>6 DEF HandleUpdate

-----------------------------------------------------------------------------
(* VPP holds nothing the storage does not know of.                         *)

\* NothingLeftBehind on a state record.
SClean(s) ==
  /\ "delRoute" \notin Faults =>
       \A e \in s.fib : s.fip[e.prefix] # NoRoute /\ e \in FibPaths(e.prefix, s.fip[e.prefix])
  /\ "delTunnel" \notin Faults =>
       \A e \in s.encap : s.tun[e.nh] # NoTunnel /\ s.tun[e.nh].id = e.id
  /\ Faults \cap {"addTunnel", "addRoute"} = {} =>
       \A n \in NHs : s.tun[n] # NoTunnel => s.tun[n].served > 0

\* NoDanglingPath on a state record.
SLive(s) == "delRoute" \notin Faults => \A p \in s.fib : \E e \in s.encap : e.id = p.tun

\* The tunnel of a stored path is installed, so every path that is stored
\* has its tunnel.
LEMMA CleanIsLive ==
  ASSUME NEW s, SInv(s), SClean(s)
  PROVE  SLive(s)
<1> SUFFICES ASSUME "delRoute" \notin Faults, NEW p \in s.fib
             PROVE  \E e \in s.encap : e.id = p.tun
  BY DEF SLive
<1>1. p.prefix \in Hosts /\ s.fip[p.prefix] # NoRoute /\ p \in FibPaths(p.prefix, s.fip[p.prefix])
  BY DEF SClean, SInv, SType, FibPathType
<1> DEFINE r == s.fip[p.prefix]
<1>2. PICK i \in DOMAIN r.paths : p.tun = r.paths[i].tun
  BY <1>1 DEF FibPaths
<1>3. r.paths[i].nh \in NHs
  <2>1. r.paths \in Seq(Paths)
    BY <1>1 DEF SInv, SType, Routes
  <2>2. r.paths[i] \in Paths
    BY <2>1, LenProperties, ElementOfSeq
  <2> QED BY <2>2 DEF Paths
<1>4. s.tun[r.paths[i].nh] # NoTunnel /\ s.tun[r.paths[i].nh].id = p.tun
  BY <1>1, <1>2 DEF SInv, SPaths
<1>5. [id |-> p.tun, nh |-> r.paths[i].nh] \in s.encap
  BY <1>3, <1>4 DEF SInv, SEncap
<1> QED BY <1>5

\* A deletion takes out of VPP what it takes out of the storage: all paths of
\* the prefix, one by one or with the entry, and the tunnels it was the last
\* to use.
LEMMA DelKeepsClean ==
  ASSUME NEW s, SInv(s), SClean(s), NEW f \in Hosts, s.fip[f] # NoRoute, NEW v \in VRFs,
         NEW d \in DelOutcomes(s.fip[f])
  PROVE  SClean(DelFIPAndTunnel(s, f, s.fip[f], v, d))
<1> DEFINE r == s.fip[f]
           t == DelFIPAndTunnel(s, f, r, v, d)
<1>1. DelDone(s, f, v, d, t)
  BY DelEffect
<1>2. SInv(t)
  BY DelKeepsInv
<1> HIDE DEF t
<1>3. ASSUME "delRoute" \notin Faults, NEW e \in t.fib
      PROVE  t.fip[e.prefix] # NoRoute /\ e \in FibPaths(e.prefix, t.fip[e.prefix])
  <2>1. t.fib = FibDel(s.fib, f, r)
    BY <1>1, <1>3 DEF DelDone, DelOutcomes
  <2>2. e \in s.fib /\ e.prefix \in Hosts
    BY <2>1 DEF FibDel, SInv, SType, FibPathType
  <2>3. s.fip[e.prefix] # NoRoute /\ e \in FibPaths(e.prefix, s.fip[e.prefix])
    BY <1>3, <2>2 DEF SClean
  <2>4. e.prefix # f
    <3> SUFFICES ASSUME e.prefix = f PROVE FALSE
      OBVIOUS
    <3>1. e \in FibPaths(f, r) /\ e.vrf = r.vrf
      BY <2>3 DEF FibPaths
    <3> QED BY <2>1, <2>2, <3>1 DEF FibDel, FibEntry
  <2>5. t.fip[e.prefix] = s.fip[e.prefix]
    BY <1>1, <2>2, <2>4 DEF DelDone, SInv, SType
  <2> QED BY <2>3, <2>5
<1>4. ASSUME "delTunnel" \notin Faults, NEW e \in t.encap
      PROVE  t.tun[e.nh] # NoTunnel /\ t.tun[e.nh].id = e.id
  <2>1. d.tunnels = {}
    BY <1>4 DEF DelOutcomes
  <2>2. e.nh \in NHs /\ s.tun[e.nh] # NoTunnel /\ s.tun[e.nh].id = e.id
    BY <1>1, <1>4 DEF DelDone, SClean, SInv, SType, EncapType
  <2> QED BY <1>1, <2>1, <2>2 DEF DelDone
<1>5. ASSUME Faults \cap {"addTunnel", "addRoute"} = {}, NEW n \in NHs, t.tun[n] # NoTunnel
      PROVE  t.tun[n].served > 0
  <2>1. t.tun[n].served \in Nat
    <3>1. t.tun[n] \in Tunnels
      BY <1>2, <1>5 DEF SInv, SType
    <3> QED BY <3>1 DEF Tunnels
  <2>2. s.tun[n] # NoTunnel /\ s.tun[n].served # 0
    BY <1>1, <1>5 DEF DelDone, SClean
  <2> QED BY <1>1, <1>5, <2>1, <2>2 DEF DelDone
<1>6. SClean(t)
  BY <1>3, <1>4, <1>5 DEF SClean
<1> QED BY <1>6 DEF t

\* What an addition puts into VPP is in the storage; a tunnel without a
\* floating IP is left only where VPP refused a call.
LEMMA AddKeepsClean ==
  ASSUME NEW s, SInv(s), SClean(s), NEW f \in Hosts, s.fip[f] = NoRoute, NEW v \in VRFs,
         NEW r, r.vrf \in VRFs, r.paths \in Seq(Received),
         r.paths # <<>>, Distinct(r.paths),
         NEW a \in AddOutcomes(s, r)
  PROVE  SClean(AddFIPAndTunnel(s, f, r, v, a))
<1> DEFINE t == AddFIPAndTunnel(s, f, r, v, a)
<1>1. (AddStored(s, f, r, v, t) \/ AddRefused(s, t)) /\ AddTunnels(s, t)
  BY AddEffect
<1>2. SInv(t)
  BY AddKeepsInv
<1> HIDE DEF t
<1>3. ASSUME "delRoute" \notin Faults, NEW e \in t.fib
      PROVE  t.fip[e.prefix] # NoRoute /\ e \in FibPaths(e.prefix, t.fip[e.prefix])
  <2>1. \A x \in s.fib : s.fip[x.prefix] # NoRoute /\ x \in FibPaths(x.prefix, s.fip[x.prefix])
    BY <1>3 DEF SClean
  <2>2. CASE e \in s.fib
    <3>1. e.prefix \in Hosts /\ e.prefix # f
      BY <2>1, <2>2 DEF SInv, SType, FibPathType
    <3>2. t.fip[e.prefix] = s.fip[e.prefix]
      BY <1>1, <3>1 DEF AddStored, AddRefused, SInv, SType
    <3> QED BY <2>1, <2>2, <3>2
  <2>3. CASE e \notin s.fib
    <3>1. t.fip[f] # NoRoute /\ e \in FibPaths(f, t.fip[f])
      BY <1>1, <1>3, <2>3 DEF AddStored, AddRefused, FibAdd
    <3>2. e.prefix = f
      BY <3>1 DEF FibPaths
    <3> QED BY <3>1, <3>2
  <2> QED BY <2>2, <2>3
<1>4. ASSUME "delTunnel" \notin Faults, NEW e \in t.encap
      PROVE  t.tun[e.nh] # NoTunnel /\ t.tun[e.nh].id = e.id
  <2>1. CASE e \in s.encap
    <3>1. e.nh \in NHs /\ s.tun[e.nh] # NoTunnel /\ s.tun[e.nh].id = e.id
      BY <1>4, <2>1 DEF SClean, SInv, SType, EncapType
    <3> QED BY <1>1, <3>1 DEF AddTunnels
  <2>2. CASE e \notin s.encap
    BY <1>1, <2>2 DEF AddTunnels
  <2> QED BY <2>1, <2>2
<1>5. ASSUME Faults \cap {"addTunnel", "addRoute"} = {}, NEW n \in NHs, t.tun[n] # NoTunnel
      PROVE  t.tun[n].served > 0
  <2>1. t.tun[n].served \in Nat
    <3>1. t.tun[n] \in Tunnels
      BY <1>2, <1>5 DEF SInv, SType
    <3> QED BY <3>1 DEF Tunnels
  <2>2. s.tun[n] # NoTunnel => s.tun[n].served # 0
    BY <1>5 DEF SClean
  <2> QED BY <1>1, <1>5, <2>1, <2>2 DEF AddStored, AddRefused
<1>6. SClean(t)
  BY <1>3, <1>4, <1>5 DEF SClean
<1> QED BY <1>6 DEF t

\* The state of the process and the records agree.
LEMMA StateClean ==
  /\ NothingLeftBehind <=> (up => SClean(State))
  /\ NoDanglingPath <=> SLive(State)
BY DEF NothingLeftBehind, NoDanglingPath, SClean, SLive, State

\* The new state is a clean record, or what a dying process leaves of one.
LEMMA ApplyKeepsClean ==
  ASSUME NEW s, SInv(s), SClean(s), Apply(s) \/ Die(s)
  PROVE  NothingLeftBehind' /\ NoDanglingPath'
<1>1. SLive(s)
  BY CleanIsLive
<1>2. NoDanglingPath'
  BY <1>1 DEF SLive, Apply, Die, NoDanglingPath
<1>3. NothingLeftBehind'
  BY DEF SClean, Apply, Die, NothingLeftBehind
<1> QED BY <1>2, <1>3

\* Every branch of the callback leaves VPP clean.
LEMMA HandlerKeepsClean ==
  ASSUME IndInv, NothingLeftBehind, NEW u \in Updates, HandleUpdate(u)
  PROVE  NothingLeftBehind' /\ NoDanglingPath'
<1> DEFINE f == u.prefix
<1>1. f \in Hosts /\ u.vrf \in VRFs
  BY ReceivedRoute
<1>2. State.fip = fip /\ SInv(State) /\ SClean(State)
  BY StateInv, StateClean, HandlerCases DEF State
<1>3. CASE fip[f] = NoRoute /\ Installs(u)
  <2> DEFINE r == [vrf |-> u.vrf, paths |-> <<ReceivedPath(u)>>]
  <2>1. PICK a \in AddOutcomes(State, r) : Apply(AddFIPAndTunnel(State, f, r, u.vrf, a))
    BY <1>3 DEF Installs
  <2>2. /\ r.vrf \in VRFs /\ r.paths \in Seq(Received)
        /\ r.paths # <<>> /\ Distinct(r.paths)
    BY ReceivedRoute
  <2> HIDE DEF r
  <2>3. /\ SInv(AddFIPAndTunnel(State, f, r, u.vrf, a))
        /\ SClean(AddFIPAndTunnel(State, f, r, u.vrf, a))
    BY <1>1, <1>2, <1>3, <2>2, AddKeepsInv, AddKeepsClean
  <2> QED BY <2>1, <2>3, ApplyKeepsClean
<1>4. ASSUME fip[f] # NoRoute, NEW d \in DelOutcomes(fip[f])
      PROVE  /\ SInv(DelFIPAndTunnel(State, f, fip[f], u.vrf, d))
             /\ SClean(DelFIPAndTunnel(State, f, fip[f], u.vrf, d))
             /\ DelFIPAndTunnel(State, f, fip[f], u.vrf, d).fip[f] = NoRoute
  <2>1. /\ SInv(DelFIPAndTunnel(State, f, State.fip[f], u.vrf, d))
        /\ SClean(DelFIPAndTunnel(State, f, State.fip[f], u.vrf, d))
    BY <1>1, <1>2, <1>4, DelKeepsInv, DelKeepsClean
  <2>2. DelFIPAndTunnel(State, f, State.fip[f], u.vrf, d).fip[f] = NoRoute
    BY <1>1, <1>2 DEF DelFIPAndTunnel, IndInv, TypeOK
  <2> QED BY <1>2, <2>1, <2>2
<1>5. CASE fip[f] # NoRoute /\ \E q \in Seq(Received) : q # <<>> /\ Distinct(q) /\ Recreates(u, q)
  <2>1. PICK q \in Seq(Received) : q # <<>> /\ Distinct(q) /\ Recreates(u, q)
    BY <1>5
  <2> DEFINE r == [fip[f] EXCEPT !.paths = q]
  <2>2. PICK d \in DelOutcomes(fip[f]) :
          \E a \in AddOutcomes(DelFIPAndTunnel(State, f, fip[f], u.vrf, d), r) :
            Apply(AddFIPAndTunnel(DelFIPAndTunnel(State, f, fip[f], u.vrf, d), f, r, u.vrf, a))
    BY <2>1 DEF Recreates
  <2> DEFINE s == DelFIPAndTunnel(State, f, fip[f], u.vrf, d)
  <2>3. PICK a \in AddOutcomes(s, r) : Apply(AddFIPAndTunnel(s, f, r, u.vrf, a))
    BY <2>2
  <2>4. SInv(s) /\ SClean(s) /\ s.fip[f] = NoRoute
    BY <1>4, <1>5
  <2>5. r.vrf \in VRFs /\ r.paths = q
    BY <1>1, <1>5, StoredRoute DEF Routes
  <2> HIDE DEF s, r
  <2>6. SInv(AddFIPAndTunnel(s, f, r, u.vrf, a)) /\ SClean(AddFIPAndTunnel(s, f, r, u.vrf, a))
    BY <1>1, <2>1, <2>4, <2>5, AddKeepsInv, AddKeepsClean
  <2> QED BY <2>3, <2>6, ApplyKeepsClean
<1>6. CASE fip[f] # NoRoute /\ (Deletes(u) \/ DeletesAndDies(u))
  <2>1. PICK d \in DelOutcomes(fip[f]) :
          \/ Apply(DelFIPAndTunnel(State, f, fip[f], u.vrf, d))
          \/ Die(DelFIPAndTunnel(State, f, fip[f], u.vrf, d))
    BY <1>6 DEF Deletes, DeletesAndDies
  <2> QED BY <1>4, <1>6, <2>1, ApplyKeepsClean
<1> QED BY <1>3, <1>5, <1>6, HandlerCases

\* A crash leaves what the process had installed, a restart clears it.
LEMMA NextKeepsClean ==
  IndInv /\ NothingLeftBehind /\ NoDanglingPath /\ [Next]_vars
    => NothingLeftBehind' /\ NoDanglingPath'
<1> SUFFICES ASSUME IndInv, NothingLeftBehind, NoDanglingPath, [Next]_vars
             PROVE  NothingLeftBehind' /\ NoDanglingPath'
  OBVIOUS
<1>1. CASE \E u \in Updates : HandleUpdate(u)
  BY <1>1, HandlerKeepsClean
<1>2. CASE Crash
  BY <1>2, StateInv, StateClean, ApplyKeepsClean DEF Crash
<1>3. CASE Restart
  <2>1. fib' = {} /\ encap' = {} /\ \A n \in NHs : tun'[n] = NoTunnel
    BY <1>3 DEF Restart, IndInv, DownIsEmpty
  <2> QED BY <2>1 DEF NothingLeftBehind, NoDanglingPath
<1>4. CASE UNCHANGED vars
  BY <1>4 DEF vars, NothingLeftBehind, NoDanglingPath
<1> QED BY <1>1, <1>2, <1>3, <1>4 DEF Next

\* The two invariants hold together: the second one, while the process is
\* down, is what the first one was when it died.
THEOREM CleanHolds == Spec => [](IndInv /\ NothingLeftBehind /\ NoDanglingPath)
<1>1. Init => NothingLeftBehind /\ NoDanglingPath
  BY DEF Init, NothingLeftBehind, NoDanglingPath
<1> QED BY <1>1, InitInv, NextKeepsInv, NextKeepsClean, PTL DEF Spec

\* VPP holds nothing the storage does not know of, for every set of calls
\* VPP may refuse: the deletions of HandleBGPUpdate miss nothing.
THEOREM NothingLeftBehindHolds == Spec => []NothingLeftBehind
BY CleanHolds, PTL

\* No path in VPP's FIB leads into a tunnel that was deleted.
THEOREM NoDanglingPathHolds == Spec => []NoDanglingPath
BY CleanHolds, PTL

-----------------------------------------------------------------------------
(* One update, one floating IP; and what is advertised for its VRF.        *)

\* From s to t nothing happens to prefixes other than f.
Others(s, t, f) ==
  \A g \in Hosts \ {f} :
    /\ t.fip[g] = s.fip[g]
    /\ {e \in t.fib : e.prefix = g} = {e \in s.fib : e.prefix = g}

\* A deletion is about one prefix.
LEMMA DelOthers ==
  ASSUME NEW s, SInv(s), NEW f \in Hosts, s.fip[f] # NoRoute, NEW v, NEW d, NEW t,
         DelDone(s, f, v, d, t)
  PROVE  Others(s, t, f)
<1> SUFFICES ASSUME NEW g \in Hosts \ {f}
             PROVE  /\ t.fip[g] = s.fip[g]
                    /\ {e \in t.fib : e.prefix = g} = {e \in s.fib : e.prefix = g}
  BY DEF Others
<1>1. t.fip[g] = s.fip[g]
  BY DEF DelDone, SInv, SType
<1>2. t.fib = s.fib \/ t.fib = FibDel(s.fib, f, s.fip[f])
  BY DEF DelDone
<1>3. \A e \in FibPaths(f, s.fip[f]) : e.prefix # g
  BY DEF FibPaths
<1>4. \A e \in FibEntry(s.fib, f, s.fip[f]) : e.prefix # g
  BY DEF FibEntry
<1>5. {e \in t.fib : e.prefix = g} = {e \in s.fib : e.prefix = g}
  BY <1>2, <1>3, <1>4 DEF FibDel
<1> QED BY <1>1, <1>5

\* An addition is about one prefix.
LEMMA AddOthers ==
  ASSUME NEW s, SInv(s), NEW f \in Hosts, NEW r, NEW v, NEW t,
         AddStored(s, f, r, v, t) \/ AddRefused(s, t)
  PROVE  Others(s, t, f)
<1> SUFFICES ASSUME NEW g \in Hosts \ {f}
             PROVE  /\ t.fip[g] = s.fip[g]
                    /\ {e \in t.fib : e.prefix = g} = {e \in s.fib : e.prefix = g}
  BY DEF Others
<1>1. t.fip[g] = s.fip[g]
  BY DEF AddStored, AddRefused, SInv, SType
<1>2. t.fib = s.fib \/ t.fib = FibAdd(s.fib, f, t.fip[f])
  BY DEF AddStored, AddRefused
<1>3. \A e \in FibPaths(f, t.fip[f]) : e.prefix # g
  BY DEF FibPaths
<1>4. \A e \in FibEntry(s.fib, f, t.fip[f]) : e.prefix # g
  BY DEF FibEntry
<1>5. {e \in t.fib : e.prefix = g} = {e \in s.fib : e.prefix = g}
  BY <1>2, <1>3, <1>4 DEF FibAdd
<1> QED BY <1>1, <1>5

\* The route targets of a prefix name one VRF, on whatever vRouter it is.
OneVRFPerPrefix ==
  \A f \in Hosts : \A m, n \in NHs : \A v \in Home[f][m], w \in Home[f][n] : v = w

\* AdvertisedIffServed on a state record, with what it rests on: a route is
\* stored in the VRF its route targets name.
SAdv(s) ==
  /\ s.adv = {v \in VRFs : In(s.fip, v) # {}}
  /\ \A f \in Hosts : s.fip[f] # NoRoute => \E n \in NHs : s.fip[f].vrf \in Home[f][n]

\* The counter decides when the prefixes are withdrawn, and it is exact.
LEMMA DelKeepsAdv ==
  ASSUME NEW s, SInv(s), SAdv(s), NEW f \in Hosts, s.fip[f] # NoRoute, NEW d, NEW t, SInv(t),
         DelDone(s, f, s.fip[f].vrf, d, t)
  PROVE  SAdv(t)
<1> DEFINE v == s.fip[f].vrf
<1>1. /\ s.fip \in [Hosts -> Routes \cup {NoRoute}] /\ v \in VRFs
      /\ t.fip = [s.fip EXCEPT ![f] = NoRoute]
      /\ t.adv = IF t.served[v] = 0 THEN s.adv \ {v} ELSE s.adv
  BY DEF DelDone, SInv, SType, Routes
<1>2. \A w \in VRFs : In(t.fip, w) = In(s.fip, w) \ {f}
  BY <1>1, ForgetCount
<1>3. f \in In(s.fip, v) /\ \A w \in VRFs \ {v} : f \notin In(s.fip, w)
  BY DEF In
<1>4. t.served[v] = 0 <=> In(t.fip, v) = {}
  <2>1. t.served[v] = Cardinality(In(t.fip, v)) /\ IsFiniteSet(In(t.fip, v))
    BY <1>1, ViaFinite DEF SInv, SVRFs
  <2> QED BY <2>1, FS_EmptySet
<1> HIDE DEF v
<1>5. t.adv = {w \in VRFs : In(t.fip, w) # {}}
  <2>1. s.adv = {w \in VRFs : In(s.fip, w) # {}}
    BY DEF SAdv
  <2>2. \A w \in VRFs \ {v} : w \in t.adv <=> In(t.fip, w) # {}
    BY <1>1, <1>2, <1>3, <2>1
  <2>3. v \in t.adv <=> In(t.fip, v) # {}
    BY <1>1, <1>3, <1>4, <2>1
  <2> QED BY <1>1, <2>1, <2>2, <2>3
<1>6. \A g \in Hosts : t.fip[g] # NoRoute => t.fip[g] = s.fip[g]
  BY <1>1
<1> QED BY <1>5, <1>6 DEF SAdv

\* A VRF that serves more than two floating IPs had one before.
LEMMA AddKeepsAdv ==
  ASSUME NEW s, SInv(s), SAdv(s), NEW f \in Hosts, s.fip[f] = NoRoute, NEW r, r.vrf \in VRFs,
         NEW n \in NHs, r.vrf \in Home[f][n], NEW t, SInv(t),
         AddStored(s, f, r, r.vrf, t) \/ AddRefused(s, t)
  PROVE  SAdv(t)
<1> DEFINE v == r.vrf
<1>1. CASE AddRefused(s, t)
  BY <1>1 DEF AddRefused, SAdv
<1>2. CASE AddStored(s, f, r, v, t)
  <2>1. /\ s.fip \in [Hosts -> Routes \cup {NoRoute}] /\ s.served \in [VRFs -> Nat]
        /\ t.fip[f] # NoRoute /\ t.fip[f].vrf = v
        /\ t.fip = [s.fip EXCEPT ![f] = t.fip[f]]
        /\ t.served = [s.served EXCEPT ![v] = @ + 1]
        /\ t.adv = IF t.served[v] > 2 THEN s.adv ELSE s.adv \cup {v}
    BY <1>2 DEF AddStored, SameRoute, SInv, SType
  <2>2. \A g \in Hosts \ {f} : t.fip[g] = s.fip[g]
    BY <2>1
  <2>3. f \in In(t.fip, v) /\ \A w \in VRFs \ {v} : In(t.fip, w) = In(s.fip, w)
    BY <2>1, <2>2 DEF In
  <2>4. t.served[v] > 2 => In(s.fip, v) # {}
    <3>1. t.served[v] = s.served[v] + 1 /\ s.served[v] \in Nat
      BY <2>1
    <3>2. s.served[v] = Cardinality(In(s.fip, v))
      BY DEF SInv, SVRFs
    <3>3. Cardinality({}) = 0
      BY FS_EmptySet
    <3> QED BY <3>1, <3>2, <3>3
  <2> HIDE DEF v
  <2>5. t.adv = {w \in VRFs : In(t.fip, w) # {}}
    <3>1. s.adv = {w \in VRFs : In(s.fip, w) # {}} /\ v \in VRFs
      BY DEF SAdv, v
    <3>2. t.adv = s.adv \cup {v}
      BY <2>1, <2>4, <3>1
    <3> QED BY <2>3, <3>1, <3>2
  <2>6. \A g \in Hosts : t.fip[g] # NoRoute => \E m \in NHs : t.fip[g].vrf \in Home[g][m]
    BY <2>1, <2>2 DEF SAdv, v
  <2> QED BY <2>5, <2>6 DEF SAdv
<1> QED BY <1>1, <1>2

\* What a handled update leads to: a good record, or the end of the process
\* with one.
LEMMA HandlerOutcome ==
  ASSUME IndInv, NEW u \in Updates, HandleUpdate(u)
  PROVE  \E t : /\ Apply(t) \/ Die(t)
                /\ SInv(t) /\ Others(State, t, u.prefix)
                /\ OneVRFPerPrefix /\ SAdv(State) => SAdv(t)
<1> DEFINE f == u.prefix
<1>1. f \in Hosts /\ u.vrf \in VRFs /\ u.nh \in NHs /\ u.vrf \in Home[f][u.nh]
  BY ReceivedRoute DEF Updates
<1>2. State.fip = fip /\ SInv(State)
  BY StateInv DEF State
<1>3. CASE fip[f] = NoRoute /\ Installs(u)
  <2> DEFINE r == [vrf |-> u.vrf, paths |-> <<ReceivedPath(u)>>]
  <2>1. PICK a \in AddOutcomes(State, r) : Apply(AddFIPAndTunnel(State, f, r, u.vrf, a))
    BY <1>3 DEF Installs
  <2>2. /\ r.vrf = u.vrf /\ r.paths \in Seq(Received)
        /\ r.paths # <<>> /\ Distinct(r.paths)
    BY ReceivedRoute
  <2> DEFINE t == AddFIPAndTunnel(State, f, r, u.vrf, a)
  <2> HIDE DEF r
  <2>3. SInv(t) /\ (AddStored(State, f, r, u.vrf, t) \/ AddRefused(State, t))
    BY <1>1, <1>2, <1>3, <2>2, AddKeepsInv, AddEffect
  <2> HIDE DEF t
  <2>4. Others(State, t, f)
    BY <1>1, <1>2, <2>3, AddOthers
  <2>5. SAdv(State) => SAdv(t)
    BY <1>1, <1>2, <1>3, <2>2, <2>3, AddKeepsAdv
  <2> QED BY <2>1, <2>3, <2>4, <2>5 DEF t
<1>4. ASSUME fip[f] # NoRoute, NEW d \in DelOutcomes(fip[f])
      PROVE  LET s == DelFIPAndTunnel(State, f, fip[f], u.vrf, d)
             IN  /\ SInv(s) /\ s.fip[f] = NoRoute /\ Others(State, s, f)
                 /\ OneVRFPerPrefix /\ SAdv(State) => fip[f].vrf = u.vrf /\ SAdv(s)
  <2> DEFINE s == DelFIPAndTunnel(State, f, fip[f], u.vrf, d)
  <2>1. SInv(s) /\ DelDone(State, f, u.vrf, d, s)
    <3>1. /\ SInv(DelFIPAndTunnel(State, f, State.fip[f], u.vrf, d))
          /\ DelDone(State, f, u.vrf, d, DelFIPAndTunnel(State, f, State.fip[f], u.vrf, d))
      BY <1>1, <1>2, <1>4, DelKeepsInv, DelEffect
    <3> QED BY <1>2, <3>1
  <2> HIDE DEF s
  <2>2. Others(State, s, f)
    BY <1>1, <1>2, <1>4, <2>1, DelOthers
  <2>3. s.fip[f] = NoRoute
    BY <1>1, <1>2, <2>1 DEF DelDone, SInv, SType
  <2>4. OneVRFPerPrefix /\ SAdv(State) => fip[f].vrf = u.vrf
    BY <1>1, <1>2, <1>4 DEF OneVRFPerPrefix, SAdv
  <2>5. OneVRFPerPrefix /\ SAdv(State) => SAdv(s)
    BY <1>1, <1>2, <1>4, <2>1, <2>4, DelKeepsAdv
  <2> QED BY <2>1, <2>2, <2>3, <2>4, <2>5 DEF s
<1>5. CASE fip[f] # NoRoute /\ \E q \in Seq(Received) : q # <<>> /\ Distinct(q) /\ Recreates(u, q)
  <2>1. PICK q \in Seq(Received) : q # <<>> /\ Distinct(q) /\ Recreates(u, q)
    BY <1>5
  <2> DEFINE r == [fip[f] EXCEPT !.paths = q]
  <2>2. PICK d \in DelOutcomes(fip[f]) :
          \E a \in AddOutcomes(DelFIPAndTunnel(State, f, fip[f], u.vrf, d), r) :
            Apply(AddFIPAndTunnel(DelFIPAndTunnel(State, f, fip[f], u.vrf, d), f, r, u.vrf, a))
    BY <2>1 DEF Recreates
  <2> DEFINE s == DelFIPAndTunnel(State, f, fip[f], u.vrf, d)
  <2>3. PICK a \in AddOutcomes(s, r) : Apply(AddFIPAndTunnel(s, f, r, u.vrf, a))
    BY <2>2
  <2>4. /\ SInv(s) /\ s.fip[f] = NoRoute /\ Others(State, s, f)
        /\ OneVRFPerPrefix /\ SAdv(State) => fip[f].vrf = u.vrf /\ SAdv(s)
    BY <1>4, <1>5
  <2>5. r.vrf \in VRFs /\ r.vrf = fip[f].vrf /\ r.paths = q
    BY <1>1, <1>5, StoredRoute DEF Routes
  <2> DEFINE t == AddFIPAndTunnel(s, f, r, u.vrf, a)
  <2> HIDE DEF s, r
  <2>6. SInv(t) /\ (AddStored(s, f, r, u.vrf, t) \/ AddRefused(s, t))
    BY <1>1, <2>1, <2>4, <2>5, AddKeepsInv, AddEffect
  <2> HIDE DEF t
  <2>7. Others(s, t, f)
    BY <1>1, <2>4, <2>6, AddOthers
  <2>8. Others(State, t, f)
    BY <2>4, <2>7 DEF Others
  <2>9. OneVRFPerPrefix /\ SAdv(State) => SAdv(t)
    BY <1>1, <2>4, <2>5, <2>6, AddKeepsAdv
  <2> QED BY <2>3, <2>6, <2>8, <2>9 DEF t
<1>6. CASE fip[f] # NoRoute /\ (Deletes(u) \/ DeletesAndDies(u))
  <2>1. PICK d \in DelOutcomes(fip[f]) :
          \/ Apply(DelFIPAndTunnel(State, f, fip[f], u.vrf, d))
          \/ Die(DelFIPAndTunnel(State, f, fip[f], u.vrf, d))
    BY <1>6 DEF Deletes, DeletesAndDies
  <2> DEFINE s == DelFIPAndTunnel(State, f, fip[f], u.vrf, d)
  <2>2. /\ SInv(s) /\ Others(State, s, f)
        /\ OneVRFPerPrefix /\ SAdv(State) => SAdv(s)
    BY <1>4, <1>6
  <2> HIDE DEF s
  <2> QED BY <2>1, <2>2 DEF s
<1> QED BY <1>3, <1>5, <1>6, HandlerCases

\* The state and its record agree.
LEMMA StateAdv == SAdv(State) => AdvertisedIffServed
BY DEF SAdv, State, AdvertisedIffServed

\* If the route targets of a prefix name one VRF, the aggregated prefixes of
\* a VRF are advertised exactly while it has a floating IP, although they are
\* withdrawn for the VRF of the update and counted for that of the route.
THEOREM AdvertisedIffServedHolds ==
  ASSUME OneVRFPerPrefix
  PROVE  Spec => []AdvertisedIffServed
<1>1. Init => SAdv(State)
  BY DEF Init, SAdv, State, In
<1>2. IndInv /\ SAdv(State) /\ [Next]_vars => SAdv(State)'
  <2> SUFFICES ASSUME IndInv, SAdv(State), [Next]_vars
               PROVE  SAdv(State)'
    OBVIOUS
  <2>1. ASSUME NEW t, SAdv(t), Apply(t)
        PROVE  SAdv(State)'
    BY <2>1 DEF SAdv, State, Apply
  <2>2. ASSUME NEW t, Die(t)
        PROVE  SAdv(State)'
    BY <2>2 DEF SAdv, State, Die, In
  <2>3. CASE \E u \in Updates : HandleUpdate(u)
    <3>1. PICK t : (Apply(t) \/ Die(t)) /\ SAdv(t)
      BY <2>3, HandlerOutcome
    <3> QED BY <2>1, <2>2, <3>1
  <2>4. CASE Crash
    BY <2>2, <2>4 DEF Crash
  <2>5. CASE Restart
    BY <2>5 DEF Restart, SAdv, State
  <2>6. CASE UNCHANGED vars
    BY <2>6 DEF vars, SAdv, State
  <2> QED BY <2>3, <2>4, <2>5, <2>6 DEF Next
<1> QED BY <1>1, <1>2, IndInvHolds, StateAdv, PTL DEF Spec

-----------------------------------------------------------------------------
(* The handler implements the abstract table.                              *)

\* The (vRouter, label) pairs of a sequence of paths, which is all the table
\* knows of them.
Pairs(q) == {[nh |-> q[i].nh, label |-> q[i].label] : i \in DOMAIN q}

\* The pairs do not depend on the order of the paths.
LEMMA PairsOfSet ==
  ASSUME NEW q
  PROVE  Pairs(q) = {[nh |-> p.nh, label |-> p.label] : p \in ToSet(q)}
BY DEF Pairs, ToSet

\* AddPath: the new pair takes the place of the one via the same next-hop.
LEMMA AddPathPairs ==
  ASSUME NEW q \in Seq(Received), Distinct(q), NEW path \in Received, path.label # 0
  PROVE  Pairs(AddPath(q, path)) =
           {p \in Pairs(q) : p.nh # path.nh} \cup {[nh |-> path.nh, label |-> path.label]}
<1>1. ToSet(AddPath(q, path)) = {p \in ToSet(q) : p.nh # path.nh} \cup {path}
  BY AddPathLemma
<1> QED BY <1>1, PairsOfSet

\* DelPath: the pair via the next-hop goes, and no other one.
LEMMA DelPathPairs ==
  ASSUME NEW q \in Seq(Received), Distinct(q), NEW nh, NEW label, HasPath(q, nh, label)
  PROVE  /\ [nh |-> nh, label |-> label] \in Pairs(q)
         /\ Pairs(DelPath(q, nh)) = Pairs(q) \ {[nh |-> nh, label |-> label]}
         /\ Len(q) = 1 => Pairs(q) = {[nh |-> nh, label |-> label]}
<1> DEFINE pair == [nh |-> nh, label |-> label]
<1>1. PICK i \in DOMAIN q : q[i].nh = nh /\ q[i].label = label
  BY DEF HasPath
<1>2. pair \in Pairs(q) /\ nh \in NextHops(q)
  BY <1>1 DEF Pairs, NextHops
<1>3. \A p \in Pairs(q) : p.nh = nh => p = pair
  <2> SUFFICES ASSUME NEW j \in DOMAIN q, q[j].nh = nh
               PROVE  q[j].label = label
    BY DEF Pairs
  <2> QED BY <1>1 DEF Distinct
<1>4. ToSet(DelPath(q, nh)) = {p \in ToSet(q) : p.nh # nh}
  BY <1>2, DelPathLemma
<1>5. Pairs(DelPath(q, nh)) = {p \in Pairs(q) : p.nh # nh}
  BY <1>4, PairsOfSet
<1>6. Pairs(DelPath(q, nh)) = Pairs(q) \ {pair}
  BY <1>3, <1>5
<1>7. Len(q) = 1 => Pairs(q) = {pair}
  <2> SUFFICES ASSUME Len(q) = 1 PROVE Pairs(q) = {pair}
    OBVIOUS
  <2>1. DOMAIN q = {1}
    BY LenProperties
  <2> QED BY <1>1, <2>1 DEF Pairs
<1> QED BY <1>2, <1>6, <1>7

\* Routes that agree but for their tunnels have the same pairs.
LEMMA SamePairs ==
  ASSUME NEW q, NEW r, SameRoute(q, r)
  PROVE  Pairs(q.paths) = Pairs(r.paths)
BY DEF SameRoute, Pairs

\* The stored pairs of a prefix, in a state record.
SPairs(s, f) == IF s.fip[f] = NoRoute THEN {} ELSE Pairs(s.fip[f].paths)

\* What a handled update makes of its own prefix: the route may be lost if
\* VPP refuses it, label 0 is refused by AddPath, and otherwise the path of
\* the update is learned or forgotten.
LEMMA HandlerPairs ==
  ASSUME IndInv, NEW u \in Updates, HandleUpdate(u), up'
  PROVE  LET f    == u.prefix
             pair == [nh |-> u.nh, label |-> u.label]
             old  == SPairs(State, f)
             new  == SPairs(State, f)'
         IN  \/ Faults \cap {"addTunnel", "addRoute"} # {} /\ new = {}
             \/ ~u.withdraw /\ u.label = 0 /\ fip[f] # NoRoute /\ new = old
             \/ ~u.withdraw /\ new = {p \in old : p.nh # u.nh} \cup {pair}
             \/ u.withdraw /\ pair \in old /\ new = old \ {pair}
<1> DEFINE f    == u.prefix
           pair == [nh |-> u.nh, label |-> u.label]
           old  == SPairs(State, f)
           new  == SPairs(State, f)'
           Goal ==
             \/ Faults \cap {"addTunnel", "addRoute"} # {} /\ new = {}
             \/ ~u.withdraw /\ u.label = 0 /\ fip[f] # NoRoute /\ new = old
             \/ ~u.withdraw /\ new = {p \in old : p.nh # u.nh} \cup {pair}
             \/ u.withdraw /\ pair \in old /\ new = old \ {pair}
<1> SUFFICES Goal
  OBVIOUS
<1>1. f \in Hosts /\ u.vrf \in VRFs
  BY ReceivedRoute
<1>2. State.fip = fip /\ SInv(State)
  BY StateInv DEF State
<1>3. ASSUME NEW t, Apply(t)
      PROVE  new = SPairs(t, f)
  BY <1>3 DEF Apply, SPairs, State
<1>4. ReceivedPath(u).nh = u.nh /\ ReceivedPath(u).label = u.label
  BY DEF ReceivedPath
<1> HIDE DEF new
<1>5. CASE ~u.withdraw /\ fip[f] = NoRoute /\ Installs(u)
  <2> DEFINE r == [vrf |-> u.vrf, paths |-> <<ReceivedPath(u)>>]
  <2>1. PICK a \in AddOutcomes(State, r) : Apply(AddFIPAndTunnel(State, f, r, u.vrf, a))
    BY <1>5 DEF Installs
  <2>2. /\ r.vrf = u.vrf /\ r.paths \in Seq(Received)
        /\ r.paths # <<>> /\ Distinct(r.paths)
    BY ReceivedRoute
  <2>3. Pairs(r.paths) = {pair}
    BY <1>4 DEF Pairs
  <2> DEFINE t == AddFIPAndTunnel(State, f, r, u.vrf, a)
  <2> HIDE DEF r
  <2>4. AddStored(State, f, r, u.vrf, t) \/ AddRefused(State, t)
    BY <1>1, <1>2, <1>5, <2>2, AddEffect
  <2>5. new = SPairs(t, f)
    BY <1>3, <2>1
  <2> HIDE DEF t
  <2>6. old = {}
    BY <1>2, <1>5 DEF SPairs
  <2>7. AddStored(State, f, r, u.vrf, t) => new = {pair}
    BY <2>3, <2>5, SamePairs DEF AddStored, SPairs
  <2>8. AddRefused(State, t) => Faults \cap {"addTunnel", "addRoute"} # {} /\ new = {}
    BY <1>2, <1>5, <2>5 DEF AddRefused, SPairs
  <2> QED BY <1>5, <2>4, <2>6, <2>7, <2>8
<1>6. ASSUME fip[f] # NoRoute
      PROVE  /\ fip[f].paths \in Seq(Received) /\ Distinct(fip[f].paths)
             /\ old = Pairs(fip[f].paths)
  BY <1>1, <1>2, <1>6, StoredRoute DEF SPairs
<1>7. u.withdraw => HasPath(fip[f].paths, u.nh, u.label)
  BY HandlerCases DEF Ignored, IsFIPWithNHAndLabelExist
<1>8. ASSUME NEW q \in Seq(Received), fip[f] # NoRoute, q # <<>>, Distinct(q), Recreates(u, q)
      PROVE  (Faults \cap {"addTunnel", "addRoute"} # {} /\ new = {}) \/ new = Pairs(q)
  <2> DEFINE r == [fip[f] EXCEPT !.paths = q]
  <2>1. PICK d \in DelOutcomes(fip[f]) :
          \E a \in AddOutcomes(DelFIPAndTunnel(State, f, fip[f], u.vrf, d), r) :
            Apply(AddFIPAndTunnel(DelFIPAndTunnel(State, f, fip[f], u.vrf, d), f, r, u.vrf, a))
    BY <1>8 DEF Recreates
  <2> DEFINE s == DelFIPAndTunnel(State, f, fip[f], u.vrf, d)
  <2>2. PICK a \in AddOutcomes(s, r) : Apply(AddFIPAndTunnel(s, f, r, u.vrf, a))
    BY <2>1
  <2>3. SInv(s) /\ s.fip[f] = NoRoute
    <3>1. SInv(DelFIPAndTunnel(State, f, State.fip[f], u.vrf, d))
      BY <1>1, <1>2, <1>8, DelKeepsInv
    <3>2. DelFIPAndTunnel(State, f, State.fip[f], u.vrf, d).fip[f] = NoRoute
      BY <1>1, <1>2 DEF DelFIPAndTunnel, IndInv, TypeOK
    <3> QED BY <1>2, <3>1, <3>2
  <2>4. r.vrf \in VRFs /\ r.paths = q
    BY <1>1, <1>8, StoredRoute DEF Routes
  <2> DEFINE t == AddFIPAndTunnel(s, f, r, u.vrf, a)
  <2> HIDE DEF s, r
  <2>5. AddStored(s, f, r, u.vrf, t) \/ AddRefused(s, t)
    BY <1>1, <1>8, <2>3, <2>4, AddEffect
  <2>6. new = SPairs(t, f)
    BY <1>3, <2>2
  <2> HIDE DEF t
  <2>7. AddStored(s, f, r, u.vrf, t) => new = Pairs(q)
    BY <2>4, <2>6, SamePairs DEF AddStored, SPairs
  <2>8. AddRefused(s, t) => Faults \cap {"addTunnel", "addRoute"} # {} /\ new = {}
    BY <2>3, <2>6 DEF AddRefused, SPairs
  <2> QED BY <2>5, <2>7, <2>8
<1>9. CASE \E q \in Seq(Received) :
             /\ fip[f] # NoRoute /\ q # <<>> /\ Distinct(q) /\ Recreates(u, q)
             /\ ~u.withdraw /\ q = AddPath(fip[f].paths, ReceivedPath(u))
  <2>1. PICK q \in Seq(Received) :
             /\ fip[f] # NoRoute /\ q # <<>> /\ Distinct(q) /\ Recreates(u, q)
             /\ ~u.withdraw /\ q = AddPath(fip[f].paths, ReceivedPath(u))
    BY <1>9
  <2>2. u.label = 0 => Pairs(q) = old
    BY <1>4, <1>6, <2>1 DEF AddPath
  <2>3. u.label # 0 => Pairs(q) = {p \in old : p.nh # u.nh} \cup {pair}
    <3>1. ReceivedPath(u) \in Received
      BY ReceivedRoute
    <3> QED BY <1>4, <1>6, <2>1, <3>1, AddPathPairs
  <2> QED BY <1>8, <2>1, <2>2, <2>3
<1>10. CASE \E q \in Seq(Received) :
              /\ fip[f] # NoRoute /\ q # <<>> /\ Distinct(q) /\ Recreates(u, q)
              /\ u.withdraw /\ q = DelPath(fip[f].paths, u.nh)
  <2>1. PICK q \in Seq(Received) :
              /\ fip[f] # NoRoute /\ q # <<>> /\ Distinct(q) /\ Recreates(u, q)
              /\ u.withdraw /\ q = DelPath(fip[f].paths, u.nh)
    BY <1>10
  <2>2. pair \in old /\ Pairs(q) = old \ {pair}
    BY <1>6, <1>7, <2>1, DelPathPairs
  <2> QED BY <1>8, <2>1, <2>2
<1>11. CASE u.withdraw /\ fip[f] # NoRoute /\ Len(fip[f].paths) = 1 /\ Deletes(u)
  <2>1. PICK d : Apply(DelFIPAndTunnel(State, f, fip[f], u.vrf, d))
    BY <1>11 DEF Deletes
  <2> DEFINE s == DelFIPAndTunnel(State, f, fip[f], u.vrf, d)
  <2>2. s.fip[f] = NoRoute
    BY <1>1, <1>2 DEF DelFIPAndTunnel, IndInv, TypeOK
  <2>3. new = {}
    BY <1>3, <2>1, <2>2 DEF SPairs
  <2>4. old = {pair}
    BY <1>6, <1>7, <1>11, DelPathPairs
  <2> QED BY <1>11, <2>3, <2>4
<1>12. ~DeletesAndDies(u)
  BY DEF DeletesAndDies, Die
<1> QED BY <1>5, <1>9, <1>10, <1>11, <1>12, HandlerCases

\* The abstract table, and the steps of FIPTable on it.
Tbl == [f \in Hosts |-> SPairs(State, f)]

TblStep(A, B) ==
  \/ \E f \in Hosts, nh \in NHs, label \in Labels :
       \/ B = [A EXCEPT ![f] = {p \in A[f] : p.nh # nh} \cup {[nh |-> nh, label |-> label]}]
       \/ /\ [nh |-> nh, label |-> label] \in A[f]
          /\ B = [A EXCEPT ![f] = A[f] \ {[nh |-> nh, label |-> label]}]
  \/ \E f \in Hosts : Faults \cap {"addTunnel", "addRoute"} # {} /\ B = [A EXCEPT ![f] = {}]
  \/ B = [f \in Hosts |-> {}]

\* A step of the handler is a step of the table, or leaves it alone.
LEMMA HandlerTable ==
  ASSUME IndInv, NEW u \in Updates, HandleUpdate(u)
  PROVE  TblStep(Tbl, Tbl') \/ Tbl' = Tbl
<1> DEFINE f    == u.prefix
           pair == [nh |-> u.nh, label |-> u.label]
<1>1. f \in Hosts /\ u.nh \in NHs /\ u.label \in Labels
  BY ReceivedRoute DEF Updates
<1>2. PICK t : (Apply(t) \/ Die(t)) /\ Others(State, t, f)
  BY HandlerOutcome
<1>3. CASE Die(t)
  <2>1. \A g \in Hosts : SPairs(State, g)' = {}
    BY <1>3 DEF Die, SPairs, State
  <2>2. Tbl' = [g \in Hosts |-> {}]
    BY <2>1 DEF Tbl
  <2> QED BY <2>2 DEF TblStep
<1>4. CASE Apply(t)
  <2>1. up' /\ fip' = t.fip
    BY <1>4 DEF Apply
  <2>2. \A g \in Hosts \ {f} : SPairs(State, g)' = SPairs(State, g)
    BY <1>2, <2>1 DEF Others, SPairs, State
  <2>3. Tbl' = [Tbl EXCEPT ![f] = SPairs(State, f)']
    BY <1>1, <2>2 DEF Tbl
  <2>4. Tbl[f] = SPairs(State, f) /\ Tbl = [Tbl EXCEPT ![f] = Tbl[f]]
    BY <1>1 DEF Tbl
  <2>5. \/ Faults \cap {"addTunnel", "addRoute"} # {} /\ SPairs(State, f)' = {}
        \/ SPairs(State, f)' = Tbl[f]
        \/ SPairs(State, f)' = {p \in Tbl[f] : p.nh # u.nh} \cup {pair}
        \/ pair \in Tbl[f] /\ SPairs(State, f)' = Tbl[f] \ {pair}
    BY <2>1, <2>4, HandlerPairs
  <2>6. CASE Faults \cap {"addTunnel", "addRoute"} # {} /\ SPairs(State, f)' = {}
    BY <1>1, <2>3, <2>6 DEF TblStep
  <2>7. CASE SPairs(State, f)' = Tbl[f]
    BY <2>3, <2>4, <2>7
  <2>8. CASE SPairs(State, f)' = {p \in Tbl[f] : p.nh # u.nh} \cup {pair}
    <3>1. Tbl' = [Tbl EXCEPT ![f] = {p \in Tbl[f] : p.nh # u.nh} \cup {pair}]
      BY <2>3, <2>8
    <3> QED BY <1>1, <3>1 DEF TblStep
  <2>9. CASE pair \in Tbl[f] /\ SPairs(State, f)' = Tbl[f] \ {pair}
    <3>1. pair \in Tbl[f] /\ Tbl' = [Tbl EXCEPT ![f] = Tbl[f] \ {pair}]
      BY <2>3, <2>9
    <3> QED BY <1>1, <3>1 DEF TblStep
  <2> QED BY <2>5, <2>6, <2>7, <2>8, <2>9
<1> QED BY <1>2, <1>3, <1>4

\* A step of the specification is a step of the table.
LEMMA NextTable == IndInv /\ [Next]_vars => TblStep(Tbl, Tbl') \/ Tbl' = Tbl
<1> SUFFICES ASSUME IndInv, [Next]_vars
             PROVE  TblStep(Tbl, Tbl') \/ Tbl' = Tbl
  OBVIOUS
<1>1. CASE \E u \in Updates : HandleUpdate(u)
  BY <1>1, HandlerTable
<1>2. CASE Crash
  <2>1. Tbl' = [f \in Hosts |-> {}]
    BY <1>2 DEF Crash, Die, Tbl, SPairs, State
  <2> QED BY <2>1 DEF TblStep
<1>3. CASE Restart \/ UNCHANGED vars
  BY <1>3 DEF Restart, vars, Tbl, SPairs, State
<1> QED BY <1>1, <1>2, <1>3 DEF Next

\* FloatingIP implements the abstract table of FIPTable: whatever VPP
\* answers, an update learns or forgets one path of one floating IP, and
\* only a refused route is lost.
THEOREM ImplementsFIPTableHolds == Spec => ImplementsFIPTable
<1> DEFINE A == [f \in Hosts |-> IF fip[f] = NoRoute THEN {}
                   ELSE {[nh |-> fip[f].paths[i].nh, label |-> fip[f].paths[i].label] :
                           i \in DOMAIN fip[f].paths}]
<1>1. Init => Table!Init
  BY DEF Init, Table!Init, Table!Empty
<1>2. IndInv /\ [Next]_vars => [Table!Next]_A
  <2> SUFFICES ASSUME IndInv, [Next]_vars
               PROVE  Table!Next \/ A' = A
    OBVIOUS
  <2>1. A = Tbl /\ A' = Tbl'
    BY DEF Tbl, SPairs, Pairs, State
  <2> HIDE DEF A
  <2>2. TblStep(A, A') \/ A' = A
    BY <2>1, NextTable
  <2> QED
    BY <2>2 DEF TblStep, A, Table!Next, Table!Learn, Table!Forget, Table!Lose, Table!Reset,
                Table!Empty
<1> QED BY <1>1, <1>2, IndInvHolds, PTL DEF Spec, ImplementsFIPTable, Table!Spec

-----------------------------------------------------------------------------
(* TFSync: the callback catches up with GoBGP.                             *)

\* The update is about the NLRI of prefix f and route distinguisher rd.
Key(u, f, rd) == u.prefix = f /\ u.nh = VRouterOf[rd]

\* What the update says of it.
Val(u) == IF u.withdraw THEN NoPath ELSE u.label

\* The stored pairs S of a prefix say that the path of rd has label val.
Agree(S, rd, val) ==
  \A l \in Labels : [nh |-> VRouterOf[rd], label |-> l] \in S <=> l = val

\* What is known of the NLRI when the callback comes to position i of queue
\* Q: what the last update before i says, or what is stored if there is none.
Before(Q, S, f, rd, i, val) ==
  \/ /\ \A k \in 1..(i - 1) : ~Key(Q[k], f, rd)
     /\ Agree(S, rd, val)
  \/ \E j \in 1..(i - 1) :
       /\ Key(Q[j], f, rd) /\ Val(Q[j]) = val
       /\ \A k \in (j + 1)..(i - 1) : ~Key(Q[k], f, rd)

\* The queue leads from the storage to what GoBGP has announced, and a
\* withdrawal removes the path that is known when its turn comes.
Leads(Q, S, B, f, rd) ==
  /\ Before(Q, S, f, rd, Len(Q) + 1, B[f][rd])
  /\ \A i \in 1..Len(Q) :
       Key(Q[i], f, rd) /\ Q[i].withdraw => Before(Q, S, f, rd, i, Q[i].label)

\* Stored paths come from announced NLRIs.
Known(S) == \A p \in S : \E rd \in RDs, l \in Labels : p = [nh |-> VRouterOf[rd], label |-> l]

SyncType ==
  /\ tf \in [Hosts -> [RDs -> Labels \cup {NoPath}]]
  /\ rib \in [Hosts -> [RDs -> Labels \cup {NoPath}]]
  /\ queue \in Seq(Updates)
  /\ \A i \in 1..Len(queue) : \E rd \in RDs : queue[i].nh = VRouterOf[rd]
  /\ ~up => queue = <<>> /\ rib = NoPaths

SyncInv ==
  \A f \in FIPs :
    /\ Known(StoredPaths(f))
    /\ \A rd \in RDs : Leads(queue, StoredPaths(f), rib, f, rd)

\* A longer queue changes nothing for the positions it had.
LEMMA AppendBefore ==
  ASSUME NEW X, NEW Q \in Seq(X), NEW e \in X, NEW S, NEW f, NEW rd, NEW val,
         NEW i \in 1..(Len(Q) + 1), Before(Q, S, f, rd, i, val)
  PROVE  Before(Append(Q, e), S, f, rd, i, val)
<1>1. Len(Q) \in Nat /\ \A k \in 1..(i - 1) : Append(Q, e)[k] = Q[k]
  BY AppendProperties, LenProperties
<1> QED BY <1>1 DEF Before

\* An update of another NLRI changes nothing for the next position.
LEMMA SkipBefore ==
  ASSUME NEW Q, NEW S, NEW f, NEW rd, NEW val, NEW i \in Nat \ {0},
         Before(Q, S, f, rd, i, val), ~Key(Q[i], f, rd)
  PROVE  Before(Q, S, f, rd, i + 1, val)
<1>1. \A j \in Nat : \A k \in j..i : k \in j..(i - 1) \/ k = i
  OBVIOUS
<1>2. CASE (\A k \in 1..(i - 1) : ~Key(Q[k], f, rd)) /\ Agree(S, rd, val)
  BY <1>1, <1>2 DEF Before
<1>3. CASE \E j \in 1..(i - 1) :
             /\ Key(Q[j], f, rd) /\ Val(Q[j]) = val
             /\ \A k \in (j + 1)..(i - 1) : ~Key(Q[k], f, rd)
  <2>1. PICK j \in 1..(i - 1) :
             /\ Key(Q[j], f, rd) /\ Val(Q[j]) = val
             /\ \A k \in (j + 1)..(i - 1) : ~Key(Q[k], f, rd)
    BY <1>3
  <2>2. j \in 1..((i + 1) - 1) /\ \A k \in (j + 1)..((i + 1) - 1) : ~Key(Q[k], f, rd)
    BY <1>1, <2>1
  <2> QED BY <2>1, <2>2 DEF Before
<1> QED BY <1>2, <1>3 DEF Before

\* The head of the queue has been handled: the stored pairs S became T.
LEMMA TailBefore ==
  ASSUME NEW X, NEW Q \in Seq(X), Q # <<>>, NEW S, NEW T, NEW f, NEW rd, NEW val,
         NEW i \in 2..(Len(Q) + 1), Before(Q, S, f, rd, i, val),
         Key(Head(Q), f, rd) => Agree(T, rd, Val(Head(Q))),
         ~Key(Head(Q), f, rd) /\ Agree(S, rd, val) => Agree(T, rd, val)
  PROVE  Before(Tail(Q), T, f, rd, i - 1, val)
<1>1. /\ Len(Q) \in Nat \ {0} /\ Head(Q) = Q[1]
      /\ \A k \in 1..(Len(Q) - 1) : Tail(Q)[k] = Q[k + 1]
  BY HeadTailProperties, EmptySeq, LenProperties
<1>2. \A k \in 1..((i - 1) - 1) : Tail(Q)[k] = Q[k + 1] /\ k + 1 \in 2..(i - 1)
  BY <1>1
<1>3. CASE (\A k \in 1..(i - 1) : ~Key(Q[k], f, rd)) /\ Agree(S, rd, val)
  <2>1. Agree(T, rd, val)
    BY <1>1, <1>3
  <2>2. \A k \in 1..((i - 1) - 1) : ~Key(Tail(Q)[k], f, rd)
    BY <1>2, <1>3
  <2> QED BY <2>1, <2>2 DEF Before
<1>4. CASE \E j \in 1..(i - 1) :
             /\ Key(Q[j], f, rd) /\ Val(Q[j]) = val
             /\ \A k \in (j + 1)..(i - 1) : ~Key(Q[k], f, rd)
  <2>1. PICK j \in 1..(i - 1) :
             /\ Key(Q[j], f, rd) /\ Val(Q[j]) = val
             /\ \A k \in (j + 1)..(i - 1) : ~Key(Q[k], f, rd)
    BY <1>4
  <2>2. CASE j = 1
    <3>1. Agree(T, rd, val)
      BY <1>1, <2>1, <2>2
    <3>2. \A k \in 1..((i - 1) - 1) : ~Key(Tail(Q)[k], f, rd)
      BY <1>2, <2>1, <2>2
    <3> QED BY <3>1, <3>2 DEF Before
  <2>3. CASE j # 1
    <3>1. j - 1 \in 1..((i - 1) - 1) /\ Tail(Q)[j - 1] = Q[j]
      BY <1>1, <2>1, <2>3
    <3>2. \A k \in ((j - 1) + 1)..((i - 1) - 1) : ~Key(Tail(Q)[k], f, rd)
      <4> SUFFICES ASSUME NEW k \in ((j - 1) + 1)..((i - 1) - 1)
                   PROVE  ~Key(Tail(Q)[k], f, rd)
        OBVIOUS
      <4>1. k \in 1..((i - 1) - 1) /\ k + 1 \in (j + 1)..(i - 1)
        BY <2>1
      <4> QED BY <1>2, <2>1, <4>1
    <3> QED BY <2>1, <3>1, <3>2 DEF Before
  <2> QED BY <2>2, <2>3
<1> QED BY <1>3, <1>4 DEF Before

\* An announcement of GoBGP: the new update is the last one of its NLRI.
LEMMA AppendLeads ==
  ASSUME NEW X, NEW Q \in Seq(X), NEW e \in X, NEW S, NEW B, NEW C, NEW f, NEW rd,
         Leads(Q, S, B, f, rd),
         Key(e, f, rd) => Val(e) = C[f][rd] /\ (e.withdraw => e.label = B[f][rd]),
         ~Key(e, f, rd) => C[f][rd] = B[f][rd]
  PROVE  Leads(Append(Q, e), S, C, f, rd)
<1> DEFINE R == Append(Q, e)
           n == Len(Q)
<1>1. /\ n \in Nat /\ Len(R) = n + 1 /\ R[n + 1] = e
      /\ \A k \in 1..n : R[k] = Q[k]
  BY AppendProperties, LenProperties
<1>2. Before(R, S, f, rd, n + 1, B[f][rd])
  BY <1>1, AppendBefore DEF Leads
<1> HIDE DEF R
<1>3. Before(R, S, f, rd, n + 2, C[f][rd])
  <2>1. CASE Key(e, f, rd)
    <3>1. n + 1 \in 1..((n + 2) - 1) /\ \A k \in ((n + 1) + 1)..((n + 2) - 1) : FALSE
      BY <1>1
    <3> QED BY <1>1, <2>1, <3>1 DEF Before
  <2>2. CASE ~Key(e, f, rd)
    <3>1. Before(R, S, f, rd, (n + 1) + 1, B[f][rd])
      BY <1>1, <1>2, <2>2, SkipBefore
    <3> QED BY <1>1, <2>2, <3>1
  <2> QED BY <2>1, <2>2
<1>4. ASSUME NEW i \in 1..(n + 1), Key(R[i], f, rd), R[i].withdraw
      PROVE  Before(R, S, f, rd, i, R[i].label)
  <2>1. CASE i = n + 1
    BY <1>1, <1>2, <1>4, <2>1
  <2>2. CASE i # n + 1
    <3>1. i \in 1..n /\ R[i] = Q[i]
      BY <1>1, <2>2
    <3>2. Before(Q, S, f, rd, i, R[i].label)
      BY <1>4, <3>1 DEF Leads
    <3> QED BY <1>1, <3>1, <3>2, AppendBefore DEF R
  <2> QED BY <2>1, <2>2
<1>5. Leads(R, S, C, f, rd)
  <2>1. Len(R) + 1 = n + 2
    BY <1>1
  <2> QED BY <1>1, <1>3, <1>4, <2>1 DEF Leads
<1> QED BY <1>5 DEF R

\* The callback has handled the head of the queue.
LEMMA TailLeads ==
  ASSUME NEW X, NEW Q \in Seq(X), Q # <<>>, NEW S, NEW T, NEW B, NEW f, NEW rd,
         Leads(Q, S, B, f, rd),
         Key(Head(Q), f, rd) => Agree(T, rd, Val(Head(Q))),
         ~Key(Head(Q), f, rd) => \A val : Agree(S, rd, val) => Agree(T, rd, val)
  PROVE  Leads(Tail(Q), T, B, f, rd)
<1> DEFINE R == Tail(Q)
<1>1. /\ Len(Q) \in Nat \ {0} /\ Len(R) = Len(Q) - 1
      /\ \A k \in 1..(Len(Q) - 1) : R[k] = Q[k + 1]
  BY HeadTailProperties, EmptySeq, LenProperties
<1>2. ASSUME NEW i \in 2..(Len(Q) + 1), NEW val, Before(Q, S, f, rd, i, val)
      PROVE  Before(R, T, f, rd, i - 1, val)
  BY <1>2, TailBefore
<1> HIDE DEF R
<1>3. Before(R, T, f, rd, Len(R) + 1, B[f][rd])
  <2>1. Before(R, T, f, rd, (Len(Q) + 1) - 1, B[f][rd])
    BY <1>1, <1>2 DEF Leads
  <2>2. (Len(Q) + 1) - 1 = Len(R) + 1
    BY <1>1
  <2> QED BY <2>1, <2>2
<1>4. ASSUME NEW i \in 1..Len(R), Key(R[i], f, rd), R[i].withdraw
      PROVE  Before(R, T, f, rd, i, R[i].label)
  <2>1. i + 1 \in 1..Len(Q) /\ i + 1 \in 2..(Len(Q) + 1) /\ R[i] = Q[i + 1] /\ (i + 1) - 1 = i
    BY <1>1
  <2>2. Before(Q, S, f, rd, i + 1, R[i].label)
    BY <1>4, <2>1 DEF Leads
  <2>3. Before(R, T, f, rd, (i + 1) - 1, R[i].label)
    BY <1>2, <2>1, <2>2
  <2> QED BY <2>1, <2>3
<1>5. Leads(R, T, B, f, rd)
  BY <1>3, <1>4 DEF Leads
<1> QED BY <1>5 DEF R

\* What the early returns of the callback and its handlers make of the path
\* of the update: afterwards the storage agrees with the update.  A path
\* that is announced is stored if it was not, a withdrawn one is removed if
\* it is the one that is known.
LEMMA HandleAgrees ==
  ASSUME 0 \notin Labels, Faults \cap {"addTunnel", "addRoute"} = {},
         IndInv, NEW u \in Updates, up',
         HandleUpdate(u) \/ (Ignored(u) /\ UNCHANGED vars),
         NEW rd \in RDs, u.prefix \in FIPs, u.nh = VRouterOf[rd],
         u.withdraw => Agree(StoredPaths(u.prefix), rd, u.label)
  PROVE  Agree(StoredPaths(u.prefix)', rd, Val(u))
<1> DEFINE f    == u.prefix
           pair == [nh |-> u.nh, label |-> u.label]
           S    == StoredPaths(f)
           T    == StoredPaths(f)'
<1>1. f \in Hosts /\ u.label \in Labels /\ u.nh \in NHs /\ u.withdraw \in BOOLEAN
  BY DEF Updates
<1>2. S = SPairs(State, f) /\ T = SPairs(State, f)'
  BY DEF StoredPaths, SPairs, Pairs, State
<1> SUFFICES ASSUME NEW l \in Labels
             PROVE  [nh |-> u.nh, label |-> l] \in T <=> l = Val(u)
  BY DEF Agree
<1>3. \A p : p = [nh |-> u.nh, label |-> l] /\ p = pair => l = u.label
  OBVIOUS
<1>4. CASE HandleUpdate(u)
  <2>1. \/ ~u.withdraw /\ T = {p \in S : p.nh # u.nh} \cup {pair}
        \/ u.withdraw /\ pair \in S /\ T = S \ {pair}
    BY <1>1, <1>2, <1>4, HandlerPairs
  <2>2. CASE ~u.withdraw /\ T = {p \in S : p.nh # u.nh} \cup {pair}
    BY <1>3, <2>2 DEF Val
  <2>3. CASE u.withdraw /\ T = S \ {pair}
    <3>1. Val(u) = NoPath /\ l # NoPath
      BY <2>3, NoPathAssumption DEF Val
    <3>2. [nh |-> u.nh, label |-> l] \in S => l = u.label
      BY <2>3 DEF Agree
    <3> QED BY <2>3, <3>1, <3>2
  <2> QED BY <2>1, <2>2, <2>3
<1>5. CASE Ignored(u) /\ UNCHANGED vars
  <2>1. T = S
    BY <1>5 DEF vars, StoredPaths
  <2>2. \/ u.withdraw /\ (~IsFIPWithNHAndLabelExist(u) \/ tun[u.nh] = NoTunnel)
        \/ ~u.withdraw /\ IsFIPWithNHAndLabelExist(u)
    BY <1>5 DEF Ignored, IsFIP
  <2>3. IsFIPWithNHAndLabelExist(u) =>
          \E i \in DOMAIN fip[f].paths : fip[f] # NoRoute /\ fip[f].paths[i].nh = u.nh
                                         /\ fip[f].paths[i].label = u.label
    BY DEF IsFIPWithNHAndLabelExist, HasPath
  <2>4. CASE u.withdraw
    \* The path is stored, and with it its tunnel.
    <3>1. pair \in S
      BY <1>1, <2>4 DEF Agree
    <3>2. PICK i \in DOMAIN fip[f].paths :
            fip[f] # NoRoute /\ fip[f].paths[i].nh = u.nh /\ fip[f].paths[i].label = u.label
      BY <3>1 DEF StoredPaths
    <3>3. IsFIPWithNHAndLabelExist(u)
      BY <3>2 DEF IsFIPWithNHAndLabelExist, HasPath
    <3>4. tun[u.nh] # NoTunnel
      BY <1>1, <3>2 DEF IndInv, StoredIsInstalled
    <3> QED BY <2>2, <2>4, <3>3, <3>4
  <2>5. CASE ~u.withdraw
    <3>1. PICK i \in DOMAIN fip[f].paths :
            fip[f] # NoRoute /\ fip[f].paths[i].nh = u.nh /\ fip[f].paths[i].label = u.label
      BY <2>2, <2>3, <2>5
    <3>2. [nh |-> u.nh, label |-> l] \in S =>
            \E j \in DOMAIN fip[f].paths : fip[f].paths[j].nh = u.nh /\ fip[f].paths[j].label = l
      BY <3>1 DEF StoredPaths
    <3>3. Distinct(fip[f].paths)
      BY <1>1, <3>1 DEF IndInv, DistinctNextHops
    <3>4. [nh |-> u.nh, label |-> l] \in S => l = u.label
      BY <3>1, <3>2, <3>3 DEF Distinct
    <3>5. pair \in S
      BY <3>1 DEF StoredPaths
    <3> QED BY <2>1, <2>5, <3>4, <3>5 DEF Val
  <2> QED BY <1>1, <2>4, <2>5
<1> QED BY <1>4, <1>5

\* Paths of other NLRIs stay as they are, and no path comes from nowhere.
LEMMA HandleOthers ==
  ASSUME 0 \notin Labels, Faults \cap {"addTunnel", "addRoute"} = {},
         IndInv, NEW u \in Updates, up',
         HandleUpdate(u) \/ (Ignored(u) /\ UNCHANGED vars),
         NEW f \in FIPs, NEW nh, NEW l, u.prefix # f \/ u.nh # nh
  PROVE  [nh |-> nh, label |-> l] \in StoredPaths(f)' <=> [nh |-> nh, label |-> l] \in StoredPaths(f)
<1>1. f \in Hosts /\ u.label \in Labels
  BY FiniteAssumption DEF Updates
<1>2. CASE Ignored(u) /\ UNCHANGED vars
  BY <1>2 DEF vars, StoredPaths
<1>3. CASE HandleUpdate(u) /\ u.prefix # f
  <2>1. PICK t : (Apply(t) \/ Die(t)) /\ Others(State, t, u.prefix)
    BY <1>3, HandlerOutcome
  <2>2. fip'[f] = fip[f]
    BY <1>1, <1>3, <2>1 DEF Apply, Die, Others, State
  <2> QED BY <2>2 DEF StoredPaths
<1>4. CASE HandleUpdate(u) /\ u.prefix = f
  <2> DEFINE pair == [nh |-> u.nh, label |-> u.label]
             S    == StoredPaths(f)
             T    == StoredPaths(f)'
  <2>1. S = SPairs(State, f) /\ T = SPairs(State, f)'
    BY DEF StoredPaths, SPairs, Pairs, State
  <2>2. \/ T = {p \in S : p.nh # u.nh} \cup {pair}
        \/ T = S \ {pair}
    BY <1>1, <1>4, <2>1, HandlerPairs
  <2>3. [nh |-> nh, label |-> l] # pair /\ [nh |-> nh, label |-> l].nh = nh
    BY <1>4
  <2> QED BY <1>4, <2>2, <2>3
<1> QED BY <1>2, <1>3, <1>4

\* Every stored path belongs to an NLRI, also after the update.
LEMMA HandleKnown ==
  ASSUME 0 \notin Labels, Faults \cap {"addTunnel", "addRoute"} = {},
         IndInv, NEW u \in Updates, up',
         HandleUpdate(u) \/ (Ignored(u) /\ UNCHANGED vars),
         NEW rd \in RDs, u.nh = VRouterOf[rd],
         NEW f \in FIPs, Known(StoredPaths(f))
  PROVE  Known(StoredPaths(f)')
<1>1. f \in Hosts /\ u.label \in Labels
  BY FiniteAssumption DEF Updates
<1>2. CASE Ignored(u) /\ UNCHANGED vars
  BY <1>2 DEF vars, StoredPaths
<1>3. CASE HandleUpdate(u) /\ u.prefix # f
  <2>1. PICK t : (Apply(t) \/ Die(t)) /\ Others(State, t, u.prefix)
    BY <1>3, HandlerOutcome
  <2>2. fip'[f] = fip[f]
    BY <1>1, <1>3, <2>1 DEF Apply, Die, Others, State
  <2>3. StoredPaths(f)' = StoredPaths(f)
    BY <2>2 DEF StoredPaths
  <2> QED BY <2>3
<1>4. CASE HandleUpdate(u) /\ u.prefix = f
  <2> DEFINE pair == [nh |-> u.nh, label |-> u.label]
             S    == StoredPaths(f)
             T    == StoredPaths(f)'
  <2>1. S = SPairs(State, f) /\ T = SPairs(State, f)'
    BY DEF StoredPaths, SPairs, Pairs, State
  <2>2. \/ T = {p \in S : p.nh # u.nh} \cup {pair}
        \/ T = S \ {pair}
    BY <1>1, <1>4, <2>1, HandlerPairs
  <2>3. T \subseteq S \cup {pair}
    BY <2>2
  <2> QED BY <1>1, <2>3 DEF Known
<1> QED BY <1>2, <1>3, <1>4

\* GoBGP sends well-formed updates, of NLRIs it knows.
LEMMA AnnouncedUpdate ==
  ASSUME SyncType, NEW f \in Hosts, NEW rd \in RDs, Announce(f, rd)
  PROVE  \E e \in Updates :
           /\ queue' = Append(queue, e) /\ Key(e, f, rd)
           /\ Val(e) = tf[f][rd] /\ (e.withdraw => e.label = rib[f][rd])
           /\ rib' = [rib EXCEPT ![f][rd] = tf[f][rd]]
<1>1. PICK v \in Home[f][VRouterOf[rd]] :
        queue' = Append(queue,
          [vrf |-> v, prefix |-> f, nh |-> VRouterOf[rd],
           label    |-> IF tf[f][rd] = NoPath THEN rib[f][rd] ELSE tf[f][rd],
           withdraw |-> tf[f][rd] = NoPath])
  BY DEF Announce
<1> DEFINE e == [vrf |-> v, prefix |-> f, nh |-> VRouterOf[rd],
                 label    |-> IF tf[f][rd] = NoPath THEN rib[f][rd] ELSE tf[f][rd],
                 withdraw |-> tf[f][rd] = NoPath]
<1>2. /\ tf[f][rd] \in Labels \cup {NoPath} /\ rib[f][rd] \in Labels \cup {NoPath}
      /\ rib[f][rd] # tf[f][rd]
  BY DEF SyncType, Announce
<1>3. VRouterOf[rd] \in NHs /\ v \in VRFs
  BY VRouterAssumption, HomeAssumption
<1>4. /\ e.vrf = v /\ e.prefix = f /\ e.nh = VRouterOf[rd]
      /\ e.label = IF tf[f][rd] = NoPath THEN rib[f][rd] ELSE tf[f][rd]
      /\ e.withdraw = (tf[f][rd] = NoPath)
  OBVIOUS
<1>5. e.label \in Labels
  BY <1>2, <1>4
<1>6. e \in Updates
  <2>1. e \in [vrf : VRFs, prefix : Hosts, nh : NHs, label : Labels, withdraw : BOOLEAN]
    BY <1>3, <1>5
  <2> HIDE DEF e
  <2> QED BY <1>4, <2>1 DEF Updates
<1>7. Val(e) = tf[f][rd] /\ (e.withdraw => e.label = rib[f][rd])
  BY <1>4 DEF Val
<1>8. rib' = [rib EXCEPT ![f][rd] = tf[f][rd]]
  BY DEF Announce
<1> HIDE DEF e
<1>9. queue' = Append(queue, e)
  BY <1>1 DEF e
<1> QED BY <1>4, <1>6, <1>7, <1>8, <1>9 DEF Key

\* The head of the queue is such an update.
LEMMA HeadUpdate ==
  ASSUME SyncType, queue # <<>>
  PROVE  /\ Head(queue) \in Updates /\ Tail(queue) \in Seq(Updates)
         /\ \E rd \in RDs : Head(queue).nh = VRouterOf[rd]
         /\ Head(queue) = queue[1] /\ Len(queue) \in Nat \ {0}
<1>1. queue \in Seq(Updates)
  BY DEF SyncType
<1>2. /\ Head(queue) \in Updates /\ Tail(queue) \in Seq(Updates)
      /\ Head(queue) = queue[1] /\ Len(queue) \in Nat \ {0}
  BY <1>1, HeadTailProperties, EmptySeq, LenProperties
<1>3. 1 \in 1..Len(queue)
  BY <1>2
<1> QED BY <1>2, <1>3 DEF SyncType

\* A step of TFSync is a step of FloatingIP or leaves it alone.
LEMMA SyncIsNext == SyncType /\ [SyncNext]_allVars => [Next]_vars
<1> SUFFICES ASSUME SyncType, [SyncNext]_allVars
             PROVE  [Next]_vars
  OBVIOUS
<1>1. CASE \E f \in Hosts, rd \in RDs :
             (\E label \in Labels \cup {NoPath} : TFChange(f, rd, label)) \/ Announce(f, rd)
  BY <1>1 DEF TFChange, Announce
<1>2. CASE Handle
  <2>1. HandleUpdate(Head(queue)) \/ UNCHANGED vars
    BY <1>2 DEF Handle
  <2>2. Head(queue) \in Updates
    BY <1>2, HeadUpdate DEF Handle
  <2> QED BY <2>1, <2>2 DEF Next
<1>3. CASE SyncCrash \/ SyncRestart
  BY <1>3 DEF SyncCrash, SyncRestart, Next
<1>4. CASE UNCHANGED allVars
  BY <1>4 DEF allVars
<1> QED BY <1>1, <1>2, <1>3, <1>4 DEF SyncNext

\* What Tungsten Fabric, GoBGP and the queue hold keeps its shape.
LEMMA SyncKeepsType == SyncType /\ [SyncNext]_allVars => SyncType'
<1> SUFFICES ASSUME SyncType, [SyncNext]_allVars
             PROVE  SyncType'
  OBVIOUS
<1>0. NoPaths \in [Hosts -> [RDs -> Labels \cup {NoPath}]]
  BY DEF NoPaths
<1>1. ASSUME NEW f \in Hosts, NEW rd \in RDs, NEW label \in Labels \cup {NoPath},
             TFChange(f, rd, label)
      PROVE  SyncType'
  BY <1>1 DEF TFChange, SyncType, vars
<1>2. ASSUME NEW f \in Hosts, NEW rd \in RDs, Announce(f, rd)
      PROVE  SyncType'
  <2>1. PICK e \in Updates :
           /\ queue' = Append(queue, e) /\ Key(e, f, rd)
           /\ rib' = [rib EXCEPT ![f][rd] = tf[f][rd]]
    BY <1>2, AnnouncedUpdate
  <2>2. up /\ up' /\ tf' = tf
    BY <1>2 DEF Announce, vars
  <2>3. tf' \in [Hosts -> [RDs -> Labels \cup {NoPath}]]
        /\ rib' \in [Hosts -> [RDs -> Labels \cup {NoPath}]]
    BY <2>1, <2>2 DEF SyncType
  <2>4. /\ queue' \in Seq(Updates) /\ Len(queue') = Len(queue) + 1 /\ Len(queue) \in Nat
        /\ queue'[Len(queue) + 1] = e /\ \A i \in 1..Len(queue) : queue'[i] = queue[i]
    BY <2>1, AppendProperties, LenProperties DEF SyncType
  <2>5. \A i \in 1..Len(queue') : i \in 1..Len(queue) \/ i = Len(queue) + 1
    BY <2>4
  <2>6. \A i \in 1..Len(queue') : \E q \in RDs : queue'[i].nh = VRouterOf[q]
    BY <2>1, <2>4, <2>5 DEF SyncType, Key
  <2> QED BY <2>2, <2>3, <2>4, <2>6 DEF SyncType
<1>3. ASSUME queue' = <<>>, rib' = NoPaths, tf' = tf
      PROVE  SyncType'
  BY <1>0, <1>3 DEF SyncType
<1>4. CASE Handle
  <2>1. CASE up'
    <3>1. queue # <<>> /\ queue' = Tail(queue) /\ rib' = rib /\ tf' = tf
      BY <1>4, <2>1 DEF Handle
    <3>2. /\ queue' \in Seq(Updates) /\ Len(queue') = Len(queue) - 1 /\ Len(queue) \in Nat
          /\ \A i \in 1..Len(queue') : queue'[i] = queue[i + 1] /\ i + 1 \in 1..Len(queue)
      BY <3>1, HeadTailProperties, LenProperties DEF SyncType
    <3> QED BY <2>1, <3>1, <3>2 DEF SyncType
  <2>2. CASE ~up'
    BY <1>3, <1>4, <2>2 DEF Handle
  <2> QED BY <2>1, <2>2
<1>5. CASE SyncCrash
  BY <1>3, <1>5 DEF SyncCrash
<1>6. CASE SyncRestart
  BY <1>6 DEF SyncRestart, syncVars, SyncType, Restart
<1>7. CASE UNCHANGED allVars
  BY <1>7 DEF allVars, syncVars, vars, SyncType
<1> QED BY <1>1, <1>2, <1>4, <1>5, <1>6, <1>7 DEF SyncNext

\* The composition with Tungsten Fabric and GoBGP is a use of FloatingIP: all
\* that is proved of it holds here.
THEOREM SyncImplementsFloatingIP == SyncSafetySpec => Spec
<1>1. SyncInit => Init /\ SyncType
  <2> SUFFICES ASSUME SyncInit PROVE SyncType
    BY DEF SyncInit
  <2> QED BY DEF SyncInit, Init, SyncType, NoPaths
<1> QED BY <1>1, SyncKeepsType, SyncIsNext, PTL DEF SyncSafetySpec, Spec

\* Every vRouter has one route distinguisher: with two, a withdrawal of one
\* NLRI would remove the path that both of them stored.
OneRDPerVRouter == \A q, r \in RDs : VRouterOf[q] = VRouterOf[r] => q = r

\* Nothing is stored, queued or announced.
LEMMA EmptyAgrees ==
  ASSUME NEW S, S = {}, NEW Q, Q = <<>>, NEW B, B = NoPaths, NEW f \in Hosts
  PROVE  Known(S) /\ \A rd \in RDs : Leads(Q, S, B, f, rd)
<1>1. Known(S)
  BY DEF Known
<1>2. ASSUME NEW rd \in RDs PROVE Leads(Q, S, B, f, rd)
  <2>1. B[f][rd] = NoPath
    BY DEF NoPaths
  <2>2. Agree(S, rd, B[f][rd])
    BY <2>1, NoPathAssumption DEF Agree
  <2>3. Len(Q) = 0
    OBVIOUS
  <2>4. (\A k \in 1..((Len(Q) + 1) - 1) : FALSE) /\ (\A k \in 1..Len(Q) : FALSE)
    BY <2>3
  <2> QED BY <2>2, <2>4 DEF Leads, Before
<1> QED BY <1>1, <1>2

\* An update that is queued leaves the queue leading to what GoBGP has told.
LEMMA AnnounceKeepsSync ==
  ASSUME OneRDPerVRouter, SyncType, SyncInv,
         NEW g \in Hosts, NEW q \in RDs, Announce(g, q)
  PROVE  SyncInv'
<1>1. PICK e \in Updates :
        /\ queue' = Append(queue, e) /\ Key(e, g, q)
        /\ Val(e) = tf[g][q] /\ (e.withdraw => e.label = rib[g][q])
        /\ rib' = [rib EXCEPT ![g][q] = tf[g][q]]
  BY AnnouncedUpdate
<1>2. \A f : StoredPaths(f)' = StoredPaths(f)
  BY DEF Announce, vars, StoredPaths
<1>3. ASSUME NEW f \in FIPs, NEW rd \in RDs
      PROVE  Leads(Append(queue, e), StoredPaths(f), rib', f, rd)
  <2>1. f \in Hosts /\ Leads(queue, StoredPaths(f), rib, f, rd) /\ queue \in Seq(Updates)
    BY FiniteAssumption DEF SyncInv, SyncType
  <2>2. Key(e, f, rd) => f = g /\ rd = q
    BY <1>1 DEF Key, OneRDPerVRouter
  <2>3. f = g /\ rd = q => Key(e, f, rd)
    BY <1>1
  <2>4. rib'[f][rd] = IF f = g /\ rd = q THEN tf[g][q] ELSE rib[f][rd]
    BY <1>1, <2>1 DEF SyncType
  <2>5. Key(e, f, rd) => Val(e) = rib'[f][rd] /\ (e.withdraw => e.label = rib[f][rd])
    BY <1>1, <2>2, <2>4
  <2>6. ~Key(e, f, rd) => rib'[f][rd] = rib[f][rd]
    BY <2>3, <2>4
  <2> QED BY <2>1, <2>5, <2>6, AppendLeads
<1> QED BY <1>1, <1>2, <1>3 DEF SyncInv

\* So does an update that is handled.
LEMMA HandleKeepsSync ==
  ASSUME 0 \notin Labels, Faults \cap {"addTunnel", "addRoute"} = {},
         IndInv, SyncType, SyncInv, Handle, up'
  PROVE  SyncInv'
<1>0. PICK u \in Updates : u = Head(queue)
  BY HeadUpdate DEF Handle
<1>1. /\ queue # <<>> /\ queue \in Seq(Updates)
      /\ u = queue[1] /\ Len(queue) \in Nat \ {0}
      /\ queue' = Tail(queue) /\ rib' = rib
      /\ HandleUpdate(u) \/ (Ignored(u) /\ UNCHANGED vars)
  BY <1>0, HeadUpdate DEF Handle, SyncType
<1>2. PICK q \in RDs : u.nh = VRouterOf[q]
  BY <1>0, <1>1, HeadUpdate
<1>3. ASSUME NEW f \in FIPs PROVE Known(StoredPaths(f)')
  <2>1. Known(StoredPaths(f))
    BY DEF SyncInv
  <2> QED BY <1>1, <1>2, <2>1, HandleKnown
<1>4. ASSUME NEW f \in FIPs, NEW rd \in RDs
      PROVE  Leads(Tail(queue), StoredPaths(f)', rib, f, rd)
  <2>1. Leads(queue, StoredPaths(f), rib, f, rd)
    BY DEF SyncInv
  <2>2. ASSUME Key(u, f, rd) PROVE Agree(StoredPaths(f)', rd, Val(u))
    <3>1. u.prefix = f /\ u.nh = VRouterOf[rd]
      BY <2>2 DEF Key
    <3>2. ASSUME u.withdraw PROVE Agree(StoredPaths(u.prefix), rd, u.label)
      <4>1. 1 \in 1..Len(queue)
        BY <1>1
      <4>2. Before(queue, StoredPaths(f), f, rd, 1, u.label)
        BY <1>1, <2>1, <2>2, <3>2, <4>1 DEF Leads
      <4>3. \A j \in 1..(1 - 1) : FALSE
        OBVIOUS
      <4> QED BY <3>1, <4>2, <4>3 DEF Before
    <3>3. u.prefix \in FIPs
      BY <3>1
    <3> QED BY <1>1, <3>1, <3>2, <3>3, HandleAgrees
  <2>3. ASSUME ~Key(u, f, rd), NEW val, Agree(StoredPaths(f), rd, val)
        PROVE  Agree(StoredPaths(f)', rd, val)
    <3>1. u.prefix # f \/ u.nh # VRouterOf[rd]
      BY <2>3 DEF Key
    <3>2. \A l \in Labels : [nh |-> VRouterOf[rd], label |-> l] \in StoredPaths(f)'
                            <=> [nh |-> VRouterOf[rd], label |-> l] \in StoredPaths(f)
      BY <1>1, <3>1, HandleOthers
    <3> QED BY <2>3, <3>2 DEF Agree
  <2> QED BY <1>0, <1>1, <2>1, <2>2, <2>3, TailLeads
<1> QED BY <1>1, <1>3, <1>4 DEF SyncInv

\* A process that dies loses the queue, GoBGP and the storage together.
LEMMA DeathKeepsSync ==
  ASSUME NEW t, Die(t), queue' = <<>>, rib' = NoPaths
  PROVE  SyncInv'
<1>1. ASSUME NEW f \in FIPs PROVE f \in Hosts /\ StoredPaths(f)' = {}
  BY FiniteAssumption DEF Die, StoredPaths
<1>2. ASSUME NEW f \in FIPs
      PROVE  Known(StoredPaths(f)') /\ \A rd \in RDs : Leads(queue', StoredPaths(f)', rib', f, rd)
  BY <1>1, EmptyAgrees
<1> QED BY <1>2 DEF SyncInv

LEMMA NextKeepsSync ==
  ASSUME 0 \notin Labels, Faults \cap {"addTunnel", "addRoute"} = {}, OneRDPerVRouter,
         IndInv, SyncType, SyncInv, [SyncNext]_allVars
  PROVE  SyncInv'
<1>1. CASE queue' = queue /\ rib' = rib /\ fip' = fip
  BY <1>1 DEF SyncInv, StoredPaths
<1>2. ASSUME NEW f \in Hosts, NEW rd \in RDs, Announce(f, rd) PROVE SyncInv'
  BY <1>2, AnnounceKeepsSync
<1>3. CASE Handle
  <2>1. CASE up'
    BY <1>3, <2>1, HandleKeepsSync
  <2>2. CASE ~up'
    <3>1. /\ HandleUpdate(Head(queue)) /\ Head(queue) \in Updates
          /\ queue' = <<>> /\ rib' = NoPaths /\ up
      BY <1>3, <2>2, HeadUpdate DEF Handle, vars
    <3>2. PICK t : Apply(t) \/ Die(t)
      BY <3>1, HandlerOutcome
    <3>3. Die(t)
      BY <2>2, <3>1, <3>2 DEF Apply
    <3> QED BY <3>1, <3>3, DeathKeepsSync
  <2> QED BY <2>1, <2>2
<1>4. CASE SyncCrash
  BY <1>4, DeathKeepsSync DEF SyncCrash, Crash
<1>5. ASSUME NEW f \in Hosts, NEW rd \in RDs, NEW label \in Labels \cup {NoPath},
             TFChange(f, rd, label)
      PROVE  SyncInv'
  BY <1>1, <1>5 DEF TFChange, vars
<1>6. CASE SyncRestart \/ UNCHANGED allVars
  BY <1>1, <1>6 DEF SyncRestart, Restart, allVars, syncVars, vars
<1> QED BY <1>2, <1>3, <1>4, <1>5, <1>6 DEF SyncNext

\* With an empty queue the storage agrees with GoBGP on every NLRI.
LEMMA SyncedIsCaughtUp == SyncType /\ SyncInv => CaughtUp
<1> SUFFICES ASSUME SyncType, SyncInv, queue = <<>>, NEW f \in FIPs
             PROVE  StoredPaths(f) = PathsOf(rib, f)
  BY DEF CaughtUp
<1>1. f \in Hosts
  BY FiniteAssumption
<1>2. ASSUME NEW rd \in RDs PROVE Agree(StoredPaths(f), rd, rib[f][rd])
  <2>1. Leads(queue, StoredPaths(f), rib, f, rd)
    BY DEF SyncInv
  <2>2. Len(queue) = 0
    OBVIOUS
  <2>3. Before(queue, StoredPaths(f), f, rd, Len(queue) + 1, rib[f][rd])
    BY <2>1 DEF Leads
  <2>4. \A j \in 1..((Len(queue) + 1) - 1) : FALSE
    BY <2>2
  <2> QED BY <2>3, <2>4 DEF Before
<1>3. ASSUME NEW p \in StoredPaths(f) PROVE p \in PathsOf(rib, f)
  <2>1. PICK rd \in RDs, l \in Labels : p = [nh |-> VRouterOf[rd], label |-> l]
    BY <1>3 DEF SyncInv, Known
  <2>2. l = rib[f][rd]
    BY <1>2, <1>3, <2>1 DEF Agree
  <2>3. rib[f][rd] # NoPath
    BY <2>1, <2>2, NoPathAssumption
  <2> QED BY <2>1, <2>2, <2>3 DEF PathsOf
<1>4. ASSUME NEW p \in PathsOf(rib, f) PROVE p \in StoredPaths(f)
  <2>1. PICK rd \in RDs : rib[f][rd] # NoPath /\ p = [nh |-> VRouterOf[rd], label |-> rib[f][rd]]
    BY <1>4 DEF PathsOf
  <2>2. rib[f][rd] \in Labels
    BY <1>1, <2>1 DEF SyncType
  <2> QED BY <1>2, <2>1, <2>2 DEF Agree
<1> QED BY <1>3, <1>4

\* When the callback has handled every update, the stored floating IPs are
\* exactly what GoBGP told it, whatever was announced, withdrawn and
\* announced again in between, after any number of panics, crashes and
\* restarts: for a gateway whose VPP refuses no new tunnel or route (a
\* refused one is dropped for good) and vRouters with one route
\* distinguisher each.
THEOREM CaughtUpHolds ==
  ASSUME 0 \notin Labels, Faults \cap {"addTunnel", "addRoute"} = {}, OneRDPerVRouter
  PROVE  SyncSafetySpec => []CaughtUp
<1>1. SyncInit => Init /\ SyncType /\ SyncInv
  <2> SUFFICES ASSUME SyncInit PROVE SyncType /\ SyncInv
    BY DEF SyncInit
  <2>1. SyncType
    BY DEF SyncInit, Init, SyncType, NoPaths
  <2>2. ASSUME NEW f \in FIPs PROVE f \in Hosts /\ StoredPaths(f) = {}
    BY FiniteAssumption DEF SyncInit, Init, StoredPaths
  <2>3. queue = <<>> /\ rib = NoPaths
    BY DEF SyncInit
  <2>4. ASSUME NEW f \in FIPs
        PROVE  Known(StoredPaths(f)) /\ \A rd \in RDs : Leads(queue, StoredPaths(f), rib, f, rd)
    BY <2>2, <2>3, EmptyAgrees
  <2> QED BY <2>1, <2>4 DEF SyncInv
<1>2. IndInv /\ SyncType /\ SyncInv /\ [SyncNext]_allVars => SyncInv'
  BY NextKeepsSync
<1> QED BY <1>1, <1>2, SyncKeepsType, SyncedIsCaughtUp, SyncImplementsFloatingIP, IndInvHolds,
           PTL DEF SyncSafetySpec
=============================================================================

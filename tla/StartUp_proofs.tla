--------------------------- MODULE StartUp_proofs ---------------------------
(***************************************************************************)
(* initVPP for any configurations, leftovers, failures and restarts: what  *)
(* is cleared is empty, and what is ready is configured.                   *)
(*                                                                         *)
(* The properties speak of the end of a function.  The invariant says what *)
(* holds at every place before it: what the loops have done so far is what *)
(* the remaining visits (left) are not about.                              *)
(***************************************************************************)
EXTENDS StartUp, SequenceTheorems, FiniteSetTheorems, TLAPS

\* The VRFs of the configuration, and those the present loop is done with.
Configured == Range(VRFsOf(cfg))
Done == Configured \ Range(left)

Distinct(s) == \A i, j \in 1..Len(s) : s[i] = s[j] => i = j

-----------------------------------------------------------------------------
(* Sequences of VRFs.                                                      *)

\* Cutting position i out of a sequence shifts what follows by one.
LEMMA RemoveAtLemma ==
  ASSUME NEW S, NEW s \in Seq(S), NEW i \in 1..Len(s)
  PROVE  /\ RemoveAt(s, i) \in Seq(S)
         /\ Len(RemoveAt(s, i)) = Len(s) - 1
         /\ \A j \in 1..(Len(s) - 1) :
              RemoveAt(s, i)[j] = IF j < i THEN s[j] ELSE s[j + 1]
<1> DEFINE a == SubSeq(s, 1, i - 1)
           b == SubSeq(s, i + 1, Len(s))
<1>0. /\ Len(s) \in Nat
      /\ \A j \in 1..Len(s) : s[j] \in S
  BY LenProperties, ElementOfSeq
<1>1. /\ a \in Seq(S) /\ Len(a) = i - 1
      /\ \A j \in 1..(i - 1) : a[j] = s[j]
  <2>1. \A j \in 1..(i - 1) : s[j] \in S
    BY <1>0
  <2>2. /\ SubSeq(s, 1, i - 1) \in Seq(S)
        /\ Len(SubSeq(s, 1, i - 1)) = IF 1 <= i - 1 THEN (i - 1) - 1 + 1 ELSE 0
        /\ \A j \in 1..((i - 1) - 1 + 1) : SubSeq(s, 1, i - 1)[j] = s[1 + j - 1]
    BY <1>0, <2>1, SubSeqProperties
  <2> QED BY <1>0, <2>2
<1>2. /\ b \in Seq(S) /\ Len(b) = Len(s) - i
      /\ \A j \in 1..(Len(s) - i) : b[j] = s[i + j]
  <2>1. \A j \in (i + 1)..Len(s) : s[j] \in S
    BY <1>0
  <2>2. /\ SubSeq(s, i + 1, Len(s)) \in Seq(S)
        /\ Len(SubSeq(s, i + 1, Len(s))) =
             IF i + 1 <= Len(s) THEN Len(s) - (i + 1) + 1 ELSE 0
        /\ \A j \in 1..(Len(s) - (i + 1) + 1) :
             SubSeq(s, i + 1, Len(s))[j] = s[(i + 1) + j - 1]
    BY <1>0, <2>1, SubSeqProperties
  <2> QED BY <1>0, <2>2
<1>3. /\ a \o b \in Seq(S)
      /\ Len(a \o b) = Len(a) + Len(b)
      /\ \A j \in 1..(Len(a) + Len(b)) :
           (a \o b)[j] = IF j <= Len(a) THEN a[j] ELSE b[j - Len(a)]
  BY <1>1, <1>2, ConcatProperties
<1>4. RemoveAt(s, i) = a \o b
  BY DEF RemoveAt
<1> HIDE DEF a, b
<1>5. /\ RemoveAt(s, i) \in Seq(S)
      /\ Len(RemoveAt(s, i)) = Len(s) - 1
  BY <1>0, <1>1, <1>2, <1>3, <1>4
<1>6. ASSUME NEW j \in 1..(Len(s) - 1)
      PROVE  RemoveAt(s, i)[j] = IF j < i THEN s[j] ELSE s[j + 1]
  <2>1. (a \o b)[j] = IF j <= i - 1 THEN a[j] ELSE b[j - (i - 1)]
    BY <1>0, <1>1, <1>2, <1>3
  <2>2. CASE j < i
    BY <1>0, <1>1, <1>4, <2>1, <2>2
  <2>3. CASE ~(j < i)
    <3>1. j - (i - 1) \in 1..(Len(s) - i) /\ i + (j - (i - 1)) = j + 1
      BY <1>0, <2>3
    <3> QED BY <1>0, <1>2, <1>4, <2>1, <2>3, <3>1
  <2> QED BY <2>2, <2>3
<1> QED BY <1>5, <1>6

\* A sequence as long as its range is large has no duplicates.
LEMMA DistinctLemma ==
  ASSUME NEW S, NEW s \in Seq(S), Len(s) = Cardinality(Range(s))
  PROVE  Distinct(s)
<1>1. Len(s) \in Nat /\ s \in [1..Len(s) -> S] /\ DOMAIN s = 1..Len(s)
  BY LenProperties
<1>2. IsFiniteSet(1..Len(s)) /\ Cardinality(1..Len(s)) = Len(s)
  BY <1>1, FS_Interval
<1>3. s \in Surjection(1..Len(s), Range(s))
  BY <1>1 DEF Range, Surjection
<1>4. s \in Injection(1..Len(s), Range(s))
  BY <1>2, <1>3, FS_SurjSameCardinalityImpliesInj
<1> QED BY <1>1, <1>4 DEF Injection, IsInjective, Distinct

\* The loops visit every VRF of the configuration once.
LEMMA VRFsOfLemma ==
  ASSUME NEW c \in Configs
  PROVE  /\ VRFsOf(c) \in Seq(VRFs) /\ Distinct(VRFsOf(c))
         /\ Range(VRFsOf(c)) = Range(c) \ {0}
         /\ Head(c) \in VRFs \cup {0}
<1> DEFINE z == CHOOSE i \in DOMAIN c : c[i] = 0
           s == RemoveAt(c, z)
<1>1. c \in Seq(Nat) /\ 0 \in Range(c) /\ Len(c) = Cardinality(Range(c)) /\ Len(c) >= 2
  BY ConfigsAssumption
<1>2. Len(c) \in Nat /\ DOMAIN c = 1..Len(c)
  BY <1>1, LenProperties
<1>3. z \in 1..Len(c) /\ c[z] = 0
  BY <1>1, <1>2 DEF Range
<1>4. Distinct(c)
  BY <1>1, DistinctLemma
<1> HIDE DEF z
<1>5. /\ s \in Seq(Nat) /\ Len(s) = Len(c) - 1
      /\ \A j \in 1..(Len(c) - 1) : s[j] = IF j < z THEN c[j] ELSE c[j + 1]
  BY <1>1, <1>3, RemoveAtLemma
<1> HIDE DEF s
<1>6. DOMAIN s = 1..(Len(c) - 1)
  BY <1>5, LenProperties
<1>7. Range(s) = Range(c) \ {0}
  <2>1. ASSUME NEW j \in 1..(Len(c) - 1) PROVE s[j] \in Range(c) \ {0}
    <3>1. CASE j < z
      <4>1. j \in 1..Len(c) /\ j # z /\ s[j] = c[j]
        BY <1>2, <1>3, <1>5, <3>1
      <4> QED BY <1>2, <1>3, <1>4, <4>1 DEF Range, Distinct
    <3>2. CASE ~(j < z)
      <4>1. j + 1 \in 1..Len(c) /\ j + 1 # z /\ s[j] = c[j + 1]
        BY <1>2, <1>3, <1>5, <3>2
      <4> QED BY <1>2, <1>3, <1>4, <4>1 DEF Range, Distinct
    <3> QED BY <3>1, <3>2
  <2>2. ASSUME NEW k \in 1..Len(c), c[k] # 0 PROVE c[k] \in Range(s)
    <3>1. k # z
      BY <1>3, <2>2
    <3>2. CASE k < z
      <4>1. k \in 1..(Len(c) - 1) /\ s[k] = c[k]
        BY <1>2, <1>3, <1>5, <3>2
      <4> QED BY <1>6, <4>1 DEF Range
    <3>3. CASE k > z
      <4>1. k - 1 \in 1..(Len(c) - 1) /\ ~(k - 1 < z) /\ (k - 1) + 1 = k
        BY <1>2, <1>3, <3>3
      <4>2. s[k - 1] = c[k]
        BY <1>5, <4>1
      <4> QED BY <1>6, <4>1, <4>2 DEF Range
    <3> QED BY <1>2, <1>3, <3>1, <3>2, <3>3
  <2> QED BY <1>2, <1>6, <2>1, <2>2 DEF Range
<1>8. Distinct(s)
  <2> SUFFICES ASSUME NEW i \in 1..(Len(c) - 1), NEW j \in 1..(Len(c) - 1), s[i] = s[j]
               PROVE  i = j
    BY <1>5 DEF Distinct
  <2> DEFINE a == IF i < z THEN i ELSE i + 1
             b == IF j < z THEN j ELSE j + 1
  <2>1. a \in 1..Len(c) /\ b \in 1..Len(c) /\ s[i] = c[a] /\ s[j] = c[b]
    BY <1>2, <1>3, <1>5
  <2>2. a = b
    BY <1>4, <2>1 DEF Distinct
  <2> QED BY <1>2, <1>3, <2>2
<1>9. Range(c) \subseteq VRFs \cup {0}
  BY DEF VRFs
<1>10. s \in Seq(VRFs)
  <2>1. Range(s) \subseteq VRFs
    BY <1>7, <1>9
  <2> QED BY <1>5, <2>1, SeqOfRange, SeqMonotonic
<1>11. Head(c) \in VRFs \cup {0}
  <2>1. c # << >>
    BY <1>1
  <2>2. Head(c) = c[1] /\ 1 \in DOMAIN c
    BY <1>1, <1>2, <2>1
  <2> QED BY <1>9, <2>2 DEF Range
<1> QED BY <1>7, <1>8, <1>10, <1>11 DEF VRFsOf, s, z

\* One visit of a loop: the head is done, the rest is left.
LEMMA VisitLemma ==
  ASSUME NEW S, NEW s \in Seq(S), s # << >>, Distinct(s)
  PROVE  /\ Head(s) \in S /\ Head(s) \in Range(s) /\ Tail(s) \in Seq(S) /\ Distinct(Tail(s))
         /\ Range(Tail(s)) = Range(s) \ {Head(s)}
<1> DEFINE t == Tail(s)
<1>1. Len(s) \in Nat \ {0} /\ DOMAIN s = 1..Len(s)
  BY LenProperties, EmptySeq
<1>2. Head(s) \in S /\ t \in Seq(S) /\ Len(t) = Len(s) - 1
      /\ \A i \in 1..Len(t) : t[i] = s[i + 1]
  BY HeadTailProperties
<1>3. Head(s) = s[1]
  OBVIOUS
<1>4. DOMAIN t = 1..Len(t)
  BY <1>2, LenProperties
<1> HIDE DEF t
<1>5. \A i \in 1..Len(t) : i + 1 \in 1..Len(s) /\ i + 1 # 1 /\ t[i] = s[i + 1]
  BY <1>1, <1>2
<1>6. \A k \in 1..Len(s) : k # 1 => k - 1 \in 1..Len(t) /\ t[k - 1] = s[k]
  BY <1>1, <1>2
<1>7. 1 \in 1..Len(s)
  BY <1>1
<1>8. Distinct(t)
  <2> SUFFICES ASSUME NEW i \in 1..Len(t), NEW j \in 1..Len(t), t[i] = t[j] PROVE i = j
    BY DEF Distinct
  <2>1. i + 1 = j + 1
    BY <1>5 DEF Distinct
  <2> QED BY <1>1, <1>2, <2>1
<1>9. Range(t) = Range(s) \ {s[1]}
  <2>1. ASSUME NEW i \in 1..Len(t) PROVE t[i] \in Range(s) \ {s[1]}
    BY <1>1, <1>5, <1>7 DEF Range, Distinct
  <2>2. ASSUME NEW k \in 1..Len(s), s[k] # s[1] PROVE s[k] \in Range(t)
    BY <1>4, <1>6, <2>2 DEF Range
  <2> QED BY <1>1, <1>4, <2>1, <2>2 DEF Range
<1> QED BY <1>1, <1>2, <1>3, <1>7, <1>8, <1>9 DEF Range, t

-----------------------------------------------------------------------------
(* The invariant.                                                          *)

\* The places of initVPP, by what is behind them.
Serving    == {"holes", "ready"}                        \* the default route
Labelled   == {"default"} \cup Serving                  \* the local labels
Decapped   == {"addLabels"} \cup Labelled               \* the udp decapsulation
Connected  == {"decap"} \cup Decapped                   \* the sub-interfaces
MainUp     == {"addSubifs"} \cup Connected              \* the main interface
Switched   == {"main"} \cup MainUp                      \* the MPLS table
Tabled     == {"mplsTable"} \cup Switched               \* the tables
MainReset  == {"tables", "addTables", "mplsTable", "main"}
NoSubIfs   == {"dump", "pairs", "tunnels", "routes", "cleared"} \cup MainReset

RoutesGone == {"labels", "subifs", "addSubifs", "decap", "addLabels", "default"} \cup NoSubIfs
InLoops    == RoutesGone \cup Serving

IPRoutes == [vrf : VRFs \cup {0}, prefix : Nets \cup {"0.0.0.0/0"}]
VPPConfig ==
  [tables : SUBSET VRFs, mpls : BOOLEAN, decap : BOOLEAN,
   subifs : SUBSET [id : SubIfIds, vlan : VRFs, table : VRFs \cup {0}, addr : BOOLEAN, up : BOOLEAN],
   lfib : SUBSET [label : {Label(v) : v \in VRFs}, subif : SubIfIds \cup {UndefinedSubIf}],
   ip : SUBSET IPRoutes, holes : SUBSET [vrf : VRFs],
   main : [addr : SUBSET (VRFs \cup {0}), up : BOOLEAN, mpls : BOOLEAN]]

StartTypeOK ==
  /\ cfg \in Configs /\ fib \in [FIPs -> SUBSET TunIds] /\ vpp \in VPPConfig
  /\ sub \in [VRFs -> SubIfIds \cup {UndefinedSubIf}]
  /\ IsFiniteSet(vpp.ip)

\* The loops over the VRFs, and where the next one starts.
LoopInv ==
  /\ pc \in InLoops => left \in Seq(Configured) /\ Distinct(left)
  /\ pc \in {"mplsTable", "main", "decap", "default"} => left = VRFsOf(cfg)

\* The dumped routes still to be deleted, each with its own next-hop among
\* the paths that are sent.
IPInv ==
  /\ pc = "ipRoutes" =>
       /\ left \in Seq([route : IPRoutes, nhs : Seq(VRFs \cup {0})])
       /\ \/ wrapped
          \/ \A r \in Dumpable(vpp.ip) : \E d \in Range(left) : d.route = r /\ r.vrf \in SentPaths(d.nhs)
  /\ pc \in RoutesGone => Dumpable(vpp.ip) = {} \/ wrapped
  /\ pc \in Serving => Dumpable(vpp.ip) = {Default} \/ wrapped

\* What the gateway dumped of a floating IP.
Dump1(f) == [prefix |-> f, paths |-> fib[f]]

\* The floating IPs: what is not deleted yet is among what was dumped.
ClearInv ==
  /\ pc = "tunnels" => encap = tunnels
  /\ pc = "routes" =>
       /\ encap = {} /\ routes \subseteq {Dump1(f) : f \in FIPs}
       /\ \A f \in FIPs : Dump1(f) \in routes \/ \A t \in fib[f] : t > 255
  /\ ClearedIsEmpty

TablesInv ==
  /\ pc = "addTables" => Done \subseteq vpp.tables
  /\ pc \in Tabled => Configured \subseteq vpp.tables
  /\ pc \in Switched => vpp.mpls
  /\ pc \in Decapped => vpp.decap

MainInv ==
  /\ pc \in MainReset => vpp.main.addr = {}
  /\ pc \in MainUp => vpp.main = [addr |-> {Head(cfg)}, up |-> TRUE, mpls |-> TRUE]

\* The working sub-interface of v.
SubIf(v) == [id |-> sub[v], vlan |-> v, table |-> v, addr |-> TRUE, up |-> TRUE]

SubIfInv ==
  /\ pc \in NoSubIfs => vpp.subifs = {}
  /\ pc = "addSubifs" => vpp.subifs = {SubIf(v) : v \in Done}
  /\ pc \in Connected => vpp.subifs = {SubIf(v) : v \in Configured}

\* The label of v leads to its sub-interface, unless another VRF has it too.
Reached(v) ==
  (\A w \in Configured \ {v} : Label(w) # Label(v)) =>
    {d \in vpp.lfib : d.label = Label(v)} = {[label |-> Label(v), subif |-> sub[v]]}

LabelInv ==
  /\ pc = "addLabels" => \A v \in Done : Reached(v)
  /\ pc \in Labelled => \A v \in Configured : Reached(v)

HolesInv ==
  /\ pc = "holes" => \A v \in Done : [vrf |-> v] \in vpp.holes
  /\ pc = "ready" => \A v \in Configured : [vrf |-> v] \in vpp.holes

StartInv ==
  /\ StartTypeOK /\ LoopInv /\ IPInv /\ ClearInv /\ TablesInv
  /\ MainInv /\ SubIfInv /\ LabelInv /\ HolesInv

-----------------------------------------------------------------------------
(* A process that starts or ends, and the steps of VPPClear.               *)

\* Nothing is promised of a process that has not done anything yet or no
\* longer does.
LEMMA IdleInv ==
  ASSUME StartTypeOK', pc' \in {"fatal", "dumpIP"}
  PROVE  StartInv'
BY DEF StartInv, LoopInv, IPInv, ClearInv, ClearedIsEmpty, TablesInv, MainInv, SubIfInv, LabelInv,
       HolesInv, Serving, Labelled, Decapped, Connected, MainUp, Switched, Tabled, MainReset,
       NoSubIfs, RoutesGone, InLoops

LEMMA InitInv == Init => StartInv
<1> SUFFICES ASSUME Init PROVE StartInv
  OBVIOUS
<1>1. StartTypeOK
  <2>1. vpp \in VPPConfig /\ vpp.ip = {}
    BY DEF Init, NoConfig, VPPConfig
  <2> QED BY <2>1, FS_EmptySet DEF Init, StartTypeOK
<1> QED
  BY <1>1 DEF Init, StartInv, LoopInv, IPInv, ClearInv, ClearedIsEmpty, TablesInv, MainInv,
              SubIfInv, LabelInv, HolesInv, Serving, Labelled, Decapped, Connected, MainUp, Switched,
              Tabled, MainReset, NoSubIfs, RoutesGone, InLoops

\* A tunnel id that fits in a byte is read as it is.
LEMMA DecodeLemma == ASSUME NEW t \in Nat, ~(t > 255) PROVE Decode(t) = t
BY DEF Decode

\* The second dump has every route that is left.
LEMMA DumpedLemma ==
  Dumped(fib) = {Dump1(f) : f \in {g \in FIPs : fib[g] # {}}}
BY DEF Dumped, Dump1

\* The steps of VPPClear keep what they have cleared so far.
LEMMA ClearKeepsInv ==
  ASSUME StartTypeOK, ClearInv, Clear
  PROVE  fib' \in [FIPs -> SUBSET TunIds] /\ ClearInv'
<1>0. fib \in [FIPs -> SUBSET TunIds] /\ TunIds \subseteq Nat
  BY TunIdsAssumption DEF StartTypeOK
<1>1. CASE Dump
  BY <1>0, <1>1 DEF Dump, ClearInv, ClearedIsEmpty
<1>2. CASE DumpTunnels
  BY <1>0, <1>2 DEF DumpTunnels, ClearInv, ClearedIsEmpty
<1>3. CASE DumpRoutes
  <2>1. fib' = fib /\ encap' = {} /\ routes' = Dumped(fib) /\ pc' = "routes"
    BY <1>3 DEF DumpRoutes, ClearInv
  <2>2. \A f \in FIPs : Dump1(f)' = Dump1(f)
    BY <2>1 DEF Dump1
  <2>3. \A f \in FIPs : Dump1(f) \in routes' \/ fib[f] = {}
    BY <2>1, DumpedLemma
  <2>4. routes' \subseteq {Dump1(f)' : f \in FIPs}
    BY <2>1, <2>2, DumpedLemma
  <2> QED BY <1>0, <2>1, <2>2, <2>3, <2>4 DEF ClearInv, ClearedIsEmpty
<1>4. CASE Cleared
  <2>1. \A f \in FIPs : \A t \in fib[f] : t > 255
    BY <1>4 DEF Cleared, ClearInv
  <2> QED BY <1>0, <1>4, <2>1 DEF Cleared, ClearInv, ClearedIsEmpty
<1>5. ASSUME NEW p \in pairs, DelPair(p[1], p[2]) PROVE fib' \in [FIPs -> SUBSET TunIds] /\ ClearInv'
  <2>1. pc' \in {"pairs", "fatal"}
    BY <1>5 DEF DelPair
  <2>2. fib' \in [FIPs -> SUBSET TunIds]
    BY <1>0, <1>5 DEF DelPair, DelRoute
  <2> QED BY <2>1, <2>2 DEF ClearInv, ClearedIsEmpty
<1>6. ASSUME NEW t \in tunnels, DelTunnel(t) PROVE fib' \in [FIPs -> SUBSET TunIds] /\ ClearInv'
  BY <1>0, <1>6 DEF DelTunnel, ClearInv, ClearedIsEmpty
<1>7. ASSUME NEW r \in routes, DelOrphan(r) PROVE fib' \in [FIPs -> SUBSET TunIds] /\ ClearInv'
  <2>1. PICK g \in FIPs : r = Dump1(g)
    BY <1>7 DEF DelOrphan, ClearInv
  <2>2. r.prefix = g /\ r.paths = fib[g]
    BY <2>1 DEF Dump1
  <2>3. /\ fib' = [fib EXCEPT ![g] = IF Cardinality(fib[g]) > 1 THEN fib[g] \ DecodedIds(r) ELSE {}]
        /\ pc = "routes" /\ pc' = "routes" /\ encap' = {} /\ routes' = routes \ {Dump1(g)}
    BY <1>7, <2>1, <2>2 DEF DelOrphan, DelRoute, ClearInv
  <2>4. fib' \in [FIPs -> SUBSET TunIds]
    BY <1>0, <2>3
  <2>5. ASSUME NEW f \in FIPs, f # g PROVE fib'[f] = fib[f] /\ Dump1(f)' = Dump1(f) /\ Dump1(f) # Dump1(g)
    BY <1>0, <2>3, <2>5 DEF Dump1
  <2>6. ASSUME NEW t \in fib'[g] PROVE t > 255
    <3>1. t \in fib[g] /\ t \notin DecodedIds(r)
      BY <1>0, <2>3, <2>6
    <3>2. t \in Nat /\ (~(t > 255) => t \in DecodedIds(r))
      BY <1>0, <2>2, <3>1, DecodeLemma DEF DecodedIds
    <3> QED BY <3>1, <3>2
  <2>7. routes' \subseteq {Dump1(f)' : f \in FIPs}
    <3> SUFFICES ASSUME NEW q \in routes' PROVE q \in {Dump1(f)' : f \in FIPs}
      OBVIOUS
    <3>1. q \in routes /\ q # Dump1(g)
      BY <2>3
    <3>2. PICK f \in FIPs : q = Dump1(f)
      BY <2>3, <3>1 DEF ClearInv
    <3> QED BY <2>5, <3>1, <3>2
  <2>8. ASSUME NEW f \in FIPs, f # g PROVE Dump1(f)' \in routes' \/ \A t \in fib'[f] : t > 255
    BY <2>3, <2>5, <2>8 DEF ClearInv
  <2> QED BY <2>3, <2>4, <2>6, <2>7, <2>8 DEF ClearInv, ClearedIsEmpty
<1> QED BY <1>1, <1>2, <1>3, <1>4, <1>5, <1>6, <1>7 DEF Clear

-----------------------------------------------------------------------------
(* The loops over the VRFs.                                                *)

LEMMA ConfiguredLemma ==
  ASSUME StartTypeOK
  PROVE  /\ VRFsOf(cfg) \in Seq(Configured) /\ Distinct(VRFsOf(cfg))
         /\ Configured \subseteq VRFs /\ Head(cfg) \in VRFs \cup {0}
<1>1. /\ VRFsOf(cfg) \in Seq(VRFs) /\ Distinct(VRFsOf(cfg))
      /\ Head(cfg) \in VRFs \cup {0}
  BY VRFsOfLemma DEF StartTypeOK
<1>2. Range(VRFsOf(cfg)) \in SUBSET VRFs
  BY <1>1, RangeOfSeq
<1>3. VRFsOf(cfg) \in Seq(Range(VRFsOf(cfg)))
  BY <1>1, SeqOfRange
<1> QED BY <1>1, <1>2, <1>3 DEF Configured

\* One visit: the head of the loop is done.
LEMMA VisitDone ==
  ASSUME StartTypeOK, LoopInv, pc \in InLoops, left # << >>, left' = Tail(left), cfg' = cfg
  PROVE  /\ Configured' = Configured /\ Done' = Done \cup {Head(left)}
         /\ Head(left) \in Configured /\ Head(left) \in VRFs /\ Head(left) \notin Done
         /\ left' \in Seq(Configured') /\ Distinct(left')
<1>1. left \in Seq(Configured) /\ Distinct(left)
  BY DEF LoopInv
<1>2. /\ Head(left) \in Configured /\ Head(left) \in Range(left) /\ left' \in Seq(Configured)
      /\ Distinct(left') /\ Range(left') = Range(left) \ {Head(left)}
  BY <1>1, VisitLemma
<1>3. Configured' = Configured
  BY DEF Configured
<1>4. Configured \subseteq VRFs
  BY ConfiguredLemma
<1>5. Done' = Configured \ Range(left')
  BY <1>3 DEF Done
<1> QED BY <1>2, <1>3, <1>4, <1>5 DEF Done

\* The end of a loop: all of them are done, and the next loop starts.
LEMMA LoopEnd ==
  ASSUME StartTypeOK, NEW at, NEW next, EndLoop(at, next)
  PROVE  /\ pc = at /\ pc' = next /\ vpp' = vpp /\ sub' = sub /\ cfg' = cfg /\ wrapped' = wrapped
         /\ left = << >> /\ left' = VRFsOf(cfg) /\ VRFsOf(cfg)' = VRFsOf(cfg)
         /\ StartTypeOK' /\ Configured' = Configured /\ Done = Configured /\ Done' = {}
         /\ left' \in Seq(Configured') /\ Distinct(left')
<1>1. /\ pc = at /\ pc' = next /\ vpp' = vpp /\ sub' = sub /\ cfg' = cfg /\ wrapped' = wrapped
      /\ left = << >> /\ left' = VRFsOf(cfg) /\ fib' = fib
  BY DEF EndLoop, Go, clearVars
<1>2. VRFsOf(cfg)' = VRFsOf(cfg)
  BY <1>1 DEF VRFsOf
<1>3. StartTypeOK'
  BY <1>1 DEF StartTypeOK
<1>4. Configured' = Configured
  BY <1>2 DEF Configured
<1>5. Range(left) = {} /\ Range(left') = Configured
  BY <1>1 DEF Range, Configured
<1>6. Done = Configured /\ Done' = {}
  BY <1>4, <1>5 DEF Done
<1> QED BY <1>1, <1>2, <1>3, <1>4, <1>6, ConfiguredLemma

\* Labels that are not touched lead where they led.
LEMMA SameReached ==
  ASSUME cfg' = cfg, sub' = sub, vpp'.lfib = vpp.lfib, NEW v
  PROVE  Reached(v)' = Reached(v) /\ SubIf(v)' = SubIf(v)
BY DEF Reached, Configured, VRFsOf, SubIf, Label

-----------------------------------------------------------------------------
(* ClearVPPConfig.                                                         *)

\* A dump names every route once, in some order.
LEMMA SetToSeqsLemma ==
  ASSUME NEW S, IsFiniteSet(S), NEW s \in SetToSeqs(S)
  PROVE  /\ Cardinality(S) \in Nat /\ s \in [1..Cardinality(S) -> S]
         /\ \A x \in S : \E k \in 1..Cardinality(S) : s[k] = x
<1> DEFINE n == Cardinality(S)
<1>1. n \in Nat
  BY FS_CardinalityType
<1>2. s \in [1..n -> S] /\ \A i, j \in 1..n : i # j => s[i] # s[j]
  BY DEF SetToSeqs
<1>3. s \in Injection(1..n, S)
  BY <1>2 DEF Injection, IsInjective
<1>4. Cardinality(1..n) = n
  BY <1>1, FS_Interval
<1>5. s \in Surjection(1..n, S)
  BY <1>3, <1>4, FS_Injection
<1> QED BY <1>1, <1>2, <1>5 DEF Surjection

\* If the dump fits in NPaths every route carries its own next-hop.
LEMMA DumpIPInv ==
  ASSUME StartInv, DumpIP
  PROVE  StartInv'
<1> DEFINE S == Dumpable(vpp.ip)
           n == Cardinality(S)
<1>1. PICK s \in DumpOrders :
        left' = [k \in DOMAIN s |-> [route |-> s[k], nhs |-> NextHopsOf(s)[k]]]
  BY DEF DumpIP
<1>2. /\ pc' = "ipRoutes" /\ vpp' = vpp /\ cfg' = cfg /\ sub' = sub /\ fib' = fib
      /\ wrapped' = (wrapped \/ n >= ByteRange)
  BY DEF DumpIP, clearVars
<1>3. StartTypeOK /\ StartTypeOK'
  BY <1>2 DEF StartInv, StartTypeOK
<1>4. n \in Nat /\ s \in [1..n -> S] /\ \A x \in S : \E k \in 1..n : s[k] = x
  <2>1. S \subseteq vpp.ip
    BY DEF Dumpable
  <2>2. IsFiniteSet(S)
    BY <1>3, <2>1, FS_Subset DEF StartTypeOK
  <2>3. s \in SetToSeqs(S)
    BY DEF DumpOrders
  <2> QED BY <2>2, <2>3, SetToSeqsLemma
<1>5. S \subseteq IPRoutes
  BY <1>3 DEF StartTypeOK, VPPConfig, Dumpable
<1>6. ASSUME NEW k \in 1..n
      PROVE  left'[k].route = s[k] /\ left'[k].nhs = [j \in 1..k |-> s[j].vrf]
  BY <1>1, <1>4 DEF NextHopsOf
<1>7. ASSUME NEW k \in 1..n PROVE [j \in 1..k |-> s[j].vrf] \in Seq(VRFs \cup {0})
  <2>1. \A j \in 1..k : s[j].vrf \in VRFs \cup {0}
    BY <1>4, <1>5 DEF IPRoutes
  <2> QED BY <1>4, <2>1
<1>8. left' \in Seq([route : IPRoutes, nhs : Seq(VRFs \cup {0})])
  <2>1. DOMAIN s = 1..n
    BY <1>4
  <2>2. \A k \in 1..n : s[k] \in IPRoutes /\ NextHopsOf(s)[k] \in Seq(VRFs \cup {0})
    BY <1>4, <1>5, <1>7, <2>1 DEF NextHopsOf
  <2> DEFINE R == [route : IPRoutes, nhs : Seq(VRFs \cup {0})]
  <2>3. \A k \in 1..n : [route |-> s[k], nhs |-> NextHopsOf(s)[k]] \in R
    BY <2>2
  <2> HIDE DEF R
  <2>4. left' \in [1..n -> R]
    BY <1>1, <2>1, <2>3
  <2>5. left' \in Seq(R)
    BY <1>4, <2>4, SeqDef
  <2> QED BY <2>5 DEF R
<1>9. DOMAIN left' = 1..n
  BY <1>1, <1>4
<1>10. ASSUME NEW k \in 1..n, n < ByteRange PROVE s[k].vrf \in SentPaths(left'[k].nhs)
  <2>1. Len(left'[k].nhs) = k /\ left'[k].nhs[k] = s[k].vrf
    <3> DEFINE q == [j \in 1..k |-> s[j].vrf]
    <3>1. k \in Nat /\ k \in 1..k /\ q \in Seq(VRFs \cup {0}) /\ DOMAIN q = 1..k /\ q[k] = s[k].vrf
      BY <1>4, <1>7
    <3> HIDE DEF q
    <3>2. Len(q) \in Nat /\ DOMAIN q = 1..Len(q)
      BY <3>1, LenProperties
    <3>3. Len(q) = k
      BY <3>1, <3>2
    <3> QED BY <1>6, <3>1, <3>3 DEF q
  <2>2. k \in 1..k /\ k % ByteRange = k
    BY <1>4, <1>10, ByteRangeAssumption
  <2> QED BY <2>1, <2>2 DEF SentPaths
<1>11. ~wrapped' => n < ByteRange
  <2>1. ~wrapped' => ~(n >= ByteRange)
    BY <1>2, Zenon
  <2> QED BY <1>4, <2>1, ByteRangeAssumption
<1>12. ~wrapped' => \A r \in S : \E d \in Range(left') : d.route = r /\ r.vrf \in SentPaths(d.nhs)
  <2> SUFFICES ASSUME n < ByteRange, NEW r \in S
               PROVE  \E d \in Range(left') : d.route = r /\ r.vrf \in SentPaths(d.nhs)
    BY <1>11
  <2>1. PICK k \in 1..n : s[k] = r
    BY <1>4
  <2>2. left'[k] \in Range(left')
    BY <1>9 DEF Range
  <2> QED BY <1>6, <1>10, <2>1, <2>2
<1>13. IPInv'
  BY <1>2, <1>8, <1>12 DEF IPInv, RoutesGone, NoSubIfs, MainReset, Serving
<1> QED
  BY <1>2, <1>3, <1>13
     DEF StartInv, LoopInv, ClearInv, ClearedIsEmpty, TablesInv, MainInv, SubIfInv, LabelInv,
         HolesInv, Serving, Labelled, Decapped, Connected, MainUp, Switched, Tabled, MainReset,
         NoSubIfs, RoutesGone, InLoops

\* A deleted route leaves the dump and VPP.
LEMMA DelIPRouteInv ==
  ASSUME StartInv, DelIPRoute
  PROVE  StartInv'
<1> DEFINE d == Head(left)
           R == [route : IPRoutes, nhs : Seq(VRFs \cup {0})]
<1>1. StartTypeOK /\ vpp \in VPPConfig /\ left \in Seq(R) /\ pc = "ipRoutes" /\ left # << >>
  BY DEF StartInv, StartTypeOK, IPInv, DelIPRoute, Visit
<1>2. /\ left' = Tail(left) /\ pc' = "ipRoutes" /\ cfg' = cfg /\ sub' = sub /\ fib' = fib
      /\ wrapped' = wrapped
      /\ vpp' = IF d.route.vrf \in SentPaths(d.nhs) THEN [vpp EXCEPT !.ip = vpp.ip \ {d.route}] ELSE vpp
  BY <1>1 DEF DelIPRoute, Visit, Go, clearVars, VPPConfig
<1> HIDE DEF d, R
<1>3. vpp' \in VPPConfig
  BY <1>1, <1>2 DEF VPPConfig
<1>4. vpp'.ip = IF d.route.vrf \in SentPaths(d.nhs) THEN vpp.ip \ {d.route} ELSE vpp.ip
  BY <1>1, <1>2 DEF VPPConfig
<1>5. StartTypeOK'
  BY <1>1, <1>2, <1>3, <1>4, FS_Subset DEF StartTypeOK
<1>6. left' \in Seq(R) /\ Range(left) \subseteq Range(left') \cup {d}
  <2>1. /\ left' \in Seq(R) /\ Len(left') = Len(left) - 1 /\ Len(left) \in Nat /\ Len(left') \in Nat
        /\ \A i \in 1..Len(left') : left'[i] = left[i + 1]
        /\ DOMAIN left = 1..Len(left) /\ DOMAIN left' = 1..Len(left') /\ d = left[1]
    BY <1>1, <1>2, HeadTailProperties, LenProperties DEF d
  <2>2. ASSUME NEW k \in 1..Len(left) PROVE left[k] \in Range(left') \cup {d}
    <3>1. CASE k = 1
      BY <2>1, <3>1
    <3>2. CASE k # 1
      <4>1. k - 1 \in 1..Len(left') /\ (k - 1) + 1 = k
        BY <2>1, <3>2
      <4>2. left'[k - 1] = left[k]
        BY <2>1, <4>1
      <4> QED BY <2>1, <4>1, <4>2 DEF Range
    <3> QED BY <3>1, <3>2
  <2> QED BY <2>1, <2>2 DEF Range
<1>7. IPInv'
  <2>1. CASE wrapped
    BY <1>2, <1>6, <2>1 DEF IPInv, RoutesGone, NoSubIfs, MainReset, Serving, R
  <2>2. CASE ~wrapped
    <3>1. ASSUME NEW r \in Dumpable(vpp'.ip)
          PROVE  \E e \in Range(left') : e.route = r /\ r.vrf \in SentPaths(e.nhs)
      <4>1. r \in Dumpable(vpp.ip) /\ r \in vpp'.ip
        BY <1>4 DEF Dumpable
      <4>2. PICK e \in Range(left) : e.route = r /\ r.vrf \in SentPaths(e.nhs)
        BY <1>1, <2>2, <4>1 DEF StartInv, IPInv
      <4>3. e # d
        BY <1>4, <4>1, <4>2
      <4> QED BY <1>6, <4>2, <4>3
    <3> QED BY <1>2, <1>6, <3>1 DEF IPInv, RoutesGone, NoSubIfs, MainReset, Serving, R
  <2> QED BY <2>1, <2>2
<1> QED
  BY <1>2, <1>5, <1>7
     DEF StartInv, LoopInv, ClearInv, ClearedIsEmpty, TablesInv, MainInv, SubIfInv, LabelInv,
         HolesInv, Serving, Labelled, Decapped, Connected, MainUp, Switched, Tabled, MainReset,
         NoSubIfs, RoutesGone, InLoops

\* The deletions that follow, up to the interfaces and tables.
LEMMA ClearConfigInv ==
  ASSUME StartInv,
         \/ EndLoop("ipRoutes", "labels") \/ DelLabel \/ EndLoop("labels", "subifs")
         \/ DelSubInterfaces \/ ClearFIPs \/ ResetMainInterface(2)
         \/ \E flush \in BOOLEAN : DelVRF(flush)
         \/ EndLoop("tables", "addTables")
  PROVE  StartInv'
<1>0. /\ StartTypeOK /\ LoopInv /\ IPInv /\ ClearInv /\ MainInv /\ SubIfInv
      /\ vpp \in VPPConfig /\ IsFiniteSet(vpp.ip) /\ fib \in [FIPs -> SUBSET TunIds]
  BY DEF StartInv, StartTypeOK
<1> USE DEF StartInv, TablesInv, LabelInv, HolesInv, Serving, Labelled, Decapped, Connected,
            MainUp, Switched, Tabled, MainReset, NoSubIfs, RoutesGone, InLoops
<1>1. CASE EndLoop("ipRoutes", "labels")
  <2>1. /\ pc = "ipRoutes" /\ pc' = "labels" /\ vpp' = vpp /\ wrapped' = wrapped /\ left = << >>
        /\ StartTypeOK' /\ left' \in Seq(Configured') /\ Distinct(left')
    BY <1>0, <1>1, LoopEnd
  <2>2. Range(left) = {}
    BY <2>1 DEF Range
  <2>3. IPInv'
    BY <1>0, <2>1, <2>2 DEF IPInv
  <2> QED BY <2>1, <2>3 DEF LoopInv, MainInv, SubIfInv, ClearInv, ClearedIsEmpty
<1>2. CASE DelLabel
  <2>1. /\ pc = "labels" /\ pc' = "labels" /\ left # << >> /\ left' = Tail(left) /\ cfg' = cfg /\ sub' = sub
        /\ wrapped' = wrapped /\ fib' = fib
        /\ vpp' = [vpp EXCEPT !.lfib = {e \in vpp.lfib : e.label # Label(Head(left))}]
    BY <1>2 DEF DelLabel, Visit, Go, clearVars
  <2>2. vpp' \in VPPConfig /\ vpp'.ip = vpp.ip
    BY <1>0, <2>1 DEF VPPConfig
  <2>3. left' \in Seq(Configured') /\ Distinct(left')
    BY <1>0, <2>1, VisitDone
  <2>4. StartTypeOK' /\ IPInv'
    BY <1>0, <2>1, <2>2 DEF StartTypeOK, IPInv
  <2> QED BY <2>1, <2>3, <2>4 DEF LoopInv, MainInv, SubIfInv, ClearInv, ClearedIsEmpty
<1>3. CASE EndLoop("labels", "subifs")
  <2>1. /\ pc = "labels" /\ pc' = "subifs" /\ vpp' = vpp /\ wrapped' = wrapped
        /\ StartTypeOK' /\ left' \in Seq(Configured') /\ Distinct(left')
    BY <1>0, <1>3, LoopEnd
  <2>2. IPInv'
    BY <1>0, <2>1 DEF IPInv
  <2> QED BY <2>1, <2>2 DEF LoopInv, MainInv, SubIfInv, ClearInv, ClearedIsEmpty
<1>4. CASE DelSubInterfaces
  <2>1. /\ pc = "subifs" /\ cfg' = cfg /\ sub' = sub /\ wrapped' = wrapped /\ fib' = fib /\ left' = left
        /\ \/ pc' = "subifs" /\ \E i \in vpp.subifs : vpp' = [vpp EXCEPT !.subifs = vpp.subifs \ {i}]
           \/ pc' = "dump" /\ vpp' = vpp /\ vpp.subifs = {}
    BY <1>4 DEF DelSubInterfaces, Go, clearVars
  <2>2. vpp' \in VPPConfig /\ vpp'.ip = vpp.ip
    BY <1>0, <2>1 DEF VPPConfig
  <2>3. Configured' = Configured
    BY <2>1 DEF Configured, VRFsOf
  <2>4. StartTypeOK' /\ IPInv' /\ LoopInv'
    BY <1>0, <2>1, <2>2, <2>3 DEF StartTypeOK, IPInv, LoopInv
  <2> QED BY <2>1, <2>4 DEF MainInv, SubIfInv, ClearInv, ClearedIsEmpty
<1>5. CASE ClearFIPs
  <2>1. Clear /\ cfg' = cfg /\ vpp' = vpp /\ sub' = sub /\ left' = left /\ wrapped' = wrapped
    BY <1>5 DEF ClearFIPs
  <2>2. fib' \in [FIPs -> SUBSET TunIds] /\ ClearInv'
    BY <1>0, <2>1, ClearKeepsInv
  <2>3. pc \in {"dump", "pairs", "tunnels", "routes"}
        /\ pc' \in {"pairs", "tunnels", "routes", "cleared", "fatal"}
    BY <2>1 DEF Clear, Dump, DumpTunnels, DumpRoutes, Cleared, DelPair, DelTunnel, DelOrphan
  <2>4. Configured' = Configured
    BY <2>1 DEF Configured, VRFsOf
  <2>5. StartTypeOK' /\ IPInv' /\ LoopInv' /\ SubIfInv' /\ MainInv'
    BY <1>0, <2>1, <2>2, <2>3, <2>4 DEF StartTypeOK, IPInv, LoopInv, SubIfInv, MainInv
  <2> QED BY <2>2, <2>3, <2>5
<1>6. CASE ResetMainInterface(2)
  <2>1. /\ pc = "cleared" /\ pc' = "tables" /\ cfg' = cfg /\ sub' = sub /\ wrapped' = wrapped
        /\ fib' = fib /\ left' = left
    BY <1>6 DEF ResetMainInterface, Go, clearVars
  <2>2. PICK up \in BOOLEAN : vpp' = [vpp EXCEPT !.main = [vpp.main EXCEPT !.addr = {}, !.up = up]]
    BY <1>6 DEF ResetMainInterface, Go
  <2>3. vpp' \in VPPConfig /\ vpp'.ip = vpp.ip /\ vpp'.subifs = vpp.subifs /\ vpp'.main.addr = {}
    BY <1>0, <2>2 DEF VPPConfig
  <2>4. Configured' = Configured
    BY <2>1 DEF Configured, VRFsOf
  <2>5. StartTypeOK' /\ IPInv' /\ LoopInv' /\ SubIfInv' /\ MainInv'
    BY <1>0, <2>1, <2>3, <2>4 DEF StartTypeOK, IPInv, LoopInv, SubIfInv, MainInv
  <2> QED BY <2>1, <2>5 DEF ClearInv, ClearedIsEmpty
<1>7. ASSUME NEW flush \in BOOLEAN, DelVRF(flush) PROVE StartInv'
  <2> DEFINE v == Head(left)
             Keep(S) == IF flush THEN {e \in S : e.vrf # v} ELSE S
  <2>1. /\ pc = "tables" /\ pc' = "tables" /\ left # << >> /\ left' = Tail(left) /\ cfg' = cfg /\ sub' = sub
        /\ wrapped' = wrapped
        /\ fib' = [f \in FIPs |-> IF flush /\ FIPVRF[f] = v THEN {} ELSE fib[f]]
        /\ vpp' = [vpp EXCEPT !.tables = vpp.tables \ {v}, !.ip = Keep(vpp.ip), !.holes = Keep(vpp.holes)]
    BY <1>7 DEF DelVRF, Visit
  <2>2. Keep(vpp.ip) \subseteq vpp.ip /\ Keep(vpp.holes) \subseteq vpp.holes
    OBVIOUS
  <2>3. fib' \in [FIPs -> SUBSET TunIds]
    BY <1>0, <2>1
  <2> HIDE DEF Keep, v
  <2>4. /\ vpp' \in VPPConfig /\ vpp'.ip \subseteq vpp.ip /\ vpp'.subifs = vpp.subifs
        /\ vpp'.main = vpp.main
    BY <1>0, <2>1, <2>2 DEF VPPConfig
  <2>5. StartTypeOK'
    BY <1>0, <2>1, <2>3, <2>4, FS_Subset DEF StartTypeOK
  <2>6. left' \in Seq(Configured') /\ Distinct(left')
    BY <1>0, <2>1, VisitDone
  <2>7. Dumpable(vpp'.ip) \subseteq Dumpable(vpp.ip)
    BY <2>4 DEF Dumpable
  <2>8. IPInv' /\ LoopInv' /\ SubIfInv' /\ MainInv'
    BY <1>0, <2>1, <2>4, <2>6, <2>7 DEF IPInv, LoopInv, SubIfInv, MainInv
  <2> QED BY <2>1, <2>5, <2>8 DEF ClearInv, ClearedIsEmpty
<1>8. CASE EndLoop("tables", "addTables")
  <2>1. /\ pc = "tables" /\ pc' = "addTables" /\ vpp' = vpp /\ wrapped' = wrapped
        /\ StartTypeOK' /\ left' \in Seq(Configured') /\ Distinct(left') /\ Done' = {}
    BY <1>0, <1>8, LoopEnd
  <2>2. IPInv' /\ LoopInv' /\ SubIfInv' /\ MainInv'
    BY <1>0, <2>1 DEF IPInv, LoopInv, SubIfInv, MainInv
  <2> QED BY <2>1, <2>2 DEF ClearInv, ClearedIsEmpty
<1> QED BY <1>1, <1>2, <1>3, <1>4, <1>5, <1>6, <1>7, <1>8

-----------------------------------------------------------------------------
(* AddVPPInitConfig.                                                       *)

\* The tables and the main interface.
LEMMA AddTablesInv ==
  ASSUME StartInv,
         \/ AddVRF \/ EndLoop("addTables", "mplsTable") \/ AddMPLSTable \/ SetupMainInterface(3)
  PROVE  StartInv'
<1>0. /\ StartTypeOK /\ LoopInv /\ IPInv /\ TablesInv /\ MainInv /\ SubIfInv
      /\ vpp \in VPPConfig /\ IsFiniteSet(vpp.ip)
  BY DEF StartInv, StartTypeOK
<1> USE DEF StartInv, LabelInv, HolesInv, ClearInv, ClearedIsEmpty, Serving, Labelled, Decapped,
            Connected, MainUp, Switched, Tabled, MainReset, NoSubIfs, RoutesGone, InLoops
<1>1. CASE AddVRF
  <2>1. /\ pc = "addTables" /\ pc' = "addTables" /\ left # << >> /\ left' = Tail(left) /\ cfg' = cfg
        /\ sub' = sub /\ wrapped' = wrapped /\ fib' = fib
        /\ vpp' = [vpp EXCEPT !.tables = vpp.tables \cup {Head(left)}]
    BY <1>1 DEF AddVRF, Visit, Go, clearVars
  <2>2. /\ Done' = Done \cup {Head(left)} /\ Head(left) \in VRFs
        /\ left' \in Seq(Configured') /\ Distinct(left')
    BY <1>0, <2>1, VisitDone
  <2>3. /\ vpp' \in VPPConfig /\ vpp'.ip = vpp.ip /\ vpp'.subifs = vpp.subifs /\ vpp'.main = vpp.main
        /\ vpp'.tables = vpp.tables \cup {Head(left)}
    BY <1>0, <2>1, <2>2 DEF VPPConfig
  <2>4. StartTypeOK' /\ LoopInv' /\ IPInv'
    BY <1>0, <2>1, <2>2, <2>3 DEF StartTypeOK, LoopInv, IPInv
  <2>5. TablesInv' /\ MainInv' /\ SubIfInv'
    BY <1>0, <2>1, <2>2, <2>3 DEF TablesInv, MainInv, SubIfInv
  <2> QED BY <2>1, <2>4, <2>5
<1>2. CASE EndLoop("addTables", "mplsTable")
  <2>1. /\ pc = "addTables" /\ pc' = "mplsTable" /\ vpp' = vpp /\ wrapped' = wrapped
        /\ left' = VRFsOf(cfg)' /\ Configured' = Configured /\ Done = Configured
        /\ StartTypeOK' /\ left' \in Seq(Configured') /\ Distinct(left')
    BY <1>0, <1>2, LoopEnd
  <2>2. LoopInv' /\ IPInv' /\ TablesInv' /\ MainInv' /\ SubIfInv'
    BY <1>0, <2>1 DEF LoopInv, IPInv, TablesInv, MainInv, SubIfInv
  <2> QED BY <2>1, <2>2
<1>3. CASE AddMPLSTable
  <2>1. /\ pc = "mplsTable" /\ pc' = "main" /\ left' = left /\ cfg' = cfg
        /\ sub' = sub /\ wrapped' = wrapped /\ fib' = fib
        /\ vpp' = [vpp EXCEPT !.mpls = TRUE]
    BY <1>3 DEF AddMPLSTable, Go, clearVars
  <2>2. Configured' = Configured /\ VRFsOf(cfg)' = VRFsOf(cfg)
    BY <2>1 DEF Configured, VRFsOf
  <2>3. /\ vpp' \in VPPConfig /\ vpp'.ip = vpp.ip /\ vpp'.subifs = vpp.subifs /\ vpp'.main = vpp.main
        /\ vpp'.tables = vpp.tables /\ vpp'.mpls
    BY <1>0, <2>1 DEF VPPConfig
  <2>4. StartTypeOK' /\ LoopInv' /\ IPInv'
    BY <1>0, <2>1, <2>2, <2>3 DEF StartTypeOK, LoopInv, IPInv
  <2>5. TablesInv' /\ MainInv' /\ SubIfInv'
    BY <1>0, <2>1, <2>2, <2>3 DEF TablesInv, MainInv, SubIfInv
  <2> QED BY <2>1, <2>4, <2>5
<1>4. CASE SetupMainInterface(3)
  <2>1. /\ pc = "main" /\ pc' = "addSubifs" /\ left' = left /\ cfg' = cfg
        /\ sub' = sub /\ wrapped' = wrapped /\ fib' = fib
        /\ vpp' = [vpp EXCEPT !.main = [addr |-> vpp.main.addr \cup {Head(cfg)},
                                        up |-> vpp.main.up \/ 3 >= 2,
                                        mpls |-> vpp.main.mpls \/ 3 = 3]]
    BY <1>4 DEF SetupMainInterface, Go, clearVars
  <2>2. /\ Configured' = Configured /\ VRFsOf(cfg)' = VRFsOf(cfg)
        /\ Head(cfg) \in VRFs \cup {0} /\ Configured = Range(VRFsOf(cfg))
        /\ left \in Seq(Configured) /\ Distinct(left) /\ left = VRFsOf(cfg)
    BY <1>0, <2>1, ConfiguredLemma DEF Configured, VRFsOf, LoopInv
  <2>3. vpp.main.addr = {} /\ vpp.main \in [addr : SUBSET (VRFs \cup {0}), up : BOOLEAN, mpls : BOOLEAN]
    BY <1>0, <2>1 DEF MainInv, VPPConfig
  <2>4. vpp' = [vpp EXCEPT !.main = [addr |-> {Head(cfg)}, up |-> TRUE, mpls |-> TRUE]]
    <3>1. /\ vpp.main.addr \cup {Head(cfg)} = {Head(cfg)}
          /\ (vpp.main.up \/ 3 >= 2) = TRUE /\ (vpp.main.mpls \/ 3 = 3) = TRUE
      BY <2>3
    <3> QED BY <2>1, <3>1, Zenon
  <2>5. /\ vpp' \in VPPConfig /\ vpp'.ip = vpp.ip /\ vpp'.subifs = vpp.subifs
        /\ vpp'.main = [addr |-> {Head(cfg)}, up |-> TRUE, mpls |-> TRUE]
        /\ vpp'.tables = vpp.tables /\ vpp'.mpls = vpp.mpls
    BY <1>0, <2>2, <2>4 DEF VPPConfig
  <2>6. Done' = {}
    BY <2>1, <2>2 DEF Done
  <2>7. StartTypeOK' /\ LoopInv' /\ IPInv'
    BY <1>0, <2>1, <2>2, <2>5 DEF StartTypeOK, LoopInv, IPInv
  <2>8. TablesInv' /\ MainInv' /\ SubIfInv'
    BY <1>0, <2>1, <2>2, <2>5, <2>6 DEF TablesInv, MainInv, SubIfInv
  <2> QED BY <2>1, <2>7, <2>8
<1> QED BY <1>1, <1>2, <1>3, <1>4

\* One sub-interface per VRF, with the index the storage keeps.
LEMMA AddSubInterfaceInv ==
  ASSUME StartInv, NEW id \in SubIfIds, AddSubInterface(id, 4)
  PROVE  StartInv'
<1> PICK v : v = Head(left)
  OBVIOUS
<1> DEFINE i == [id |-> id, vlan |-> v, table |-> v, addr |-> TRUE, up |-> TRUE]
<1>0. /\ StartTypeOK /\ LoopInv /\ IPInv /\ TablesInv /\ MainInv /\ SubIfInv
      /\ vpp \in VPPConfig /\ IsFiniteSet(vpp.ip) /\ sub \in [VRFs -> SubIfIds \cup {UndefinedSubIf}]
  BY DEF StartInv, StartTypeOK
<1> USE DEF InLoops, RoutesGone, NoSubIfs, MainReset, Tabled, Switched, MainUp, Connected, Decapped,
            Labelled, Serving
<1>1. /\ pc = "addSubifs" /\ pc' = "addSubifs" /\ left # << >> /\ left' = Tail(left) /\ cfg' = cfg
      /\ wrapped' = wrapped /\ fib' = fib /\ sub' = [sub EXCEPT ![v] = id]
      /\ vpp' = [vpp EXCEPT !.subifs = vpp.subifs \cup {i}]
  <2> DEFINE j == [id |-> id, vlan |-> v, table |-> IF 4 >= 2 THEN v ELSE 0, addr |-> 4 >= 3, up |-> 4 = 4]
  <2>1. (4 >= 3) = TRUE /\ (4 = 4) = TRUE /\ (IF 4 >= 2 THEN v ELSE 0) = v
    OBVIOUS
  <2>2. j = i
    BY <2>1, Zenon
  <2>3. /\ pc = "addSubifs" /\ pc' = "addSubifs" /\ left # << >> /\ left' = Tail(left) /\ cfg' = cfg
        /\ wrapped' = wrapped /\ fib' = fib /\ sub' = [sub EXCEPT ![v] = id]
    BY DEF AddSubInterface, Go, clearVars, Stored
  <2>4. vpp' = [vpp EXCEPT !.subifs = vpp.subifs \cup {j}]
    BY DEF AddSubInterface, Go
  <2> HIDE DEF i, j
  <2> QED BY <2>2, <2>3, <2>4
<1>2. /\ Configured' = Configured /\ Done' = Done \cup {v} /\ v \in VRFs /\ v \notin Done
      /\ left' \in Seq(Configured') /\ Distinct(left')
  BY <1>0, <1>1, VisitDone
<1>3. Done \subseteq VRFs
  BY <1>0, ConfiguredLemma DEF Done
<1>4. /\ vpp' \in VPPConfig /\ vpp'.ip = vpp.ip /\ vpp'.main = vpp.main
      /\ vpp'.tables = vpp.tables /\ vpp'.mpls = vpp.mpls /\ vpp'.subifs = vpp.subifs \cup {i}
  <2>1. i \in [id : SubIfIds, vlan : VRFs, table : VRFs \cup {0}, addr : BOOLEAN, up : BOOLEAN]
    BY <1>2
  <2> HIDE DEF i
  <2> QED BY <1>0, <1>1, <2>1 DEF VPPConfig
<1>5. i = SubIf(v)' /\ \A w \in Done : SubIf(w)' = SubIf(w)
  <2>1. sub'[v] = id /\ \A w \in Done : sub'[w] = sub[w]
    BY <1>0, <1>1, <1>2, <1>3
  <2> QED BY <2>1 DEF SubIf
<1> HIDE DEF i
<1>6. vpp'.subifs = {SubIf(w)' : w \in Done'}
  <2>1. vpp.subifs = {SubIf(w) : w \in Done}
    BY <1>0, <1>1 DEF SubIfInv
  <2> QED BY <1>2, <1>4, <1>5, <2>1
<1>7. StartTypeOK' /\ LoopInv' /\ IPInv'
  BY <1>0, <1>1, <1>2, <1>4 DEF StartTypeOK, LoopInv, IPInv
<1>8. TablesInv' /\ MainInv' /\ SubIfInv'
  BY <1>0, <1>1, <1>2, <1>4, <1>6 DEF TablesInv, MainInv, SubIfInv
<1> QED BY <1>1, <1>7, <1>8 DEF StartInv, LabelInv, HolesInv, ClearInv, ClearedIsEmpty

\* A label that is added leads to the sub-interface; the labels of the others
\* stay, unless they are the same.
LEMMA AddLocalLabelInv ==
  ASSUME StartInv, AddLocalLabel
  PROVE  StartInv'
<1> DEFINE v == Head(left)
           e == [label |-> Label(v), subif |-> sub[v]]
<1>0. /\ StartTypeOK /\ LoopInv /\ IPInv /\ TablesInv /\ MainInv /\ SubIfInv /\ LabelInv
      /\ vpp \in VPPConfig /\ IsFiniteSet(vpp.ip) /\ sub \in [VRFs -> SubIfIds \cup {UndefinedSubIf}]
  BY DEF StartInv, StartTypeOK
<1> USE DEF InLoops, RoutesGone, NoSubIfs, MainReset, Tabled, Switched, MainUp, Connected, Decapped,
            Labelled, Serving
<1>1. /\ pc = "addLabels" /\ pc' = "addLabels" /\ left # << >> /\ left' = Tail(left) /\ cfg' = cfg
      /\ wrapped' = wrapped /\ fib' = fib /\ sub' = sub
      /\ vpp' = [vpp EXCEPT !.lfib = {d \in vpp.lfib : d.label # Label(v)} \cup {e}]
  BY DEF AddLocalLabel, AddLabel, Visit, Go, clearVars
<1>2. /\ Configured' = Configured /\ Done' = Done \cup {v} /\ v \in Configured /\ v \in VRFs
      /\ left' \in Seq(Configured') /\ Distinct(left') /\ v \notin Done
  BY <1>0, <1>1, VisitDone
<1> HIDE DEF v
<1>3. e \in [label : {Label(w) : w \in VRFs}, subif : SubIfIds \cup {UndefinedSubIf}]
  BY <1>0, <1>2
<1>4. e.label = Label(v)
  OBVIOUS
<1> HIDE DEF e
<1>5. /\ vpp' \in VPPConfig /\ vpp'.ip = vpp.ip /\ vpp'.main = vpp.main /\ vpp'.tables = vpp.tables
      /\ vpp'.mpls = vpp.mpls /\ vpp'.decap = vpp.decap /\ vpp'.subifs = vpp.subifs
      /\ vpp'.lfib = {d \in vpp.lfib : d.label # Label(v)} \cup {e}
  BY <1>0, <1>1, <1>3 DEF VPPConfig
<1>6. ASSUME NEW w \in Done', \A u \in Configured' \ {w} : Label(u) # Label(w)
      PROVE  {d \in vpp'.lfib : d.label = Label(w)} = {[label |-> Label(w), subif |-> sub'[w]]}
  <2>1. CASE w = v
    <3>1. {d \in vpp'.lfib : d.label = Label(v)} = {e}
      BY <1>4, <1>5
    <3> QED BY <1>1, <2>1, <3>1 DEF e
  <2>2. CASE w # v
    <3>1. w \in Done /\ Label(v) # Label(w)
      BY <1>2, <1>6, <2>2
    <3>2. {d \in vpp'.lfib : d.label = Label(w)} = {d \in vpp.lfib : d.label = Label(w)}
      BY <1>4, <1>5, <3>1
    <3>3. Reached(w)
      BY <1>0, <1>1, <3>1 DEF LabelInv
    <3> QED BY <1>1, <1>2, <1>6, <3>2, <3>3 DEF Reached
  <2> QED BY <2>1, <2>2
<1>7. \A w \in Done' : Reached(w)'
  BY <1>6 DEF Reached, Label
<1>8. StartTypeOK' /\ LoopInv' /\ IPInv'
  BY <1>0, <1>1, <1>2, <1>5 DEF StartTypeOK, LoopInv, IPInv
<1>9. vpp'.subifs = {SubIf(w)' : w \in Configured'}
  <2>1. \A w \in Configured : SubIf(w)' = SubIf(w)
    BY <1>1 DEF SubIf
  <2> QED BY <1>0, <1>1, <1>2, <1>5, <2>1 DEF SubIfInv
<1>10. TablesInv' /\ MainInv' /\ SubIfInv' /\ LabelInv'
  BY <1>0, <1>1, <1>2, <1>5, <1>7, <1>9 DEF TablesInv, MainInv, SubIfInv, LabelInv
<1> QED BY <1>1, <1>8, <1>10 DEF StartInv, HolesInv, ClearInv, ClearedIsEmpty

\* The rest of the configuration.
LEMMA AddConfigInv ==
  ASSUME StartInv,
         \/ EndLoop("addSubifs", "decap") \/ AddUDPDecap \/ EndLoop("addLabels", "default")
         \/ AddDefaultRoute \/ AddBlackHole \/ EndLoop("holes", "ready")
  PROVE  StartInv'
<1>0. /\ StartTypeOK /\ LoopInv /\ IPInv /\ TablesInv /\ MainInv /\ SubIfInv /\ LabelInv /\ HolesInv
      /\ vpp \in VPPConfig /\ IsFiniteSet(vpp.ip)
  BY DEF StartInv, StartTypeOK
<1> USE DEF ClearInv, ClearedIsEmpty, Serving, Labelled, Decapped, Connected, MainUp, Switched,
            Tabled, MainReset, NoSubIfs, RoutesGone, InLoops
<1>1. CASE EndLoop("addSubifs", "decap")
  <2>1. /\ pc = "addSubifs" /\ pc' = "decap" /\ vpp' = vpp /\ wrapped' = wrapped /\ sub' = sub /\ cfg' = cfg
        /\ left' = VRFsOf(cfg)' /\ Configured' = Configured /\ Done = Configured
        /\ StartTypeOK' /\ left' \in Seq(Configured') /\ Distinct(left')
    BY <1>0, <1>1, LoopEnd
  <2>2. \A v \in Configured : SubIf(v)' = SubIf(v)
    BY <2>1 DEF SubIf
  <2>3. LoopInv' /\ IPInv' /\ TablesInv' /\ MainInv' /\ SubIfInv' /\ LabelInv' /\ HolesInv'
    BY <1>0, <2>1, <2>2 DEF LoopInv, IPInv, TablesInv, MainInv, SubIfInv, LabelInv, HolesInv
  <2> QED BY <2>1, <2>3 DEF StartInv
<1>2. CASE AddUDPDecap
  <2>1. /\ pc = "decap" /\ pc' = "addLabels" /\ left' = left /\ cfg' = cfg
        /\ sub' = sub /\ wrapped' = wrapped /\ fib' = fib
        /\ vpp' = [vpp EXCEPT !.decap = TRUE]
    BY <1>2 DEF AddUDPDecap, Go, clearVars
  <2>2. /\ Configured' = Configured /\ left = VRFsOf(cfg) /\ Configured = Range(VRFsOf(cfg))
    BY <1>0, <2>1 DEF Configured, VRFsOf, LoopInv
  <2>3. /\ vpp' \in VPPConfig /\ vpp'.ip = vpp.ip /\ vpp'.subifs = vpp.subifs /\ vpp'.main = vpp.main
        /\ vpp'.tables = vpp.tables /\ vpp'.mpls = vpp.mpls /\ vpp'.decap
    BY <1>0, <2>1 DEF VPPConfig
  <2>4. Done' = {}
    BY <2>1, <2>2 DEF Done
  <2>5. \A v \in Configured : SubIf(v)' = SubIf(v)
    BY <2>1 DEF SubIf
  <2>6. StartTypeOK' /\ LoopInv' /\ IPInv'
    BY <1>0, <2>1, <2>2, <2>3 DEF StartTypeOK, LoopInv, IPInv
  <2>7. TablesInv' /\ MainInv' /\ SubIfInv' /\ LabelInv' /\ HolesInv'
    BY <1>0, <2>1, <2>2, <2>3, <2>4, <2>5 DEF TablesInv, MainInv, SubIfInv, LabelInv, HolesInv
  <2> QED BY <2>1, <2>6, <2>7 DEF StartInv
<1>3. CASE EndLoop("addLabels", "default")
  <2>1. /\ pc = "addLabels" /\ pc' = "default" /\ vpp' = vpp /\ wrapped' = wrapped /\ sub' = sub /\ cfg' = cfg
        /\ left' = VRFsOf(cfg)' /\ Configured' = Configured /\ Done = Configured
        /\ StartTypeOK' /\ left' \in Seq(Configured') /\ Distinct(left')
    BY <1>0, <1>3, LoopEnd
  <2>2. \A v \in Configured : SubIf(v)' = SubIf(v) /\ Reached(v)' = Reached(v)
    BY <2>1, SameReached
  <2>3. LoopInv' /\ IPInv' /\ TablesInv' /\ MainInv' /\ HolesInv'
    BY <1>0, <2>1 DEF LoopInv, IPInv, TablesInv, MainInv, HolesInv
  <2>4. SubIfInv' /\ LabelInv'
    BY <1>0, <2>1, <2>2 DEF SubIfInv, LabelInv
  <2> QED BY <2>1, <2>3, <2>4 DEF StartInv
<1>4. CASE AddDefaultRoute
  <2>1. /\ pc = "default" /\ pc' = "holes" /\ left' = left /\ cfg' = cfg
        /\ sub' = sub /\ wrapped' = wrapped /\ fib' = fib
        /\ vpp' = [vpp EXCEPT !.ip = vpp.ip \cup {Default}]
    BY <1>4 DEF AddDefaultRoute, Go, clearVars
  <2>2. /\ Configured' = Configured /\ left = VRFsOf(cfg) /\ Configured = Range(VRFsOf(cfg))
    BY <1>0, <2>1 DEF Configured, VRFsOf, LoopInv
  <2>3. Default \in IPRoutes
    BY DEF Default, IPRoutes
  <2>4. /\ vpp' \in VPPConfig /\ vpp'.ip = vpp.ip \cup {Default} /\ vpp'.subifs = vpp.subifs
        /\ vpp'.main = vpp.main /\ vpp'.tables = vpp.tables /\ vpp'.mpls = vpp.mpls
        /\ vpp'.decap = vpp.decap /\ vpp'.lfib = vpp.lfib
    BY <1>0, <2>1, <2>3 DEF VPPConfig
  <2>5. Done' = {}
    BY <2>1, <2>2 DEF Done
  <2>6. \A v \in Configured : SubIf(v)' = SubIf(v) /\ Reached(v)' = Reached(v)
    BY <2>1, <2>4, SameReached
  <2>7. IsFiniteSet(vpp'.ip)
    BY <1>0, <2>4, FS_AddElement
  <2>8. Dumpable(vpp'.ip) = Dumpable(vpp.ip) \cup {Default}
    BY <2>4, NetsAssumption DEF Dumpable, Default
  <2>9. StartTypeOK' /\ LoopInv' /\ IPInv'
    BY <1>0, <2>1, <2>2, <2>4, <2>7, <2>8 DEF StartTypeOK, LoopInv, IPInv
  <2>10. TablesInv' /\ MainInv' /\ HolesInv'
    BY <1>0, <2>1, <2>2, <2>4, <2>5 DEF TablesInv, MainInv, HolesInv
  <2>11. SubIfInv' /\ LabelInv'
    BY <1>0, <2>1, <2>2, <2>4, <2>6 DEF SubIfInv, LabelInv
  <2> QED BY <2>1, <2>9, <2>10, <2>11 DEF StartInv
<1>5. CASE AddBlackHole
  <2>1. /\ pc = "holes" /\ pc' = "holes" /\ left # << >> /\ left' = Tail(left) /\ cfg' = cfg
        /\ sub' = sub /\ wrapped' = wrapped /\ fib' = fib
        /\ vpp' = [vpp EXCEPT !.holes = vpp.holes \cup {[vrf |-> Head(left)]}]
    BY <1>5 DEF AddBlackHole, Visit, Go, clearVars
  <2>2. /\ Configured' = Configured /\ Done' = Done \cup {Head(left)} /\ Head(left) \in VRFs
        /\ left' \in Seq(Configured') /\ Distinct(left')
    BY <1>0, <2>1, VisitDone
  <2>3. /\ vpp' \in VPPConfig /\ vpp'.ip = vpp.ip /\ vpp'.subifs = vpp.subifs
        /\ vpp'.main = vpp.main /\ vpp'.tables = vpp.tables /\ vpp'.mpls = vpp.mpls
        /\ vpp'.decap = vpp.decap /\ vpp'.lfib = vpp.lfib
        /\ vpp'.holes = vpp.holes \cup {[vrf |-> Head(left)]}
    <3> DEFINE h == [vrf |-> Head(left)]
    <3>1. h \in [vrf : VRFs]
      BY <2>2
    <3>2. vpp' = [vpp EXCEPT !.holes = vpp.holes \cup {h}]
      BY <2>1
    <3> HIDE DEF h
    <3>3. /\ vpp' \in VPPConfig /\ vpp'.ip = vpp.ip /\ vpp'.subifs = vpp.subifs
          /\ vpp'.main = vpp.main /\ vpp'.tables = vpp.tables /\ vpp'.mpls = vpp.mpls
          /\ vpp'.decap = vpp.decap /\ vpp'.lfib = vpp.lfib /\ vpp'.holes = vpp.holes \cup {h}
      BY <1>0, <3>1, <3>2 DEF VPPConfig
    <3> QED BY <3>3 DEF h
  <2>4. \A v \in Configured : SubIf(v)' = SubIf(v) /\ Reached(v)' = Reached(v)
    BY <2>1, <2>3, SameReached
  <2>5. StartTypeOK' /\ LoopInv' /\ IPInv'
    BY <1>0, <2>1, <2>2, <2>3 DEF StartTypeOK, LoopInv, IPInv
  <2>6. TablesInv' /\ MainInv' /\ HolesInv'
    BY <1>0, <2>1, <2>2, <2>3 DEF TablesInv, MainInv, HolesInv
  <2>7. SubIfInv' /\ LabelInv'
    BY <1>0, <2>1, <2>2, <2>3, <2>4 DEF SubIfInv, LabelInv
  <2> QED BY <2>1, <2>5, <2>6, <2>7 DEF StartInv
<1>6. CASE EndLoop("holes", "ready")
  <2>1. /\ pc = "holes" /\ pc' = "ready" /\ vpp' = vpp /\ wrapped' = wrapped /\ sub' = sub /\ cfg' = cfg
        /\ Configured' = Configured /\ Done = Configured
        /\ StartTypeOK' /\ left' \in Seq(Configured') /\ Distinct(left')
    BY <1>0, <1>6, LoopEnd
  <2>2. \A v \in Configured : SubIf(v)' = SubIf(v) /\ Reached(v)' = Reached(v)
    BY <2>1, SameReached
  <2>3. LoopInv' /\ IPInv' /\ TablesInv' /\ MainInv' /\ HolesInv'
    BY <1>0, <2>1 DEF LoopInv, IPInv, TablesInv, MainInv, HolesInv
  <2>4. SubIfInv' /\ LabelInv'
    BY <1>0, <2>1, <2>2 DEF SubIfInv, LabelInv
  <2> QED BY <2>1, <2>3, <2>4 DEF StartInv
<1> QED BY <1>1, <1>2, <1>3, <1>4, <1>5, <1>6

-----------------------------------------------------------------------------
(* The process.                                                            *)

\* The routes a process of this configuration can learn are finitely many.
LEMMA FiniteRoutes ==
  ASSUME StartTypeOK
  PROVE  IsFiniteSet([vrf : Configured, prefix : Nets])
<1> DEFINE A == Configured
           R == [vrf : A, prefix : Nets]
           f == [p \in A \X Nets |-> [vrf |-> p[1], prefix |-> p[2]]]
<1>1. IsFiniteSet(A)
  <2> DEFINE s == VRFsOf(cfg)
  <2>1. s \in Seq(A) /\ A = Range(s)
    BY ConfiguredLemma DEF Configured
  <2> HIDE DEF s
  <2>2. Len(s) \in Nat /\ s \in [1..Len(s) -> A] /\ DOMAIN s = 1..Len(s)
    BY <2>1, LenProperties
  <2>3. s \in Surjection(1..Len(s), A)
    BY <2>1, <2>2 DEF Surjection, Range
  <2>4. IsFiniteSet(1..Len(s))
    BY <2>2, FS_Interval
  <2> QED BY <2>3, <2>4, FS_Surjection
<1> HIDE DEF A
<1>2. IsFiniteSet(A \X Nets)
  BY <1>1, FS_Product, NetsAssumption
<1>3. f \in [A \X Nets -> R]
  OBVIOUS
<1>4. ASSUME NEW r \in R PROVE \E p \in A \X Nets : f[p] = r
  <2>1. <<r.vrf, r.prefix>> \in A \X Nets /\ r = [vrf |-> r.vrf, prefix |-> r.prefix]
    OBVIOUS
  <2>2. f[<<r.vrf, r.prefix>>] = [vrf |-> r.vrf, prefix |-> r.prefix]
    BY <2>1
  <2> QED BY <2>1, <2>2
<1>5. f \in Surjection(A \X Nets, R)
  BY <1>3, <1>4 DEF Surjection
<1> HIDE DEF f, R
<1>6. IsFiniteSet(R)
  BY <1>2, <1>5, FS_Surjection
<1> QED BY <1>6 DEF R, A

\* A start-up that is cut short, a death and a restart leave VPP as it is
\* found next.
LEMMA ProcessInv ==
  ASSUME StartInv, Interrupted \/ Serve \/ Restart
  PROVE  StartInv'
<1>0. /\ StartTypeOK /\ LoopInv /\ vpp \in VPPConfig /\ IsFiniteSet(vpp.ip) /\ cfg \in Configs
      /\ fib \in [FIPs -> SUBSET TunIds] /\ sub \in [VRFs -> SubIfIds \cup {UndefinedSubIf}]
  BY DEF StartInv, StartTypeOK
<1>1. CASE Fail
  <2>1. pc' = "fatal" /\ cfg' = cfg /\ vpp' = vpp /\ fib' = fib /\ sub' = [v \in VRFs |-> UndefinedSubIf]
    BY <1>1 DEF Fail, Forget
  <2>2. StartTypeOK'
    BY <1>0, <2>1 DEF StartTypeOK
  <2> QED BY <2>1, <2>2, IdleInv
<1>2. CASE ResetMainInterface(1)
  <2>1. pc' = "fatal" /\ cfg' = cfg /\ fib' = fib /\ sub' = sub
    BY <1>2 DEF ResetMainInterface, Go, clearVars
  <2>2. vpp' = [vpp EXCEPT !.main = [vpp.main EXCEPT !.addr = {}, !.up = vpp.main.up]]
    BY <1>2 DEF ResetMainInterface, Go
  <2>3. vpp' \in VPPConfig /\ vpp'.ip = vpp.ip
    BY <1>0, <2>2 DEF VPPConfig
  <2>4. StartTypeOK'
    BY <1>0, <2>1, <2>3 DEF StartTypeOK
  <2> QED BY <2>1, <2>4, IdleInv
<1>3. ASSUME NEW n \in 1..2, SetupMainInterface(n) PROVE StartInv'
  <2> DEFINE a == [addr |-> vpp.main.addr \cup {Head(cfg)}, up |-> vpp.main.up \/ n >= 2,
                   mpls |-> vpp.main.mpls \/ n = 3]
  <2>1. pc' = "fatal" /\ cfg' = cfg /\ fib' = fib /\ sub' = sub /\ vpp' = [vpp EXCEPT !.main = a]
    BY <1>3 DEF SetupMainInterface, Go, clearVars
  <2>2. a \in [addr : SUBSET (VRFs \cup {0}), up : BOOLEAN, mpls : BOOLEAN]
    <3>1. Head(cfg) \in VRFs \cup {0} /\ vpp.main.addr \in SUBSET (VRFs \cup {0})
      BY <1>0, ConfiguredLemma DEF VPPConfig
    <3> QED BY <3>1
  <2> HIDE DEF a
  <2>3. vpp' \in VPPConfig /\ vpp'.ip = vpp.ip
    BY <1>0, <2>1, <2>2 DEF VPPConfig
  <2>4. StartTypeOK'
    BY <1>0, <2>1, <2>3 DEF StartTypeOK
  <2> QED BY <2>1, <2>4, IdleInv
<1>4. ASSUME NEW id \in SubIfIds, NEW n \in 1..3, AddSubInterface(id, n) PROVE StartInv'
  <2> DEFINE v == Head(left)
             i == [id |-> id, vlan |-> v, table |-> IF n >= 2 THEN v ELSE 0, addr |-> n >= 3, up |-> n = 4]
  <2>1. /\ pc = "addSubifs" /\ left # << >> /\ left' = Tail(left)
        /\ pc' = "fatal" /\ cfg' = cfg /\ fib' = fib /\ sub' = sub
        /\ vpp' = [vpp EXCEPT !.subifs = vpp.subifs \cup {i}]
    BY <1>4 DEF AddSubInterface, Go, clearVars
  <2>2. v \in VRFs
    BY <1>0, <2>1, VisitDone DEF InLoops, RoutesGone
  <2> HIDE DEF v
  <2>3. i \in [id : SubIfIds, vlan : VRFs, table : VRFs \cup {0}, addr : BOOLEAN, up : BOOLEAN]
    BY <2>2
  <2> HIDE DEF i
  <2>4. vpp' \in VPPConfig /\ vpp'.ip = vpp.ip
    BY <1>0, <2>1, <2>3 DEF VPPConfig
  <2>5. StartTypeOK'
    BY <1>0, <2>1, <2>4 DEF StartTypeOK
  <2> QED BY <2>1, <2>5, IdleInv
<1>5. CASE Serve
  <2>1. /\ pc' = "fatal" /\ cfg' = cfg /\ sub' = [v \in VRFs |-> UndefinedSubIf]
        /\ fib' \in [FIPs -> {T \in SUBSET TunIds : Cardinality(T) <= MaxPaths}]
    BY <1>5 DEF Serve, Forget
  <2>2. fib' \in [FIPs -> SUBSET TunIds]
    BY <2>1
  <2>3. PICK R \in SUBSET [vrf : Configured, prefix : Nets] : vpp' = [vpp EXCEPT !.ip = vpp.ip \cup R]
    BY <1>5 DEF Serve, Configured
  <2>4. IsFiniteSet(R)
    BY <1>0, FiniteRoutes, FS_Subset
  <2>5. R \subseteq IPRoutes
    BY <1>0, ConfiguredLemma DEF IPRoutes
  <2>6. vpp' \in VPPConfig /\ vpp'.ip = vpp.ip \cup R
    BY <1>0, <2>3, <2>5 DEF VPPConfig
  <2>7. IsFiniteSet(vpp'.ip)
    <3>1. IsFiniteSet(vpp.ip \cup R)
      BY <1>0, <2>4, FS_Union, Zenon
    <3> QED BY <2>6, <3>1
  <2>8. StartTypeOK'
    BY <1>0, <2>1, <2>2, <2>6, <2>7 DEF StartTypeOK
  <2> QED BY <2>1, <2>8, IdleInv
<1>6. CASE Restart
  <2>1. /\ pc' = "dumpIP" /\ cfg' \in Configs /\ vpp' = vpp /\ fib' = fib
        /\ sub' = [v \in VRFs |-> UndefinedSubIf]
    BY <1>6 DEF Restart, Forget
  <2>2. StartTypeOK'
    BY <1>0, <2>1 DEF StartTypeOK
  <2> QED BY <2>1, <2>2, IdleInv
<1> QED BY <1>1, <1>2, <1>3, <1>4, <1>5, <1>6 DEF Interrupted

\* A step that changes nothing keeps the invariant.
LEMMA StutterInv ==
  ASSUME StartInv, UNCHANGED vars
  PROVE  StartInv'
<1>1. /\ pc' = pc /\ cfg' = cfg /\ vpp' = vpp /\ sub' = sub /\ left' = left /\ wrapped' = wrapped
      /\ fib' = fib /\ encap' = encap /\ tunnels' = tunnels /\ routes' = routes
  BY DEF vars, clearVars
<1>2. VRFsOf(cfg)' = VRFsOf(cfg) /\ Configured' = Configured /\ Done' = Done
  BY <1>1 DEF VRFsOf, Configured, Done
<1>3. \A v : SubIf(v)' = SubIf(v) /\ Reached(v)' = Reached(v)
  BY <1>1, SameReached
<1>4. \A f : Dump1(f)' = Dump1(f)
  BY <1>1 DEF Dump1
<1>5. StartTypeOK' /\ LoopInv' /\ IPInv'
  BY <1>1, <1>2 DEF StartInv, StartTypeOK, LoopInv, IPInv
<1>6. ClearInv' /\ TablesInv' /\ MainInv' /\ HolesInv'
  BY <1>1, <1>2, <1>4 DEF StartInv, ClearInv, ClearedIsEmpty, TablesInv, MainInv, HolesInv
<1>7. SubIfInv' /\ LabelInv'
  BY <1>1, <1>2, <1>3 DEF StartInv, SubIfInv, LabelInv
<1> QED BY <1>5, <1>6, <1>7 DEF StartInv

\* StartInv holds whatever earlier processes left in VPP and wherever
\* initVPP was cut short.
THEOREM StartInvHolds == Spec => []StartInv
<1>1. Init => StartInv
  BY InitInv
<1>2. StartInv /\ [Next]_vars => StartInv'
  <2> SUFFICES ASSUME StartInv, [Next]_vars PROVE StartInv'
    OBVIOUS
  <2>1. CASE InitVPP
    <3>1. CASE DumpIP
      BY <3>1, DumpIPInv
    <3>2. CASE DelIPRoute
      BY <3>2, DelIPRouteInv
    <3>3. CASE \/ EndLoop("ipRoutes", "labels") \/ DelLabel \/ EndLoop("labels", "subifs")
               \/ DelSubInterfaces \/ ClearFIPs \/ ResetMainInterface(2)
               \/ (\E flush \in BOOLEAN : DelVRF(flush)) \/ EndLoop("tables", "addTables")
      BY <3>3, ClearConfigInv
    <3>4. CASE \/ AddVRF \/ EndLoop("addTables", "mplsTable") \/ AddMPLSTable
               \/ SetupMainInterface(3)
      BY <3>4, AddTablesInv
    <3>5. CASE \E id \in SubIfIds : AddSubInterface(id, 4)
      BY <3>5, AddSubInterfaceInv
    <3>6. CASE AddLocalLabel
      BY <3>6, AddLocalLabelInv
    <3>7. CASE \/ EndLoop("addSubifs", "decap") \/ AddUDPDecap \/ EndLoop("addLabels", "default")
               \/ AddDefaultRoute \/ AddBlackHole \/ EndLoop("holes", "ready")
      BY <3>7, AddConfigInv
    <3> QED BY <2>1, <3>1, <3>2, <3>3, <3>4, <3>5, <3>6, <3>7 DEF InitVPP
  <2>2. CASE Interrupted \/ Serve \/ Restart
    BY <2>2, ProcessInv
  <2>3. CASE UNCHANGED vars
    BY <2>3, StutterInv
  <2> QED BY <2>1, <2>2, <2>3 DEF Next
<1> QED BY <1>1, <1>2, PTL DEF Spec

\* ClearVPPConfig leaves no tunnel and no floating IP route behind, whatever
\* the routes and tunnels were and however they shared each other
\* (clear_config.go:69-98), except paths whose ids do not fit in a byte.
THEOREM ClearedIsEmptyHolds == Spec => []ClearedIsEmpty
<1>1. StartInv => ClearedIsEmpty
  BY DEF StartInv, ClearInv
<1> QED BY <1>1, StartInvHolds, PTL

\* When initVPP returns, VPP has the whole static configuration, for every
\* configuration file before and after a restart (add_config.go).
THEOREM ReadyIsConfiguredHolds == Spec => []ReadyIsConfigured
<1>1. StartInv => ReadyIsConfigured
  <2> SUFFICES ASSUME StartInv, pc = "ready" PROVE ReadyIsConfigured
    BY DEF ReadyIsConfigured
  <2>1. pc \in Connected /\ pc \in MainUp /\ pc \in Decapped /\ pc \in Switched /\ pc \in Tabled
    BY DEF Tabled, Switched, MainUp, Connected, Decapped, Labelled, Serving
  <2>2. /\ Configured \subseteq vpp.tables /\ vpp.mpls /\ vpp.decap
        /\ vpp.subifs = {SubIf(v) : v \in Configured}
        /\ \A v \in Configured : [vrf |-> v] \in vpp.holes
        /\ vpp.main = [addr |-> {Head(cfg)}, up |-> TRUE, mpls |-> TRUE]
    BY <2>1 DEF StartInv, TablesInv, MainInv, SubIfInv, HolesInv
  <2> QED BY <2>2 DEF ReadyIsConfigured, Configured, SubIf
<1> QED BY <1>1, StartInvHolds, PTL

\* A label that one VRF has alone leads to the sub-interface bound to the
\* table of that VRF (mpls_label.go, add_config.go:69).
THEOREM LabelsReachTheirVRFHolds == Spec => []LabelsReachTheirVRF
<1>1. StartInv => LabelsReachTheirVRF
  <2> SUFFICES ASSUME StartInv, pc = "ready", NEW v \in Configured,
                      \A w \in Configured \ {v} : Label(w) # Label(v)
               PROVE  {e.subif : e \in {d \in vpp.lfib : d.label = Label(v)}} =
                        {i.id : i \in {j \in vpp.subifs : j.table = v}}
    BY DEF LabelsReachTheirVRF, Configured
  <2>1. pc \in Connected /\ pc \in Labelled
    BY DEF Connected, Decapped, Labelled, Serving
  <2>2. {d \in vpp.lfib : d.label = Label(v)} = {[label |-> Label(v), subif |-> sub[v]]}
    BY <2>1 DEF StartInv, LabelInv, Reached
  <2>3. {e.subif : e \in {d \in vpp.lfib : d.label = Label(v)}} = {sub[v]}
    <3> DEFINE L == {d \in vpp.lfib : d.label = Label(v)}
               r == [label |-> Label(v), subif |-> sub[v]]
    <3>1. L = {r} /\ r.subif = sub[v]
      BY <2>2
    <3> HIDE DEF L, r
    <3>2. {e.subif : e \in L} = {sub[v]}
      BY <3>1
    <3> QED BY <3>2 DEF L
  <2>4. vpp.subifs = {SubIf(w) : w \in Configured}
    BY <2>1 DEF StartInv, SubIfInv
  <2>5. \A w : SubIf(w).table = w /\ SubIf(w).id = sub[w]
    BY DEF SubIf
  <2>6. {j \in vpp.subifs : j.table = v} = {SubIf(v)}
    BY <2>4, <2>5
  <2>7. {i.id : i \in {j \in vpp.subifs : j.table = v}} = {sub[v]}
    BY <2>5, <2>6
  <2> QED BY <2>3, <2>7
<1> QED BY <1>1, StartInvHolds, PTL

\* No route of an earlier process is left in VPP but host routes, which are
\* not dumped (vpp.go:1204), unless a dump had more routes than NPaths counts
\* (clear_config.go:14, vpp.go:1216).
THEOREM OldRoutesGoneHolds == Spec => []OldRoutesGone
<1>1. StartInv => OldRoutesGone
  BY DEF StartInv, IPInv, OldRoutesGone, Serving
<1> QED BY <1>1, StartInvHolds, PTL
=============================================================================

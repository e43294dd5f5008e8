----------------------------- MODULE FloatingIP -----------------------------
(***************************************************************************)
(* The handler of BGP updates from Tungsten Fabric: the callback of the    *)
(* BEST table watch in HandleBGPUpdate (handle_bgp_update.go) with the two *)
(* operations it is made of, AddFIPAndTunnelInVPPAndStorage and            *)
(* DelFIPAndTunnelFromVPPAndStorage, over the in-memory storage (imdb),    *)
(* the VPP data plane and the VPNv4 table of the embedded GoBGP.           *)
(*                                                                         *)
(* The callback is the only writer of this state, so one update is one     *)
(* step.  What VPP answers is chosen by the environment: Faults names the  *)
(* calls whose reply may carry a non-zero Retval.  A reply that misses the *)
(* receive timeout (VPP has done what it was asked, the handler sees an    *)
(* error) is not among them: it stays in the shared stream and is taken    *)
(* for the reply to the next call, which is the subject of VPPStream.      *)
(* The process may die at any time (logger.Fatal of a monitor) or by the   *)
(* panic of AddPath, and systemd starts it again ("Restart=always").       *)
(***************************************************************************)
EXTENDS VPPRoute, FiniteSets

CONSTANTS
  VRFs,                \* VRF ids of the configuration
  Hosts,               \* /32 prefixes Tungsten Fabric announces
  FIPs,                \* those inside some aggregated floating IP prefix
  NHs,                 \* vRouter addresses
  Labels,              \* MPLS labels the vRouters assign
  TunIds,              \* ids VPP can give a udp tunnel
  UndefinedTunnelID,   \* model.UndefinedTunnelID
  NoRoute, NoTunnel,   \* no record in the storage
  Home,                \* the VRFs a vRouter's route targets for a prefix may name
  Faults               \* VPP calls that may be answered by an error

FaultKinds == {"addTunnel", "addRoute", "delRoute", "delTunnel"}

ASSUME LabelsAssumption == Labels \subseteq Nat
ASSUME FiniteAssumption == IsFiniteSet(Hosts) /\ FIPs \subseteq Hosts
ASSUME HomeAssumption   == Home \in [Hosts -> [NHs -> SUBSET VRFs]]
ASSUME FaultsAssumption == Faults \subseteq FaultKinds
ASSUME UndefinedAssumption == UndefinedTunnelID \notin TunIds

Paths   == [nh : NHs, tun : TunIds, label : Labels]
Routes  == [vrf : VRFs, paths : Seq(Paths)]
Tunnels == [id : TunIds, served : Nat]

ASSUME NoRecordAssumption == NoRoute \notin Routes /\ NoTunnel \notin Tunnels

VARIABLES
  fip,      \* VPPFIPRouteStorage: prefix -> [vrf, paths], or NoRoute
  tun,      \* VPPUDPTunnelStorage: vRouter -> [id, served], or NoTunnel
  served,   \* VPPVRFStorage: FIPServed of a VRF
  fib,      \* VPP: the paths of the floating IP routes
  encap,    \* VPP: the udp tunnels
  adv,      \* GoBGP: VRFs whose aggregated prefixes are in the VPNv4 table
  up        \* the process runs

vars == <<fip, tun, served, fib, encap, adv, up>>

\* What one run of the callback reads and writes.
State == [fip |-> fip, tun |-> tun, served |-> served,
          fib |-> fib, encap |-> encap, adv |-> adv]

-----------------------------------------------------------------------------
(* The VPP data plane, as the gateway uses it.                             *)

\* The FIB paths AddDelFIPRoute builds for route r to prefix f.
FibPaths(f, r) ==
  {[vrf |-> r.vrf, prefix |-> f, tun |-> r.paths[i].tun, label |-> r.paths[i].label] :
     i \in DOMAIN r.paths}

\* The entry of prefix f in the table of r's VRF.
FibEntry(F, f, r) == {e \in F : e.vrf = r.vrf /\ e.prefix = f}

\* ip_route_add_del_v2: with IsMultipath (set when there is more than one
\* path) the paths are added to or removed from the entry, without it the
\* entry is replaced or deleted.
FibAdd(F, f, r) ==
  (IF Len(r.paths) > 1 THEN F ELSE F \ FibEntry(F, f, r)) \cup FibPaths(f, r)

FibDelOnlyMultipath(F, f, r) ==                           \* mutant
  IF Len(r.paths) > 1 THEN F \ FibPaths(f, r) ELSE F

FibDel(F, f, r) ==
  IF Len(r.paths) > 1 THEN F \ FibPaths(f, r) ELSE F \ FibEntry(F, f, r)

\* udp_encap_add gives an id no live tunnel has.
FreeIds(s) == {id \in TunIds : \A e \in s.encap : e.id # id}

-----------------------------------------------------------------------------
(* The in-memory storage.                                                  *)

\* VPPUDPTunnelStorage.GetFIPServed: 0 when there is no record.
GetFIPServed(T, nh) == IF T[nh] = NoTunnel THEN 0 ELSE T[nh].served

\* DecFIPServed leaves a counter at 0 alone.
DecKeepsLast(n) == IF n <= 1 THEN n ELSE n - 1            \* mutant

Dec(n) == IF n = 0 THEN 0 ELSE n - 1

\* Inc/DecFIPServed of every next-hop of a route; no record, no effect.
IncServed(T, nhs) ==
  [n \in NHs |-> IF n \in nhs /\ T[n] # NoTunnel
                 THEN [id |-> T[n].id, served |-> T[n].served + 1] ELSE T[n]]

DecServedMissing(T, nhs) == T                             \* mutant

DecServed(T, nhs) ==
  [n \in NHs |-> IF n \in nhs /\ T[n] # NoTunnel
                 THEN [id |-> T[n].id, served |-> Dec(T[n].served)] ELSE T[n]]

\* The vRouters of a deleted route whose tunnel goes too.
UnusedTooEarly(T, nhs) == {n \in nhs : GetFIPServed(T, n) <= 1}   \* mutant

Unused(T, nhs) == {n \in nhs : GetFIPServed(T, n) = 0}

\* vppIPRoute.TunnelIDs[i] = the id of the next-hop's tunnel.
WithTunnelIDs(paths, T) ==
  [i \in DOMAIN paths |->
     [nh |-> paths[i].nh, tun |-> T[paths[i].nh].id, label |-> paths[i].label]]

\* The early return of AddFIPAndTunnelInVPPAndStorage.
AlreadyAdvertisedTooSoon(n) == n >= 1                     \* mutant

AlreadyAdvertised(n) == n > 2

-----------------------------------------------------------------------------
(***************************************************************************)
(* DelFIPAndTunnelFromVPPAndStorage: route r to prefix f is removed, v is  *)
(* the VRF of the update.  d says which deletions VPP refuses: an error is *)
(* logged and the storage is updated all the same.  The counter is that of *)
(* the route's VRF, the prefixes withdrawn are those of the update's VRF.  *)
(***************************************************************************)
DelFIPAndTunnel(s, f, r, v, d) ==
  LET nhs    == NextHops(r.paths)
      count  == [s.served EXCEPT ![r.vrf] = Dec(@)]
      rest   == DecServed(s.tun, nhs)
      unused == Unused(rest, nhs)
      ids    == {r.paths[i].tun : i \in {j \in DOMAIN r.paths :
                                           r.paths[j].nh \in unused \ d.tunnels}}
  IN  [fip    |-> [s.fip EXCEPT ![f] = NoRoute],
       tun    |-> [n \in NHs |-> IF n \in unused THEN NoTunnel ELSE rest[n]],
       served |-> count,
       fib    |-> IF d.route THEN s.fib ELSE FibDel(s.fib, f, r),
       encap  |-> {e \in s.encap : e.id \notin ids},
       adv    |-> IF count[r.vrf] = 0 THEN s.adv \ {v} ELSE s.adv]

\* The deletions VPP may refuse, by a Retval: it has deleted nothing then.
DelOutcomes(r) ==
  {d \in [route : BOOLEAN, tunnels : SUBSET NextHops(r.paths)] :
     /\ d.route => "delRoute" \in Faults
     /\ d.tunnels # {} => "delTunnel" \in Faults}

(***************************************************************************)
(* AddFIPAndTunnelInVPPAndStorage.  A tunnel is created for every next-hop *)
(* that has none, in path order; the first refusal (at path a.fail, 0 for  *)
(* none) returns and leaves the tunnels made so far.  Every path takes the *)
(* id of its next-hop's tunnel.  If VPP refuses the route (a.route), the   *)
(* tunnels stay and nothing else changes.  The prefixes are advertised     *)
(* while the VRF serves at most 2 floating IPs.                            *)
(***************************************************************************)
Missing(s, r) == {n \in NextHops(r.paths) : s.tun[n] = NoTunnel}

AddFIPAndTunnel(s, f, r, v, a) ==
  LET made  == {n \in Missing(s, r) : a.fail = 0 \/ PathIndex(r.paths, n) < a.fail}
      T     == [n \in NHs |-> IF n \in made THEN [id |-> a.ids[n], served |-> 0]
                                            ELSE s.tun[n]]
      E     == s.encap \cup {[id |-> a.ids[n], nh |-> n] : n \in made}
      route == [vrf |-> r.vrf, paths |-> WithTunnelIDs(r.paths, T)]
      count == [s.served EXCEPT ![r.vrf] = @ + 1]
  IN  IF a.fail # 0 \/ a.route
      THEN [s EXCEPT !.tun = T, !.encap = E]
      ELSE [fip    |-> [s.fip EXCEPT ![f] = route],
            tun    |-> IncServed(T, NextHops(r.paths)),
            served |-> count,
            fib    |-> FibAdd(s.fib, f, route),
            encap  |-> E,
            adv    |-> IF AlreadyAdvertised(count[r.vrf]) THEN s.adv ELSE s.adv \cup {v}]

\* The answers VPP may give: fresh ids, a refused tunnel, a refused route.
\* A refusal is a Retval: VPP has not made what it refuses.
AddOutcomes(s, r) ==
  {a \in [ids   : Injection(Missing(s, r), FreeIds(s)),
          fail  : {0} \cup {i \in DOMAIN r.paths : r.paths[i].nh \in Missing(s, r)},
          route : BOOLEAN] :
     /\ a.fail # 0 => "addTunnel" \in Faults
     /\ a.route => "addRoute" \in Faults /\ a.fail = 0}

-----------------------------------------------------------------------------
(* The callback.  An update u has been parsed: a configured VRF, a prefix, *)
(* a next-hop (the vRouter of the route distinguisher), a label.           *)

Updates ==
  {u \in [vrf : VRFs, prefix : Hosts, nh : NHs, label : Labels, withdraw : BOOLEAN] :
     u.vrf \in Home[u.prefix][u.nh]}

IsFIP(f) == f \in FIPs

IsFIPWithNHAndLabelExist(u) ==
  /\ fip[u.prefix] # NoRoute
  /\ HasPath(fip[u.prefix].paths, u.nh, u.label)

\* receivedRoute: one path, the tunnel not known yet.
ReceivedPath(u) == [nh |-> u.nh, tun |-> UndefinedTunnelID, label |-> u.label]

\* Every "continue" of the callback for a parsed update.
Ignored(u) ==
  IF u.withdraw
  THEN ~IsFIPWithNHAndLabelExist(u) \/ tun[u.nh] = NoTunnel
  ELSE ~IsFIP(u.prefix) \/ IsFIPWithNHAndLabelExist(u)

Apply(s) ==
  /\ fip' = s.fip /\ tun' = s.tun /\ served' = s.served
  /\ fib' = s.fib /\ encap' = s.encap /\ adv' = s.adv
  /\ up' = TRUE

\* The process is gone, and with it the storage and GoBGP; VPP is another
\* process and keeps what it has.
Die(s) ==
  /\ fip' = [f \in Hosts |-> NoRoute]
  /\ tun' = [n \in NHs |-> NoTunnel]
  /\ served' = [v \in VRFs |-> 0]
  /\ adv' = {}
  /\ fib' = s.fib /\ encap' = s.encap
  /\ up' = FALSE

\* Advertise, the prefix is not stored: the received route is installed.
NewFIP(u) ==
  LET r == [vrf |-> u.vrf, paths |-> <<ReceivedPath(u)>>]
  IN  /\ up /\ ~u.withdraw /\ ~Ignored(u)
      /\ fip[u.prefix] = NoRoute
      /\ \E a \in AddOutcomes(State, r) :
           Apply(AddFIPAndTunnel(State, u.prefix, r, u.vrf, a))

\* Advertise, the prefix is stored: the stored route is deleted, the path
\* added to it and the route created again.
ChangeFIP(u) ==
  /\ up /\ ~u.withdraw /\ ~Ignored(u)
  /\ fip[u.prefix] # NoRoute
  /\ LET old == fip[u.prefix]
         new == [old EXCEPT !.paths = AddPath(@, ReceivedPath(u))]
     IN  /\ ~AddPathPanics(old.paths, ReceivedPath(u))
         /\ \E d \in DelOutcomes(old) :
              LET s == DelFIPAndTunnel(State, u.prefix, old, u.vrf, d)
              IN  \E a \in AddOutcomes(s, new) :
                    Apply(AddFIPAndTunnel(s, u.prefix, new, u.vrf, a))

\* The same, when AddPath panics: the route is deleted and the process dies.
PanicFIP(u) ==
  /\ up /\ ~u.withdraw /\ ~Ignored(u)
  /\ fip[u.prefix] # NoRoute
  /\ AddPathPanics(fip[u.prefix].paths, ReceivedPath(u))
  /\ \E d \in DelOutcomes(fip[u.prefix]) :
       Die(DelFIPAndTunnel(State, u.prefix, fip[u.prefix], u.vrf, d))

\* Withdraw of the only path of the prefix.
WithdrawFIP(u) ==
  /\ up /\ u.withdraw /\ ~Ignored(u)
  /\ Len(fip[u.prefix].paths) = 1
  /\ \E d \in DelOutcomes(fip[u.prefix]) :
       Apply(DelFIPAndTunnel(State, u.prefix, fip[u.prefix], u.vrf, d))

\* Withdraw of one of several paths: the route is created again without it.
WithdrawPath(u) ==
  /\ up /\ u.withdraw /\ ~Ignored(u)
  /\ Len(fip[u.prefix].paths) # 1
  /\ LET old == fip[u.prefix]
         new == [old EXCEPT !.paths = DelPath(@, u.nh)]
     IN  \E d \in DelOutcomes(old) :
           LET s == DelFIPAndTunnel(State, u.prefix, old, u.vrf, d)
           IN  \E a \in AddOutcomes(s, new) :
                 Apply(AddFIPAndTunnel(s, u.prefix, new, u.vrf, a))

HandleUpdate(u) ==
  NewFIP(u) \/ ChangeFIP(u) \/ PanicFIP(u) \/ WithdrawFIP(u) \/ WithdrawPath(u)

\* A monitor calls logger.Fatal, or the host kills the process.
Crash == up /\ Die(State)

\* systemd starts the process; initVPP clears what the last one left in VPP
\* (ClearVPPConfig) before the watches begin on an empty storage.
Restart ==
  /\ ~up /\ up' = TRUE
  /\ fib' = {} /\ encap' = {}
  /\ UNCHANGED <<fip, tun, served, adv>>

Init ==
  /\ fip = [f \in Hosts |-> NoRoute]
  /\ tun = [n \in NHs |-> NoTunnel]
  /\ served = [v \in VRFs |-> 0]
  /\ fib = {} /\ encap = {} /\ adv = {}
  /\ up = TRUE

Next == (\E u \in Updates : HandleUpdate(u)) \/ Crash \/ Restart

Spec == Init /\ [][Next]_vars

-----------------------------------------------------------------------------
(* Properties.                                                             *)

FibPathType == [vrf : VRFs, prefix : Hosts, tun : TunIds, label : Labels]
EncapType   == [id : TunIds, nh : NHs]

\* Every variable has the shape the storage schemas and the VPP API give it:
\* in particular a stored route never holds UndefinedTunnelID.
TypeOK ==
  /\ fip \in [Hosts -> Routes \cup {NoRoute}]
  /\ tun \in [NHs -> Tunnels \cup {NoTunnel}]
  /\ served \in [VRFs -> Nat]
  /\ fib \in SUBSET FibPathType
  /\ encap \in SUBSET EncapType
  /\ adv \in SUBSET VRFs
  /\ up \in BOOLEAN

\* Prefixes whose route in table F goes through vRouter nh, or is in VRF v.
Via(F, nh) == {f \in Hosts : F[f] # NoRoute /\ nh \in NextHops(F[f].paths)}
In(F, v)   == {f \in Hosts : F[f] # NoRoute /\ F[f].vrf = v}

\* A stored route has at least one path and one path per vRouter: AddPath
\* replaces, the last path is withdrawn with the route.
DistinctNextHops ==
  \A f \in Hosts : fip[f] # NoRoute => fip[f].paths # <<>> /\ Distinct(fip[f].paths)

\* FIPServed of a tunnel is the number of stored floating IPs through its
\* vRouter, whatever VPP answered: the counter that decides when
\* DelFIPAndTunnelFromVPPAndStorage may delete the tunnel.
TunnelRefCount ==
  \A n \in NHs : GetFIPServed(tun, n) = Cardinality(Via(fip, n))

\* FIPServed of a VRF is the number of its stored floating IPs: the counter
\* that decides when the aggregated prefixes are advertised and withdrawn.
VRFRefCount == \A v \in VRFs : served[v] = Cardinality(In(fip, v))

\* Whatever VPP answers, what the storage holds is in VPP: the tunnel of
\* every record under an id of its own, and every stored path in the FIB
\* through the tunnel of its vRouter.
StoredIsInstalled ==
  /\ \A d, e \in encap : d.id = e.id => d = e
  /\ \A n \in NHs : tun[n] # NoTunnel => [id |-> tun[n].id, nh |-> n] \in encap
  /\ \A f \in Hosts : fip[f] # NoRoute =>
       /\ FibPaths(f, fip[f]) \subseteq fib
       /\ \A i \in DOMAIN fip[f].paths :
            /\ tun[fip[f].paths[i].nh] # NoTunnel
            /\ tun[fip[f].paths[i].nh].id = fip[f].paths[i].tun

\* The inductive invariant of FloatingIP_proofs: the above, and that a
\* process which is down has no storage.
DownIsEmpty ==
  ~up => (\A f \in Hosts : fip[f] = NoRoute) /\ (\A n \in NHs : tun[n] = NoTunnel)

IndInv ==
  /\ TypeOK /\ DistinctNextHops /\ TunnelRefCount /\ VRFRefCount /\ StoredIsInstalled
  /\ DownIsEmpty

\* VPP holds nothing the storage does not know of, unless VPP itself refused
\* to delete it; and a tunnel nobody uses exists only after a refused add.
\* What a call left in VPP whose reply came too late is not covered.
NothingLeftBehind ==
  up =>
    /\ "delRoute" \notin Faults =>
         \A e \in fib : fip[e.prefix] # NoRoute /\ e \in FibPaths(e.prefix, fip[e.prefix])
    /\ "delTunnel" \notin Faults =>
         \A e \in encap : tun[e.nh] # NoTunnel /\ tun[e.nh].id = e.id
    /\ Faults \cap {"addTunnel", "addRoute"} = {} =>
         \A n \in NHs : tun[n] # NoTunnel => tun[n].served > 0

\* VPP never forwards into a tunnel that is gone: the tunnel of every path
\* in the FIB exists, also while the process is down.
NoDanglingPath ==
  "delRoute" \notin Faults => \A p \in fib : \E e \in encap : e.id = p.tun

\* The aggregated prefixes of a VRF are advertised to the physical network
\* exactly while the VRF has a floating IP (the comments at
\* tunnel_route_add.go:82 and tunnel_route_remove.go:68).
AdvertisedIffServed == adv = {v \in VRFs : In(fip, v) # {}}

\* AddPath replaces a path without stopping the process: the comment at
\* vpp_route.go:55.
AddPathReplaces ==
  \A u \in Updates :
    up /\ ~u.withdraw /\ ~Ignored(u) /\ fip[u.prefix] # NoRoute
      => ~AddPathPanics(fip[u.prefix].paths, ReceivedPath(u))

-----------------------------------------------------------------------------
(* The abstract table: the storage, without tunnels and VRFs.              *)

Table == INSTANCE FIPTable WITH
  Lossy <- Faults \cap {"addTunnel", "addRoute"} # {},
  table <- [f \in Hosts |->
              IF fip[f] = NoRoute THEN {}
              ELSE {[nh |-> fip[f].paths[i].nh, label |-> fip[f].paths[i].label] :
                      i \in DOMAIN fip[f].paths}]

\* The handler implements the table: each update learns or forgets one path
\* of one floating IP and keeps all others, and a floating IP is lost only
\* when VPP refuses to install it again.
ImplementsFIPTable == Table!Spec
=============================================================================

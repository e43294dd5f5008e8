------------------------------- MODULE PhyNet -------------------------------
(***************************************************************************)
(* The handler of BGP updates from the physical network: the callback of   *)
(* the POST_POLICY watch in HandleBGPUpdate (handle_bgp_update.go).  Every *)
(* prefix a router announces becomes an IPv4 route of the VRF the router   *)
(* belongs to and a prefix of GoBGP's VPNv4 table.  What of that table is  *)
(* sent to Tungsten Fabric is up to the export policy, which lets only the *)
(* default route pass (gobgp.go:430; Peering, ExportsFiltered).            *)
(*                                                                         *)
(* The VRF is found by the router's address (parse_bgp_update_phynet.go)   *)
(* among the next-hops of all VRFs, the default one included; the storage  *)
(* of BGP VRFs has no record of the default VRF, and the nil is used.  An  *)
(* update whose source ASN is the gateway's own is parsed to nothing, that *)
(* is to the default VRF.                                                  *)
(*                                                                         *)
(* VPP outlives the process.  The next one clears the routes it dumps, and *)
(* the dump leaves out masks of 32 ("exclude all /32 for vRouter's UDP     *)
(* tunnels", vpp.go:1203), which a router may announce as well: such a     *)
(* route stays.                                                            *)
(*                                                                         *)
(* The routers, GoBGP and its FIFO of updates are as in TFSync.            *)
(***************************************************************************)
EXTENDS Naturals, Sequences, FiniteSets

CONSTANTS
  VRFs,          \* configured VRFs
  Default,       \* VRF 0
  Routers,       \* addresses of the BGP peers of the physical network
  NextHop,       \* VPPVRFTable.NextHop: the router of a VRF, the default gateway
  OwnASN,        \* routers that send the gateway's own ASN
  Prefixes,      \* what they announce
  HostPrefixes,  \* those with a mask of 32
  ByteRange,     \* values of the uint8 NPaths: 256
  Faults,        \* VPP calls that may be answered by an error
  MaxChanges,    \* bound: changes the routers make
  MaxCrashes     \* bound: crashes other than the panic

ASSUME DefaultAssumption == Default \notin VRFs
ASSUME RoutersAssumption == Routers \subseteq {NextHop[v] : v \in VRFs} /\ OwnASN \subseteq Routers
ASSUME PrefixAssumption  == HostPrefixes \subseteq Prefixes
ASSUME ByteAssumption    == ByteRange \in Nat
ASSUME FaultsAssumption  == Faults \subseteq {"addRoute", "delRoute"}
ASSUME BoundsAssumption  == MaxChanges \in Nat /\ MaxCrashes \in Nat

VARIABLES
  net,       \* what the routers announce: router -> set of prefixes
  post,      \* what GoBGP has handed to the watch
  queue,     \* updates the callback has not handled yet
  routes,    \* VPP: IPv4 routes this process has installed
  old,       \* VPP: IPv4 routes that earlier processes have left
  adv,       \* GoBGP: VPNv4 prefixes of the routers
  up,        \* the process runs
  refused,   \* history: entries whose last call VPP refused
  wrapped,   \* history: the dump at the last start did not fit in NPaths
  changes, crashes

vars == <<net, post, queue, routes, old, adv, up, refused, wrapped, changes, crashes>>

Nothing == [r \in Routers |-> {}]

Entries == [vrf : VRFs, prefix : Prefixes]
Updates == [router : Routers, prefix : Prefixes, withdraw : BOOLEAN]

Init ==
  /\ net = Nothing /\ post = Nothing /\ queue = <<>>
  /\ routes = {} /\ old = {} /\ adv = {} /\ up = TRUE
  /\ refused = {} /\ wrapped = FALSE
  /\ changes = 0 /\ crashes = 0

\* A router announces or withdraws a prefix.
Change(r, p) ==
  /\ changes < MaxChanges
  /\ net' = [net EXCEPT ![r] = IF p \in @ THEN @ \ {p} ELSE @ \cup {p}]
  /\ changes' = changes + 1
  /\ UNCHANGED <<post, queue, routes, old, adv, up, refused, wrapped, crashes>>

\* GoBGP learns the change and notifies the watch.
Announce(r, p) ==
  /\ up /\ (p \in net[r]) # (p \in post[r])
  /\ post' = [post EXCEPT ![r] = IF p \in net[r] THEN @ \cup {p} ELSE @ \ {p}]
  /\ queue' = Append(queue, [router |-> r, prefix |-> p, withdraw |-> p \notin net[r]])
  /\ UNCHANGED <<net, routes, old, adv, up, refused, wrapped, changes, crashes>>

\* ParseVPNv4UpdateFromPHYNET: the VRF of an update.  The loop ranges over a
\* Go map, in any order.
Matching(r) == {v \in VRFs \cup {Default} : NextHop[v] = r}

VRFOf(u) == IF u.router \in OwnASN THEN {Default} ELSE Matching(u.router)

\* The entry an update is about, and what VPP's answer makes of the history.
Entry(v, u) == [vrf |-> v, prefix |-> u.prefix]
Refused(e, ok) == IF ok THEN refused \ {e} ELSE refused \cup {e}

\* A route an earlier process left has a path through a sub-interface that is
\* gone.  A path is known by its next-hop and sub-interface: whether the call
\* finds the old one depends on the index VPP gave the new sub-interface.
Leftover(e, ok) == {old} \cup (IF ok THEN {old \ {e}} ELSE {})

\* AddDelIPRoute(true) and AdvWdrawVpnv4Prefix(ADVERTISE): an error of VPP is
\* logged and the prefix is advertised all the same.
AddRoute(v, u, ok) ==
  /\ routes' = IF ok THEN routes \cup {Entry(v, u)} ELSE routes
  /\ adv' = adv \cup {Entry(v, u)}

\* AddDelIPRoute(false) and AdvWdrawVpnv4Prefix(WITHDRAW).
DelRouteReturns(v, u, ok) ==                              \* mutant
  /\ routes' = IF ok THEN routes \ {Entry(v, u)} ELSE routes
  /\ adv' = IF ok THEN adv \ {Entry(v, u)} ELSE adv

DelRoute(v, u, ok) ==
  /\ routes' = IF ok THEN routes \ {Entry(v, u)} ELSE routes
  /\ adv' = adv \ {Entry(v, u)}

\* The two branches of the callback; VPP accepts the call or refuses it.
Advertise(u, v, ok) == ~u.withdraw /\ (ok \/ "addRoute" \in Faults) /\ AddRoute(v, u, ok)
Withdraw(u, v, ok)  == u.withdraw /\ (ok \/ "delRoute" \in Faults) /\ DelRoute(v, u, ok)

Handle ==
  /\ up /\ queue # <<>>
  /\ \E v \in VRFOf(Head(queue)) \ {Default}, ok \in BOOLEAN :
       /\ Advertise(Head(queue), v, ok) \/ Withdraw(Head(queue), v, ok)
       /\ refused' = Refused(Entry(v, Head(queue)), ok)
       /\ old' \in Leftover(Entry(v, Head(queue)), ok)
  /\ queue' = Tail(queue)
  /\ UNCHANGED <<net, post, up, wrapped, changes, crashes>>

\* The process dies; GoBGP, its table and its FIFO die with it.
Die ==
  /\ up' = FALSE /\ post' = Nothing /\ queue' = <<>> /\ adv' = {}
  /\ UNCHANGED <<net, routes, old, refused, wrapped, changes>>

\* "calculatedBGPVRF.RD" of the default VRF: a nil dereference.
Panic ==
  /\ up /\ queue # <<>> /\ Default \in VRFOf(Head(queue))
  /\ Die /\ UNCHANGED crashes

Crash == up /\ crashes < MaxCrashes /\ Die /\ crashes' = crashes + 1

\* initVPP of the next process deletes the routes it dumps, those of a mask
\* other than 32.  If they are too many for NPaths, the default route of the
\* global table included, any of them may stay (StartUp).  Whether a table
\* that is deleted takes its remaining routes along is left open.
Dumped == {e \in routes \cup old : e.prefix \notin HostPrefixes}
TooMany == Cardinality(Dumped) + 1 >= ByteRange

MayStay == IF TooMany THEN routes \cup old ELSE (routes \cup old) \ Dumped

RestartKeeps ==                                           \* mutant
  /\ ~up /\ up' = TRUE
  /\ routes' = {} /\ refused' = {} /\ wrapped' = TooMany /\ old' = routes \cup old
  /\ UNCHANGED <<net, post, queue, adv, changes, crashes>>

Restart ==
  /\ ~up /\ up' = TRUE
  /\ routes' = {} /\ refused' = {} /\ wrapped' = TooMany
  /\ old' \in SUBSET MayStay
  /\ UNCHANGED <<net, post, queue, adv, changes, crashes>>

Next ==
  \/ \E r \in Routers, p \in Prefixes : Change(r, p) \/ Announce(r, p)
  \/ Handle \/ Panic \/ Crash \/ Restart

\* As in TFSync: the sessions deliver, the callback returns, systemd restarts.
Fairness ==
  /\ \A r \in Routers, p \in Prefixes : WF_vars(Announce(r, p))
  /\ WF_vars(Handle \/ Panic) /\ WF_vars(Restart)

Spec == Init /\ [][Next]_vars /\ Fairness

-----------------------------------------------------------------------------
(* Properties.                                                             *)

\* Routes and advertisements are prefixes of configured VRFs.
TypeOK ==
  /\ net \in [Routers -> SUBSET Prefixes] /\ post \in [Routers -> SUBSET Prefixes]
  /\ queue \in Seq(Updates)
  /\ routes \subseteq Entries /\ old \subseteq Entries
  /\ adv \subseteq Entries /\ refused \subseteq Entries
  /\ up \in BOOLEAN /\ wrapped \in BOOLEAN
  /\ changes \in Nat /\ crashes \in Nat

\* The prefixes of B, each in the VRF of its router.
Wanted(B) == {e \in Entries : NextHop[e.vrf] \in Routers /\ e.prefix \in B[NextHop[e.vrf]]}

\* The process has given VPP exactly the routes W, but for the entries whose
\* last call VPP refused; and of earlier processes VPP has host routes only,
\* unless the dump that should have found the others was too long.
Installed(W) ==
  /\ \A e \in Entries \ refused : e \in routes <=> e \in W
  /\ wrapped \/ \A e \in old : e.prefix \in HostPrefixes

\* When the callback has caught up, GoBGP's VPNv4 table has exactly what the
\* routers announce, each prefix in the VRF of its router, whatever VPP
\* answered; and VPP has exactly those routes, but for refused calls and for
\* host routes of earlier processes.  The table is what GoBGP may advertise,
\* not what Tungsten Fabric is told: of it, the export policy lets the
\* default route pass.
InSync == up /\ queue = <<>> => adv = Wanted(post) /\ Installed(Wanted(post))

\* Once the routers stop changing, VPP and the VPNv4 table end up with what
\* they announce, also after crashes and panics and with the same exceptions,
\* unless a router goes on sending the gateway's own ASN, which kills the
\* process each time.
Converges ==
  <>[](\A r \in OwnASN : net[r] = {}) =>
    <>[](up /\ adv = Wanted(net) /\ Installed(Wanted(net)))
=============================================================================

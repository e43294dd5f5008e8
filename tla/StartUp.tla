------------------------------ MODULE StartUp -------------------------------
(***************************************************************************)
(* initVPP (internal/app/init_vpp.go): ClearVPPConfig removes what earlier *)
(* processes left in VPP, AddVPPInitConfig adds the static configuration:  *)
(* tables, interfaces, local labels, default route, black holes.  One      *)
(* action is one function of the adapter; those that make several calls    *)
(* may be cut short by a refused call or a crash.  An error ends the       *)
(* process (logger.Fatal in app.Init) and systemd starts it again, perhaps *)
(* with another configuration file.                                        *)
(*                                                                         *)
(* The storage returns the VRFs in the order of their names (GetVRFs reads *)
(* the index "name"), so a configuration is a sequence of VRF ids, the id  *)
(* 0 of the global table "ipv4-VRF:0" among them.  Each VRF has its own    *)
(* VLAN and next-hop, named here by its id.                                *)
(*                                                                         *)
(* Left open about VPP: the index of a new sub-interface, and whether the  *)
(* routes of a deleted table go with it.  A deletion of an absent table,   *)
(* label or path is no error.                                              *)
(***************************************************************************)
EXTENDS VPPClear, Sequences, SequencesExt

CONSTANTS
  Configs,      \* configurations: VRF ids in the order of the VRF names
  LocalIP,      \* VRF id -> its local address, four octets
  Nets,         \* prefixes the routers of the physical network announce
  HostNets,     \* those with a mask of 32
  FIPVRF,       \* the VRF of a floating IP prefix
  SubIfIds,     \* indices VPP may give a sub-interface
  UndefinedSubIf,
  ByteRange,    \* values of the uint8 NPaths: 256
  MaxPaths,     \* bound: paths of a floating IP
  MaxCrashes    \* bound: crashes and refused calls

VRFs == (UNION {Range(c) : c \in Configs}) \ {0}

ASSUME ConfigsAssumption ==
  \A c \in Configs :
    /\ c \in Seq(Nat) /\ 0 \in Range(c)
    /\ Len(c) = Cardinality(Range(c)) /\ Len(c) >= 2
ASSUME NetsAssumption == IsFiniteSet(Nets) /\ HostNets \subseteq Nets \ {"0.0.0.0/0"}
ASSUME FIPVRFAssumption == FIPVRF \in [FIPs -> VRFs]
ASSUME ByteRangeAssumption == ByteRange \in Nat \ {0}
ASSUME SubIfAssumption == UndefinedSubIf \notin SubIfIds

VARIABLES
  cfg,       \* the configuration of this process
  vpp,       \* the static configuration of VPP
  sub,       \* VPPVRFStorage: SubInterfaceID of a VRF
  left,      \* what the current loop has still to visit
  wrapped,   \* history: a dump of IP routes did not fit in NPaths
  crashes

vars == <<clearVars, pc, cfg, vpp, sub, left, wrapped, crashes>>

\* The VRFs the loops of both functions visit, in their order: all but the
\* one global table ("if table.ID == 0 { continue }").
VRFsOf(c) == RemoveAt(c, CHOOSE i \in DOMAIN c : c[i] = 0)

\* netutils.MPLSLabel: the octets written one after the other, the last four
\* digits of that number above 1000000.
Shift(d) == IF d < 10 THEN 10 ELSE IF d < 100 THEN 100 ELSE 1000
MPLSLabel(ip) == 1000000 + FoldLeft(LAMBDA n, d : (n * Shift(d) + d) % 10000, 0, ip)
Label(v) == MPLSLabel(LocalIP[v])

Default == [vrf |-> 0, prefix |-> "0.0.0.0/0"]

NoConfig ==
  [tables |-> {}, mpls |-> FALSE, decap |-> FALSE, subifs |-> {}, lfib |-> {},
   ip |-> {}, holes |-> {}, main |-> [addr |-> {}, up |-> FALSE, mpls |-> FALSE]]

Init ==
  /\ cfg \in Configs /\ vpp = NoConfig /\ sub = [v \in VRFs |-> UndefinedSubIf]
  /\ fib = [f \in FIPs |-> {}] /\ encap = {} /\ NoDump
  /\ pc = "dumpIP" /\ left = <<>> /\ wrapped = FALSE /\ crashes = 0

\* A step of initVPP that goes to q and leaves VPP's static part as n.
Go(q, n) == pc' = q /\ vpp' = n /\ UNCHANGED <<clearVars, cfg, wrapped>>

\* A refused call or a crash inside a step.
MayFail == crashes < MaxCrashes /\ crashes' = crashes + 1

\* "for _, table := range vppVRFs": one visit, then the next loop.
Visit(at) == pc = at /\ left # <<>> /\ left' = Tail(left) /\ UNCHANGED crashes
EndLoop(at, next) ==
  /\ pc = at /\ left = <<>> /\ left' = VRFsOf(cfg)
  /\ Go(next, vpp) /\ UNCHANGED <<sub, crashes>>

-----------------------------------------------------------------------------
(* ClearVPPConfig.                                                         *)

\* The routes DumpIPRoutes returns: those with a next-hop (black holes have
\* none, and are not in vpp.ip) and a mask other than 32 ("exclude all /32
\* for vRouter's UDP tunnels"), whoever the /32 was learned from.
Dumpable(R) == {r \in R : r.prefix \notin HostNets}

\* They come table by table.
DumpOrders ==
  {s \in SetToSeqs(Dumpable(vpp.ip)) : \A i, j, k \in DOMAIN s :
     i < j /\ j < k /\ s[i].vrf = s[k].vrf => s[j].vrf = s[i].vrf}

\* "dumpedRoute.NextHops" is never reset: the k-th route of the dump carries
\* the next-hops of the first k.
NextHopsOf(s) == [k \in DOMAIN s |-> [j \in 1..k |-> s[j].vrf]]

DumpIP ==
  /\ pc = "dumpIP"
  /\ \E s \in DumpOrders :
       left' = [k \in DOMAIN s |-> [route |-> s[k], nhs |-> NextHopsOf(s)[k]]]
  /\ pc' = "ipRoutes"
  /\ wrapped' = (wrapped \/ Cardinality(Dumpable(vpp.ip)) >= ByteRange)
  /\ UNCHANGED <<clearVars, cfg, vpp, sub, crashes>>

\* AddDelIPRoute(false): IsMultipath removes the paths it is sent, the first
\* uint8(len(NextHops)) of them.
SentPathsNone(nhs) == {}                                  \* mutant

SentPaths(nhs) == {nhs[j] : j \in 1..(Len(nhs) % ByteRange)}

DelIPRoute ==
  /\ Visit("ipRoutes")
  /\ LET d == Head(left)
     IN  Go("ipRoutes", IF d.route.vrf \in SentPaths(d.nhs)
                        THEN [vpp EXCEPT !.ip = @ \ {d.route}] ELSE vpp)
  /\ UNCHANGED sub

\* DumpMPLSLocalLabelRoute and AddDelMPLSLocalLabelRoute(false).
DelLabel ==
  /\ Visit("labels")
  /\ Go("labels", [vpp EXCEPT !.lfib = {e \in @ : e.label # Label(Head(left))}])
  /\ UNCHANGED sub

\* DelSubInterfaces: every index above the main interface, one by one.
DelSubInterfaces ==
  /\ pc = "subifs"
  /\ \/ \E i \in vpp.subifs : Go("subifs", [vpp EXCEPT !.subifs = @ \ {i}])
     \/ vpp.subifs = {} /\ Go("dump", vpp)
  /\ UNCHANGED <<sub, left, crashes>>

\* ResetMainInterface: all addresses, then the flags, which may or may not
\* work ("sometimes doesn't work, don't care!").
ResetMainInterfaceKeepsAddr(n) ==                         \* mutant
  /\ pc = "cleared" /\ n = 2
  /\ Go("tables", vpp) /\ UNCHANGED <<sub, left, crashes>>

ResetMainInterface(n) ==
  /\ pc = "cleared" /\ n \in 1..2
  /\ \E up \in BOOLEAN :
       LET m == [vpp.main EXCEPT !.addr = {}, !.up = IF n = 2 THEN up ELSE @]
       IN  Go(IF n = 2 THEN "tables" ELSE "fatal", [vpp EXCEPT !.main = m])
  /\ IF n = 2 THEN UNCHANGED crashes ELSE MayFail
  /\ UNCHANGED <<sub, left>>

\* AddDelVRF(false).
DelVRF(flush) ==
  LET v == Head(left)
      Keep(S) == IF flush THEN {e \in S : e.vrf # v} ELSE S
  IN  /\ Visit("tables")
      /\ pc' = "tables"
      /\ vpp' = [vpp EXCEPT !.tables = @ \ {v}, !.ip = Keep(@), !.holes = Keep(@)]
      /\ fib' = [f \in FIPs |-> IF flush /\ FIPVRF[f] = v THEN {} ELSE fib[f]]
      /\ UNCHANGED <<encap, pairs, tunnels, routes, cfg, wrapped, sub>>

-----------------------------------------------------------------------------
(* AddVPPInitConfig.                                                       *)

\* AddDelVRF(true).
AddVRF ==
  /\ Visit("addTables")
  /\ Go("addTables", [vpp EXCEPT !.tables = @ \cup {Head(left)}])
  /\ UNCHANGED sub

\* AddDelMPLSTable(true).
AddMPLSTable ==
  /\ pc = "mplsTable" /\ Go("main", [vpp EXCEPT !.mpls = TRUE])
  /\ UNCHANGED <<sub, left, crashes>>

\* SetupMainInterface(*vppVRFs[0]): address, admin state, MPLS; n of the
\* three calls are answered.
SetupMainInterface(n) ==
  LET m == vpp.main
      a == [addr |-> m.addr \cup {Head(cfg)}, up |-> m.up \/ n >= 2, mpls |-> m.mpls \/ n = 3]
  IN  /\ pc = "main"
      /\ IF n < 3 THEN MayFail ELSE UNCHANGED crashes
      /\ Go(IF n = 3 THEN "addSubifs" ELSE "fatal", [vpp EXCEPT !.main = a])
      /\ UNCHANGED <<sub, left>>

\* "table.SubInterfaceID = createdSubIf": the loop has the record itself.
StoredInCopy(s, v, id) == s                               \* mutant

Stored(s, v, id) == [s EXCEPT ![v] = id]

\* AddSubInterface: create, bind to the table, address, admin state; n of the
\* four calls are answered.
AddSubInterface(id, n) ==
  LET v == Head(left)
      i == [id |-> id, vlan |-> v, table |-> IF n >= 2 THEN v ELSE 0,
            addr |-> n >= 3, up |-> n = 4]
  IN  /\ pc = "addSubifs" /\ left # <<>> /\ left' = Tail(left)
      /\ \A j \in vpp.subifs : j.id # id
      /\ IF n < 4 THEN MayFail ELSE UNCHANGED crashes
      /\ Go(IF n = 4 THEN "addSubifs" ELSE "fatal", [vpp EXCEPT !.subifs = @ \cup {i}])
      /\ sub' = IF n = 4 THEN Stored(sub, v, id) ELSE sub

\* AddUDPDecap.
AddUDPDecap ==
  /\ pc = "decap" /\ Go("addLabels", [vpp EXCEPT !.decap = TRUE])
  /\ UNCHANGED <<sub, left, crashes>>

\* AddDelMPLSLocalLabelRoute(true) replaces the route of the label.
AddLabel(L, e) == {d \in L : d.label # e.label} \cup {e}

AddLocalLabel ==
  LET v == Head(left)
  IN  /\ Visit("addLabels")
      /\ Go("addLabels", [vpp EXCEPT !.lfib = AddLabel(@, [label |-> Label(v), subif |-> sub[v]])])
      /\ UNCHANGED sub

\* The default route of the global table.
AddDefaultRoute ==
  /\ pc = "default" /\ Go("holes", [vpp EXCEPT !.ip = @ \cup {Default}])
  /\ UNCHANGED <<sub, left, crashes>>

\* AddBlackHoleIPRoute, the aggregated prefixes of a VRF.
AddBlackHole ==
  /\ Visit("holes")
  /\ Go("holes", [vpp EXCEPT !.holes = @ \cup {[vrf |-> Head(left)]}])
  /\ UNCHANGED sub

-----------------------------------------------------------------------------
(* The process.                                                            *)

\* What the process had in memory is gone.
Forget ==
  /\ pairs' = {} /\ tunnels' = {} /\ routes' = {} /\ left' = <<>>
  /\ sub' = [v \in VRFs |-> UndefinedSubIf]

\* VPP refuses the next call, or the process is killed.
Fail ==
  /\ pc \notin {"fatal", "ready"} /\ MayFail /\ Forget
  /\ pc' = "fatal"
  /\ UNCHANGED <<fib, encap, cfg, vpp, wrapped>>

\* The process has served for a while when it dies: routes of the physical
\* network and floating IPs of its VRFs are in VPP, and tunnels, each
\* possibly without the other.
Serve ==
  /\ pc = "ready" /\ MayFail /\ Forget
  /\ pc' = "fatal"
  /\ \E R \in SUBSET [vrf : Range(VRFsOf(cfg)), prefix : Nets] : vpp' = [vpp EXCEPT !.ip = @ \cup R]
  /\ fib' \in {F \in [FIPs -> {T \in SUBSET TunIds : Cardinality(T) <= MaxPaths}] :
                 \A f \in FIPs : F[f] = fib[f] \/ (fib[f] = {} /\ FIPVRF[f] \in Range(cfg))}
  /\ encap' \in SUBSET TunIds
  /\ UNCHANGED <<cfg, wrapped>>

\* systemd starts the process again ("Restart=always").
Restart ==
  /\ pc = "fatal" /\ pc' = "dumpIP" /\ Forget
  /\ cfg' \in Configs
  /\ UNCHANGED <<fib, encap, vpp, wrapped, crashes>>

ClearFIPs == Clear /\ UNCHANGED <<cfg, vpp, sub, left, wrapped, crashes>>

InitVPP ==
  \/ DumpIP \/ DelIPRoute \/ EndLoop("ipRoutes", "labels")
  \/ DelLabel \/ EndLoop("labels", "subifs") \/ DelSubInterfaces
  \/ ClearFIPs \/ ResetMainInterface(2)
  \/ (\E flush \in BOOLEAN : DelVRF(flush)) \/ EndLoop("tables", "addTables")
  \/ AddVRF \/ EndLoop("addTables", "mplsTable") \/ AddMPLSTable
  \/ SetupMainInterface(3) \/ (\E id \in SubIfIds : AddSubInterface(id, 4))
  \/ EndLoop("addSubifs", "decap") \/ AddUDPDecap
  \/ AddLocalLabel \/ EndLoop("addLabels", "default") \/ AddDefaultRoute
  \/ AddBlackHole \/ EndLoop("holes", "ready")

Interrupted ==
  \/ Fail \/ ResetMainInterface(1)
  \/ \E n \in 1..2 : SetupMainInterface(n)
  \/ \E id \in SubIfIds, n \in 1..3 : AddSubInterface(id, n)

Next == InitVPP \/ Interrupted \/ Serve \/ Restart

\* Every call returns; systemd restarts.
Spec == Init /\ [][Next]_vars /\ WF_vars(InitVPP) /\ WF_vars(Restart)

-----------------------------------------------------------------------------
(* Properties.                                                             *)

\* When initVPP returns, VPP has what AddVPPInitConfig is for whatever the
\* processes before left half done and however they were configured: the
\* tables, one working sub-interface per VRF whose index is the one stored,
\* the black holes, the main interface up with one address (add_config.go).
\* That address is the one of the global table only if no VRF name sorts
\* before "ipv4-VRF:0" (vppVRFs[0], add_config.go:42).
ReadyIsConfigured ==
  pc = "ready" =>
    /\ Range(VRFsOf(cfg)) \subseteq vpp.tables /\ vpp.mpls /\ vpp.decap
    /\ vpp.subifs = {[id |-> sub[v], vlan |-> v, table |-> v, addr |-> TRUE, up |-> TRUE] :
                        v \in Range(VRFsOf(cfg))}
    /\ \A v \in Range(VRFsOf(cfg)) : [vrf |-> v] \in vpp.holes
    /\ vpp.main = [addr |-> {Head(cfg)}, up |-> TRUE, mpls |-> TRUE]

\* Labelled traffic of a VRF leaves through the sub-interface that is bound to
\* its table now, never through the index an earlier process had for it,
\* except for VRFs whose addresses give the same label (mpls_label.go:23).
LabelsReachTheirVRF ==
  pc = "ready" =>
    \A v \in Range(VRFsOf(cfg)) :
      (\A w \in Range(VRFsOf(cfg)) \ {v} : Label(w) # Label(v)) =>
        {e.subif : e \in {d \in vpp.lfib : d.label = Label(v)}} =
          {i.id : i \in {j \in vpp.subifs : j.table = v}}

\* No route to the physical network that DumpIPRoutes can return survives the
\* process that learned it ("delete existing non-host ipv4 routes for all
\* vrf", clear_config.go:14), unless a dump had too many for NPaths
\* (vpp.go:1216, 1328).  A learned host route is not dumped (vpp.go:1204): it
\* goes only if the deletion of its table takes it along, else it stays.
OldRoutesGone == pc = "ready" => Dumpable(vpp.ip) = {Default} \/ wrapped

\* initVPP succeeds in the end, however often it was cut short: no leftover
\* of an earlier process makes every later start-up fail.
StartUpEnds == <>[](pc = "ready")
=============================================================================

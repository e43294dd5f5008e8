------------------------------ MODULE VPPClear ------------------------------
(***************************************************************************)
(* The floating IP part of ClearVPPConfig                                  *)
(* (internal/repository/vpp/initialize/clear_config.go): at start-up the   *)
(* routes and udp tunnels a previous process left in VPP are removed, one  *)
(* call at a time.  StartUp puts these steps between the others of         *)
(* initVPP; FloatingIP!Restart does all of it in one step.                 *)
(*                                                                         *)
(* VPP answers the dump of a udp-encap path with the tunnel id in the      *)
(* other byte order; "ObjID / 16777216" keeps one byte of it.  A deletion  *)
(* of a tunnel that is already gone, which the loops ask for when two      *)
(* routes share a tunnel, may be answered by an error (StrictDelete).      *)
(***************************************************************************)
EXTENDS Naturals, FiniteSets

CONSTANTS
  FIPs,           \* floating IP prefixes
  TunIds,         \* tunnel ids in use, natural numbers
  StrictDelete    \* deleting a missing tunnel is an error

ASSUME TunIdsAssumption == TunIds \subseteq Nat
ASSUME StrictDeleteAssumption == StrictDelete \in BOOLEAN

VARIABLES
  fib,        \* VPP: prefix -> tunnel ids of its paths, {} without a route
  encap,      \* VPP: tunnel ids
  pc,         \* where initVPP is
  pairs,      \* matching (route, tunnel) pairs of the first loops not done yet
  tunnels,    \* dumped tunnels not deleted yet
  routes      \* dumped routes not deleted yet

clearVars == <<fib, encap, pairs, tunnels, routes>>

\* Nothing dumped.
NoDump == pairs = {} /\ tunnels = {} /\ routes = {}

\* ObjID / 2^24 of the byte-swapped id.
Decode(id) == id % 256

\* DumpFIPRoutes: the routes as the gateway sees them.
Dumped(F) == {[prefix |-> f, paths |-> F[f]] : f \in {g \in FIPs : F[g] # {}}}
DecodedIds(r) == {Decode(t) : t \in r.paths}

\* AddDelFIPRoute(false, r): several paths are removed one by one, by the
\* ids the gateway read; a single path takes the entry with it.
DelRoute(F, r) ==
  [F EXCEPT ![r.prefix] = IF Cardinality(r.paths) > 1 THEN @ \ DecodedIds(r) ELSE {}]

\* The answer to the deletion of tunnel t.
Deletable(t) == t \in encap \/ ~StrictDelete

\* Both dumps, and the pairs the nested loops will visit.
Dump ==
  /\ pc = "dump"
  /\ pc' = "pairs"
  /\ pairs' = {p \in Dumped(fib) \X encap : p[2] \in DecodedIds(p[1])}
  /\ UNCHANGED <<fib, encap, tunnels, routes>>

\* One visit of the nested loops: the route, then the tunnel.
DelPairRetries(r, t) ==                                   \* mutant
  /\ pc = "pairs" /\ <<r, t>> \in pairs /\ Deletable(t)
  /\ fib' = DelRoute(fib, r)
  /\ encap' = encap \ {t}
  /\ pairs' = pairs \ {<<r, t>>}
  /\ UNCHANGED <<pc, tunnels, routes>>

DelPair(r, t) ==
  /\ pc = "pairs" /\ <<r, t>> \in pairs
  /\ fib' = DelRoute(fib, r)
  /\ encap' = encap \ {t}
  /\ pairs' = pairs \ {<<r, t>>}
  /\ pc' = IF Deletable(t) THEN "pairs" ELSE "fatal"
  /\ UNCHANGED <<tunnels, routes>>

\* The second dump of the tunnels.
DumpTunnels ==
  /\ pc = "pairs" /\ pairs = {}
  /\ pc' = "tunnels" /\ tunnels' = encap
  /\ UNCHANGED <<fib, encap, pairs, routes>>

DelTunnel(t) ==
  /\ pc = "tunnels" /\ t \in tunnels
  /\ encap' = encap \ {t} /\ tunnels' = tunnels \ {t}
  /\ UNCHANGED <<fib, pc, pairs, routes>>

\* The second dump of the routes.
DumpRoutesSkipped ==                                      \* mutant
  /\ pc = "tunnels" /\ tunnels = {}
  /\ pc' = "routes" /\ routes' = {}
  /\ UNCHANGED <<fib, encap, pairs, tunnels>>

DumpRoutes ==
  /\ pc = "tunnels" /\ tunnels = {}
  /\ pc' = "routes" /\ routes' = Dumped(fib)
  /\ UNCHANGED <<fib, encap, pairs, tunnels>>

DelOrphan(r) ==
  /\ pc = "routes" /\ r \in routes
  /\ fib' = DelRoute(fib, r) /\ routes' = routes \ {r}
  /\ UNCHANGED <<encap, pc, pairs, tunnels>>

\* ClearVPPConfig goes on to the interfaces and tables.
Cleared ==
  /\ pc = "routes" /\ routes = {}
  /\ pc' = "cleared"
  /\ UNCHANGED <<fib, encap, pairs, tunnels, routes>>

Clear ==
  \/ Dump \/ DumpTunnels \/ DumpRoutes \/ Cleared
  \/ \E p \in pairs : DelPair(p[1], p[2])
  \/ \E t \in tunnels : DelTunnel(t)
  \/ \E r \in routes : DelOrphan(r)

-----------------------------------------------------------------------------
(* Properties.                                                             *)

\* When ClearVPPConfig goes on, no udp tunnel of an earlier process is left
\* and no floating IP route ("unconditionally delete all existing matching
\* routes to fips and udp tunnels" and the orphans, clear_config.go:69-98),
\* except paths over tunnels whose ids do not fit in a byte.
ClearedIsEmpty ==
  pc = "cleared" =>
    /\ encap = {}
    /\ \A f \in FIPs : \A t \in fib[f] : t > 255
=============================================================================

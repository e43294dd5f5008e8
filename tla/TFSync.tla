------------------------------- MODULE TFSync -------------------------------
(***************************************************************************)
(* Tungsten Fabric, the embedded GoBGP and the handler of FloatingIP:      *)
(* does the gateway converge to what Tungsten Fabric announces?            *)
(*                                                                         *)
(* A VPNv4 NLRI is a route distinguisher and a prefix.  GoBGP keeps one    *)
(* best path per NLRI and hands every change of it to the watch of the     *)
(* BEST table in order, through an unbounded FIFO; a withdrawal carries    *)
(* the NLRI, and so the label, of the path it removes.  The handler reads  *)
(* the vRouter out of the route distinguisher (parse_bgp_update_tf.go) and *)
(* knows nothing of the distinguisher itself: VRouterOf.                   *)
(*                                                                         *)
(* When the process dies GoBGP and the FIFO die with it; after the restart *)
(* the sessions come up and everything is announced again.                 *)
(***************************************************************************)
EXTENDS FloatingIP

CONSTANTS
  RDs,          \* route distinguishers
  VRouterOf,    \* the vRouter address in a route distinguisher
  NoPath,       \* an NLRI without a path
  MaxChanges,   \* bound: changes Tungsten Fabric makes
  MaxCrashes    \* bound: crashes other than the panic of AddPath

ASSUME VRouterAssumption == VRouterOf \in [RDs -> NHs]
ASSUME BoundsAssumption  == MaxChanges \in Nat /\ MaxCrashes \in Nat
ASSUME NoPathAssumption  == NoPath \notin Labels

VARIABLES
  tf,        \* what Tungsten Fabric announces: prefix -> RD -> label or NoPath
  rib,       \* what GoBGP has handed to the watch
  queue,     \* updates the callback has not handled yet
  changes, crashes

syncVars == <<tf, rib, queue, changes, crashes>>
allVars  == <<vars, syncVars>>

NoPaths == [f \in Hosts |-> [rd \in RDs |-> NoPath]]

SyncInit ==
  /\ Init
  /\ tf = NoPaths /\ rib = NoPaths /\ queue = <<>>
  /\ changes = 0 /\ crashes = 0

\* A vRouter comes, goes or changes its label.
TFChange(f, rd, label) ==
  /\ changes < MaxChanges
  /\ tf[f][rd] # label
  /\ tf' = [tf EXCEPT ![f][rd] = label]
  /\ changes' = changes + 1
  /\ UNCHANGED <<vars, rib, queue, crashes>>

\* GoBGP learns the change and notifies the watch.
Announce(f, rd) ==
  /\ up /\ rib[f][rd] # tf[f][rd]
  /\ \E v \in Home[f][VRouterOf[rd]] :
       queue' = Append(queue,
         [vrf |-> v, prefix |-> f, nh |-> VRouterOf[rd],
          label    |-> IF tf[f][rd] = NoPath THEN rib[f][rd] ELSE tf[f][rd],
          withdraw |-> tf[f][rd] = NoPath])
  /\ rib' = [rib EXCEPT ![f][rd] = tf[f][rd]]
  /\ UNCHANGED <<vars, tf, changes, crashes>>

\* The callback takes the next update: a change, a panic, or a "continue".
Handle ==
  /\ up /\ queue # <<>>
  /\ HandleUpdate(Head(queue)) \/ (Ignored(Head(queue)) /\ UNCHANGED vars)
  /\ queue' = IF up' THEN Tail(queue) ELSE <<>>
  /\ rib' = IF up' THEN rib ELSE NoPaths
  /\ UNCHANGED <<tf, changes, crashes>>

SyncCrash ==
  /\ crashes < MaxCrashes /\ Crash
  /\ crashes' = crashes + 1
  /\ queue' = <<>> /\ rib' = NoPaths
  /\ UNCHANGED <<tf, changes>>

SyncRestart == Restart /\ UNCHANGED syncVars

SyncNext ==
  \/ \E f \in Hosts, rd \in RDs :
       \/ \E label \in Labels \cup {NoPath} : TFChange(f, rd, label)
       \/ Announce(f, rd)
  \/ Handle \/ SyncCrash \/ SyncRestart

\* The session delivers what it has (TCP and the goroutines of GoBGP), the
\* callback returns because VPP answers, systemd restarts the process.
Fairness ==
  /\ \A f \in Hosts, rd \in RDs : WF_allVars(Announce(f, rd))
  /\ WF_allVars(Handle)
  /\ WF_allVars(SyncRestart)

SyncSafetySpec == SyncInit /\ [][SyncNext]_allVars

SyncSpec == SyncSafetySpec /\ Fairness

-----------------------------------------------------------------------------
(* Properties.                                                             *)

PathsOf(B, f) ==
  {[nh |-> VRouterOf[rd], label |-> B[f][rd]] : rd \in {q \in RDs : B[f][q] # NoPath}}

StoredPaths(f) ==
  IF fip[f] = NoRoute THEN {}
  ELSE {[nh |-> fip[f].paths[i].nh, label |-> fip[f].paths[i].label] :
          i \in DOMAIN fip[f].paths}

\* When the callback has caught up, the stored floating IPs are exactly what
\* GoBGP told it: no update was skipped or applied twice by the early
\* returns of HandleBGPUpdate, before or after a panic or a crash.
CaughtUp == up /\ queue = <<>> => \A f \in FIPs : StoredPaths(f) = PathsOf(rib, f)

\* Once Tungsten Fabric stops changing, the gateway ends up with exactly its
\* floating IPs and stays there, through panics, crashes and restarts.
Converges ==
  <>[](up /\ \A f \in FIPs : StoredPaths(f) = PathsOf(tf, f))
=============================================================================

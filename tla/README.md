# Verification of cloudgw

cloudgw connects the floating IPs of an OpenStack cloud (Tungsten Fabric, TF)
to a physical network. It is one Go process with an embedded BGP daemon
(GoBGP), next to the VPP data plane, which is a process of its own. It learns
floating IPs over BGP from TF, installs each one in VPP as a route over
MPLS-over-UDP tunnels, and advertises the aggregated prefixes to the routers of
the physical network; in the other direction it installs the prefixes of the
routers in VPP and puts them into GoBGP's VPNv4 table, of which the export policy
lets the default route go to TF.

This directory holds TLA+ models of that process, the TLC configurations that
check them on small instances, and TLAPS proofs, for every value of the constants,
of every safety property the runs check.
`PROJECT.json` ties every definition to source lines, every run to its question,
every property to a bug it notices, and lists the hazards and the disagreements
between code and comments.

```
tlc -config FloatingIP.cfg MCFloatingIP       # model-check a run of PROJECT.json
tlapm FloatingIP_proofs.tla                   # check the proofs
```

## 1. Inventory

### Components

`service`, `model`, `monitor`, `repository` and `controller` are under `internal/`.

| Part | Code | State | Operations |
|---|---|---|---|
| TF update handler | `service/handle_bgp_update.go` (BEST watch), `tunnel_route_add.go`, `tunnel_route_remove.go`, `parse_bgp_update_tf.go` | stored floating IP routes, udp tunnels and their counters (imdb); routes and tunnels of VPP; advertised aggregates (GoBGP) | new floating IP, new or changed path, withdrawal of one path or of the last |
| Route paths | `model/vpp_route.go` | three parallel slices | AddPath, DelPath |
| Physical network handler | `service/handle_bgp_update.go` (POST_POLICY watch), `parse_bgp_update_phynet.go` | IPv4 routes in VPP, VPNv4 prefixes of GoBGP | advertise, withdraw |
| Peer watch | `service/handle_bgp_update.go` (peer watch) | session state of each peer, active peer count, BFD flag | session event |
| BFD | `pkg/bfd`, `service/bfd_health_check.go` | session, UDP connection, channels, package-wide flag | session loop, packet handling, failure detection, reconnection |
| Closer | `pkg/closer` | list of functions | Add, CloseAll, Wait |
| Interface monitor | `monitor/vpp_interface.go` | failure counter | probe, count, delete peers, exit |
| VPP connection monitor | `monitor/vpp_conn.go` | channel of connection events | return from `Run` on a lost connection or a cancelled context |
| Start and end of the program | `internal/app` | main goroutine, context | Init, Run, ConfigureGoBGP |
| VPP adapter | `repository/vpp` | one binary API stream shared by all callers | request and reply of each API message, dumps |
| Start-up of VPP | `repository/vpp/initialize` | what an earlier process left in VPP | clear, then configure |
| In-memory storage | `repository/imdb` | go-memdb tables | get, add, update, delete, counters |
| GoBGP adapter | `repository/gobgp` | VPNv4 table, peers, VRFs, export policy | advertise, withdraw, add and delete peers, VRFs, create the policy |
| Network helpers | `pkg/netutils`, `pkg/typeconvert` | none | IsFIP, label assignment, prefix splitting |
| Configuration, logging, HTTP API, metrics, profiling | `internal/config`, `pkg/logger`, `controller/http`, `pkg/exporter`, `pkg/pyroscope` | configuration, counters | read and print |

`PROJECT.json` "components" lists them with their files and what is modelled of
each.

### Interactions

* GoBGP calls three callbacks registered by `HandleBGPUpdate` (BEST table,
  POST_POLICY table, peers). Each watch delivers its events in order and has a
  goroutine of its own, so the callbacks run concurrently with each other.
* The BEST and POST_POLICY callbacks, the metrics collector and the HTTP API use
  one VPP API stream without a lock.
* The peer watch starts one BFD goroutine per monitored peer; a BFD failure
  calls `closer.CloseAll` and exits. A signal calls `CloseAll`, which cancels
  the context and lets `Run` return; so does a lost connection to VPP. The
  interface monitor exits with `logger.Fatal`. systemd starts the process again
  (`Restart=always`), perhaps with another configuration file.
* Sessions come up as soon as a peer is added, before the export policy exists
  and while `Run` goes on; the closer functions run concurrently with each other
  and, after an early signal, with `ConfigureGoBGP`.
* The storage and GoBGP die with the process. VPP keeps its state, which the
  next process clears before it starts the watches.

### What is hard, and what must hold

* **Reference counts.** A tunnel is shared by the floating IPs of a vRouter and
  deleted by a counter; the aggregated prefixes of a VRF are advertised and
  withdrawn by another. Every change of a route is a deletion followed by an
  addition, with VPP errors that are logged and survived on one side and
  returned on the other. The counters must stay exact, storage and data plane
  must agree, nothing may be left behind.
* **Early returns.** The handler skips updates it thinks it knows. It must not
  lose or repeat one.
* **Crashes.** The process may die between any two VPP calls. Start-up must
  remove whatever was left, half made interfaces included, must configure what
  the present file asks for, and must end.
* **Start and end.** A signal or a lost connection at any step of the start-up;
  sessions and routes before the policy; functions added to a closer that has
  already run.
* **Shared stream.** Requests and replies of concurrent callers are matched by
  order only; a late reply stays in the stream.
* **Unlocked sessions.** Five goroutines share a BFD session and two channels.
  A silent peer must stop the program, a healthy or never-seen one must not, and
  shutdown must not block.
* **Mixed up fields.** Two setters of the BFD intervals read or write the field of
  another; whether the detection time comes out right depends on their order.
* **Numbers at limits.** Ten failed probes; one byte of a tunnel id; a byte that
  counts paths; 32 bits of a detection time; label 0; labels of four digits.

The hazards, line by line, are in `PROJECT.json`.

## 2. Modules

| Module | Models | Uses |
|---|---|---|
| `VPPRoute` | path sequences, AddPath with its panic, DelPath | |
| `FloatingIP` | TF update handler over storage, VPP and GoBGP | `VPPRoute`, `FIPTable` |
| `FIPTable` | abstract: what the handler promises | |
| `TFSync` | TF, GoBGP's FIFO and the handler together | `FloatingIP` |
| `PhyNet` | routers, GoBGP's FIFO and the physical network handler | |
| `PeerWatch` | peer watch | |
| `Peering` | Init, Run, ConfigureGoBGP, export policy, closer, VPPConnStatus, with the peer watch | `PeerWatch` |
| `BFDState` | the BFD state machine | |
| `BFDSession` | BFD goroutines, CheckBFDPeerStatus, their closer functions | `BFDState` |
| `BFDTimers` | negotiation of the BFD intervals | `BFDState` |
| `InterfaceMonitor` | ProbeVPPInterface | |
| `VPPClear` | the floating IP part of ClearVPPConfig | |
| `StartUp` | initVPP: ClearVPPConfig and AddVPPInitConfig | `VPPClear` |
| `VPPStream` | requests, dumps and replies on the shared stream | |
| `FloatingIP_proofs` | TLAPS proofs of `VPPRoute`, `FloatingIP`, `TFSync` | |
| `Peering_proofs` | TLAPS proofs of `PeerWatch`, `Peering` | |
| `StartUp_proofs` | TLAPS proofs of `VPPClear`, `StartUp` | |
| `PhyNet_proofs`, `BFDSession_proofs`, `BFDTimers_proofs`, `InterfaceMonitor_proofs`, `VPPStream_proofs` | TLAPS proofs of one module each | |
| `MC...` | values of constants and symmetry for TLC | |

### FloatingIP

`fip`, `tun`, `served` are the storages `VPPFIPRouteStorage`,
`VPPUDPTunnelStorage`, `VPPVRFStorage`; `fib`, `encap` the routes and tunnels of
VPP; `adv` the VRFs whose aggregates are in the VPNv4 table; `up` the process.

The BEST callback is the only writer of this state, so one update is one step:
`NewFIP`, `ChangeFIP`, `PanicFIP`, `WithdrawFIP`, `WithdrawPath` are the branches
of the callback, `Ignored` its `continue`s. `DelFIPAndTunnel` and
`AddFIPAndTunnel` map a whole state to the state after the two service functions,
in the order of the code: the deletion keeps going after a VPP error and updates
the storage all the same, the addition stops at the first error and leaves the
tunnels it has made. The environment chooses VPP's answers (`DelOutcomes`,
`AddOutcomes`) within the kinds of fault the constant `Faults` allows. `FibAdd` and
`FibDel` are VPP's `ip_route_add_del_v2` with and without `IsMultipath`.

`Crash` kills the process; `Restart` is start-up with VPP cleared. That clearing
is one step here and many in `StartUp`, where it starts from any leftover,
including those of a crash between two calls of the handler.

Assumed: GoBGP's BEST watch reports a withdrawal with the NLRI, and so with the
label, of the path that is removed (the comment "label = 0 for withdraw" at
`parse_bgp_update_tf.go:84` says otherwise; with label 0 no withdrawal would ever
match a stored path). A VPP call that fails here is one VPP refused by its
`Retval`. Not modelled: a call VPP carries out while the handler gives up on the
reply (`vpp.go:66`); the late reply also puts every later call on the stream off by
one, which is the subject of `VPPStream`. Nor are errors of the in-process
`AdvWdrawVpnv4Prefix`, and the JSON walk of the parser.

`Home` gives, for a prefix and a vRouter, the VRFs its route targets may name. In
the runs that pass, all vRouters announce a prefix in one VRF; the
proofs allow any.

### TFSync and PhyNet

TF (or the routers) change what they announce; GoBGP hands each change to the
watch through an unbounded FIFO; the callback takes the head. `TFSync` reuses the
handler of `FloatingIP` unchanged. A vRouter is read out of the route
distinguisher: the runs give each vRouter one, and no text of the repository
promises anything about two distinguishers of one vRouter.

In `PhyNet` the VRF of an update is the one whose next-hop is the router. An
update with the gateway's own ASN, or from the gateway of the default VRF, is
resolved to VRF 0, which has no BGP record: `Panic`. VPP errors are logged and
the prefix enters GoBGP's VPNv4 table (`adv`) all the same; the history variable
`refused` holds the entries whose last call VPP refused. `adv` is not what TF
hears: the export policy rejects all of it but the default route
(`gobgp.go:430`), which is `ExportsFiltered` of `Peering`.

`old` holds the routes that earlier processes left in VPP. `Restart` takes from it
what the start-up dumps and deletes: the routes with a mask other than 32
(`vpp.go:1204`), all of them unless they were too many for the byte that counts
paths (history `wrapped`). Whether a later call for the same prefix also removes an
old path depends on the index VPP gave the new sub-interface, so `Leftover` leaves
it open.

### BFDSession and BFDTimers

In `BFDSession` one record per peer holds the program counters of the goroutines
and what they share. Time is reduced to "longer than the detection time since
`LastRxPacketTime`" (`stale`), intervals to whether a packet restarts the client.
`RxPacket` is two steps because it writes the state long before
`LastRxPacketTime`. `ConnClosed` includes the recovered panic of `closeConn`.
`heard` and `fell` are history. Not modelled: the conditions that suppress
transmission (passive role, remote interval zero, demand mode), encoding, and
authentication, which drops a packet before anything changes. Each peer is
assumed to have a local address of its own, as the listeners need.

`BFDTimers` is the other half of `RxPacket`: the record `t` holds the fields of
the session the setters change, and each setter is an operator on it that
follows the code with its mixed up fields: `setRemoteDetectMult` uses the old
multiplier as an interval, `setRemoteMinTxInterval` stores its value in
`remoteMinRxInterval`. A packet applies them in the order of `RxPacket`, then what
the change of state does, then the end of a poll. The peer may send anything.
Times are numbers modulo `Word`, the 2^32 of the code. `last`, `again` and `maxRx`
are history.

### Peering

The main goroutine walks through `Init` and `Run` (`pc`, `visit`); `CloseAll` may be
called by the signal goroutine at any of its steps and takes the functions added
so far (`funcs`, `todo`), which then run as actions of their own. GoBGP
(`added`, `up`, `policy`, `rib`, `sent`) brings sessions up as soon as a peer is
added and sends routes through the policy of that moment; a route is the length
of its mask. The peer watch of `PeerWatch` hears of a session event unless it has
not been started yet or its context is cancelled. `StartFails` is `logger.Fatal`,
`Kill` the second signal. `CreateGoBGPPolicy` assigns the policy as its last call, so
it is one step that works or does not; its error is only logged.

Not in it: the BFD sessions' closer functions, which are in `BFDSession`, and the
exit of the interface monitor. The channel of connection events holds one event
here; the first that `VPPConnStatus` acts on ends it.

### StartUp and VPPClear

One action is one function of the VPP adapter; functions with several calls may
also be cut short after each of them (`SetupMainInterface(n)`,
`AddSubInterface(id, n)`: n answered calls). `vpp` is the static configuration of
VPP, `fib` and `encap` its floating IP routes and tunnels, `sub` the stored index of
each VRF's sub-interface, `cfg` the configuration of the present process as the
VRF ids in the order `GetVRFs` returns them, by name. `Serve` lets a process that
is ready die with any routes of its VRFs and any tunnels, each without the other;
`Restart` starts with any configuration. `MPLSLabel` computes labels from the octets.
`Dumpable` is the filter of `DumpIPRoutes`: a route learned for a prefix of
`HostNets` (mask 32) is not in the dump and not deleted with it.

Where the code leaves VPP's behaviour open, so does the model: the index of a new
sub-interface, whether deleting a table flushes its routes, whether deleting a
missing tunnel is an error (`StrictDelete`), whether the flags of the main
interface can be reset. Assumed: deleting an absent table, label or path is no
error, and each VRF has a VLAN and a next-hop of its own. The routes of the
physical network have one next-hop, as the handler installs them, and their address
is not that of the next-hop, which the dump would take for an interface
(`vpp.go:1202`).

### InterfaceMonitor, PeerWatch, VPPStream

`InterfaceMonitor` has one action per probe and per deleted peer; `deadRun` is the
history of the outage, dead answers since the last alive one, and `ended` what it was
when an alive answer broke the counting loop. `PeerWatch` follows the aliasing of the storage:
`GetBGPPeer` returns the stored record, so the callback sees the new state.
`VPPStream` keeps requests and replies in order and tags them with the call they
belong to, to see who gets what. A dump sends its request and a `ControlPing` in
two steps, receives details until the reply to a ping, and returns an error at
any other message; a call with one reply panics at a foreign type.

## 3. Runs

Passing runs:

| Run | Bounds | Shows |
|---|---|---|
| `fip` | 2 VRFs, 4 floating IPs (3 in one VRF), 1 other prefix, 2 vRouters, labels 0 and 1, 3 tunnel ids | VPP may refuse all but the removal of a route: exact counters, `StoredIsInstalled`, `NoDanglingPath`, `NothingLeftBehind`, `AdvertisedIffServed`, refinement of the lossy `FIPTable` |
| `tf_sync` | 2 floating IPs, 2 vRouters, 3 changes, 1 crash, refused removals of routes | `CaughtUp`, `Converges`, refinement of the lossless `FIPTable` |
| `phynet` | 2 routers, one with the own ASN, 3 prefixes, one of them a host, 5 changes, 1 crash, refused calls | `InSync`, `Converges` |
| `peering` | a controller, a router with BFD, 1 VRF, masks 0, 24 and 32 | `ActiveCountExact`, `OneMonitorPerPeer`, `PeersGoneAtExit`, `ExportsFiltered`, `SignalStopsApp`, `VPPLossStopsApp` |
| `interface_monitor` | limit 10 as in the code, 2 peers | `StopsOnlyWhenDead`, `DeadInterfaceStopsApp` |
| `bfd` | 1 peer, every event | `StopsOnlyAfterUp`, `DoneForcesExit`, `ShutdownCompletes`, `ConnectionHeals`, `DetectionStopsApp`, `FalseAlarmOnlyInWindow`, `PanicsOnlyUnconnected` |
| `bfd_timers` | 3 and 2 configured intervals, 4 of the peer, 2 multipliers, words of 4 bits | `DetectTimeRight`, `TxRespectsPeer`, `RestartOnlyIfLowered` |
| `start_up` | 2 configurations of 2 VRFs, 2 floating IPs over up to 2 tunnels, 2 prefixes, one of them a host, 2 crashes or refusals | `ClearedIsEmpty`, `ReadyIsConfigured`, `LabelsReachTheirVRF`, `OldRoutesGone`, `StartUpEnds` |
| `vpp_stream` | 3 callers, 4 calls, dumps of up to 2 rows, late replies | `RepliesBalance`, `OnlySharingMixes`, `CallsReturn` |

Runs that end in a violation, each with a finding that quotes the text the code
contradicts:

| Run | What the trace shows |
|---|---|
| `add_path_replaces` | two vRouters announce a floating IP, the first changes its label: `AddPath` indexes past the slice and the process dies |
| `bfd_second_peer` | failure detection runs for one session of the process: the silence of a second peer is never noticed |
| `vpp_stream_shared` | the reply to `AddUDPTunnel` of one callback reaches `AddDelIPRoute` of another, whose type assertion panics (`vpp.go:1344`) |

### What the passing properties except

Where the code does less than its comments say and no run of its own shows it,
the property that is checked names the exception, or its run leaves the case out:

* `AdvertisedIffServed` is checked with one VRF per prefix. A stored route is
  found by prefix and keeps its first VRF, so a prefix announced in two VRFs has
  the second VRF's aggregates advertised without a floating IP
  (`tunnel_route_remove.go:70`).
* `DetectionStopsApp` excepts a `DetectFailure` that returned: it does so whenever
  the UDP client is replaced (`session.go:529`) and is never started again.
* `ShutdownCompletes` excepts a session loop blocked by a failed first
  `NewClient` (`session.go:139`): there CloseAll waits for ever.
* `FalseAlarmOnlyInWindow` allows a failure declared between the two writes of
  `RxPacket` (`session.go:268` and `:339`), although a packet has just arrived.
* `PanicsOnlyUnconnected` allows the panic of a packet with the poll bit that
  arrives before the session loop has its first connection (`session.go:306`).
* `DetectTimeRight` excepts a product that does not fit in 32 bits and a transmit
  interval configured above one second, which is parked as a detection time
  (`session.go:513`); `RestartOnlyIfLowered` excepts the latter too. The example
  configuration has such an interval (`docs/eng/cloudgw_config.adoc:63`, 3000).
  `TxRespectsPeer` excepts a peer whose two intervals are equal, which
  `setRemoteMinRxInterval` takes for known (`session.go:458`).
* `ClearedIsEmpty` allows paths over tunnels with ids above 255: the dump keeps
  one byte of the id (`vpp.go:822`).
* `StoredIsInstalled` and `NothingLeftBehind` are about calls VPP refuses. A call VPP
  carries out although its reply misses the receive timeout (`vpp.go:66`) is not
  among the faults of `FloatingIP`.
* `OldRoutesGone`, `InSync` and `Converges` of `PhyNet` except learned routes with a
  mask of 32. `DumpIPRoutes` leaves them out ("exclude all /32 for vRouter's UDP
  tunnels", `vpp.go:1203`) and the parser of the updates does not, so a host route
  of an earlier process stays in VPP unless the deletion of its table takes it
  along, although `ClearVPPConfig` "clears and deletes all vpp settings"
  (`clear_config.go:11`).
* The same three except a dump with so many routes that their next-hops, which
  are never reset (`vpp.go:1216`), do not fit in the byte that counts paths.
* `ReadyIsConfigured` says the main interface has the address of the first VRF by
  name, which is the global table's unless a name sorts before `ipv4-VRF:0`
  (`add_config.go:42`); it says nothing of tables and labels of VRFs that are no
  longer configured, which stay.
* `LabelsReachTheirVRF` excepts VRFs whose addresses end in the same four digits,
  such as 192.168.1.23 and 192.168.12.3 (`mpls_label.go:23`).
* `ExportsFiltered` begins when the policy is assigned. Routes sent before, or
  without a policy because creating it failed, are not filtered
  (`init_gobgp.go:84`).
* `SignalStopsApp` begins when `Run` has added the function that cancels its
  context (`app.go:128`): an earlier signal empties the closer, which works once,
  and the program goes on. `PeersGoneAtExit` excepts the program that then ends
  for another reason with the server's function never called.
* `OnlySharingMixes` holds of one caller at a time without timeouts; that
  concurrent callers do mix replies up is the run `vpp_stream_shared`.
* `Converges` of `PhyNet` excepts a router that keeps sending the gateway's own
  ASN: the update is not ignored but ends in a nil dereference
  (`handle_bgp_update.go:355`).
* `StopsOnlyWhenDead` counts ten dead answers in a row and allows an alive one to the
  probe after them: it is logged as "skip and continue"
  (`vpp_interface.go:58`) and the program exits all the same.
* A packet with state Down takes a session from Up to Down without stopping the
  program (`session.go:287`), and one undecodable datagram ends the UDP server
  (`transport_server.go:72`); both are in the model, no property excludes them.

### Why the bounds are enough

* Three floating IPs of one VRF cross the limit of `AlreadyAdvertised` (more than
  2), the fourth makes a second VRF; two vRouters give the shared tunnel, the
  two-path route with `IsMultipath`, and both positions of a replaced path. Two
  labels give a change of label, one of them 0 the silent refusal of `AddPath`. The
  counters and the FIB are not bounded; the state space is finite because the
  sets are. Refused removals of routes, which make the FIB grow, are left to
  `tf_sync`, and the proofs cover every combination of faults. A run needs at
  least as many tunnel ids as vRouters, and one more where a refused deletion can
  leave a tunnel behind: with all ids leaked no tunnel can be made and the
  handler waits, so larger sets add nothing new.
* Three changes are enough for announce, change of label and withdrawal of one
  NLRI, and for the panic of `AddPath`, which needs two vRouters and a new label;
  the FIFO holds up to three updates. In `PhyNet` five changes let each router
  announce and withdraw, before, during and after the crash; one host prefix and
  two others make the routes that stay and a dump too long for a byte of three
  values.
* One crash: a crash resets everything but VPP and what TF announces, so a
  second one starts from a state the first one could have reached.
* `interface_monitor` uses the limit of the code; two peers make the deletion
  loop partial.
* BFD goroutines of different peers meet only in `isBdfSessionStarted` and in the
  closer; one peer is enough for the session itself, two for those.
* `start_up`: 256 is the first tunnel id that does not fit in a byte and is read as
  0, the other one; the proofs cover every other id. One of the two prefixes is a
  host prefix and is never dumped; two floating IPs share tunnels or have lost them. The two
  configurations share a VRF, each has one the other has not, the second puts a
  VRF before the global table and has two equal labels. A byte of three values
  lets the routes of one process overflow the count of paths. Two crashes cut one
  start short and another process while it serves, in either order. Two indices
  for two sub-interfaces make them change places between two starts.
* `peering`: the closer, the policy and the watch treat the peers of a type alike,
  so one of each type is enough; two reported states are what the counter and the
  BFD flag tell apart, the others are covered by the proofs of `PeerWatch`. Masks 0,
  24 and 32 are the three classes of the policy's prefix sets.
* `bfd_timers`: configured intervals below, at and above `Slow`, peer intervals
  below, between and above them, and products on both sides of `Word`; the proofs
  cover every other choice.
* `vpp_stream`: a dump of two details, one of which another caller takes, is the
  smallest that leaves a detail and the reply to its ping apart; four calls let
  three overlap and a fourth find what they left.

### Fairness

* `TFSync`, `PhyNet`: weak fairness of announcing (TCP and GoBGP's goroutines
  deliver), of the callback (VPP calls have a reply timeout, so it returns) and of
  the restart (`Restart=always`). No fairness of changes or crashes, whose
  numbers are bounded.
* `BFDSession`: weak fairness of every goroutine step (each is a bounded sleep, a
  system call or a ready channel operation) and of the clock for a silent peer;
  strong fairness of `Quit`, because Go's `select` chooses at random among ready
  cases, so a pending `clientQuit` is taken eventually. Nothing is assumed of
  packets.
* `InterfaceMonitor`: weak fairness of the goroutine; each probe ends after
  `pingDuration`.
* `StartUp`: weak fairness of the steps of initVPP (every call returns, with an
  answer or the error of the reply timeout) and of the restart.
* `Peering`: weak fairness of the main goroutine, of the closer functions and of
  `VPPConnStatus` noticing a cancelled context, which Go's `select` does not pass
  over for ever. Nothing is assumed of signals, sessions and VPP.
* `VPPStream`: weak fairness of VPP's answers, of receiving a reply and of sending
  the ping of a dump.

## 4. Proofs

Every safety property that a run checks is a theorem of the specification of that
run: for any VRFs, prefixes, peers, callers and intervals that satisfy the named
ASSUMEs, any number of steps and any pattern of failures the model allows. The
properties under fairness stay with TLC (end of this section).

| Module | Theorems | Inductive invariant | Beyond the ASSUMEs |
|---|---|---|---|
| `FloatingIP_proofs` | type, `DistinctNextHops`, `TunnelRefCount`, `VRFRefCount`, `StoredIsInstalled` | `IndInv` | |
| | `NothingLeftBehind`, `NoDanglingPath` | with `IndInv` | |
| | `ImplementsFIPTable` | `IndInv` | |
| | `AdvertisedIffServed` | `IndInv`, `SAdv` | `OneVRFPerPrefix` |
| | `CaughtUp` | `IndInv`, `SyncType`, `SyncInv` | `OneRDPerVRouter`, no refused additions, label 0 unused |
| `PhyNet_proofs` | `InSync` | `PhyInv` | `OneVRFPerRouter` |
| `Peering_proofs` | `ActiveCountExact`, `OneMonitorPerPeer` | `PeerInv` | |
| | `PeersGoneAtExit` | `ServerInv` | |
| | `ExportsFiltered` | `PolicyInv` | |
| `StartUp_proofs` | `ClearedIsEmpty`, `ReadyIsConfigured`, `LabelsReachTheirVRF`, `OldRoutesGone` | `StartInv` | |
| `BFDSession_proofs` | `StopsOnlyAfterUp`, `FalseAlarmOnlyInWindow`, `PanicsOnlyUnconnected` | `BFDInv` | |
| `BFDTimers_proofs` | `DetectTimeRight`, `TxRespectsPeer`, `RestartOnlyIfLowered` | `TimersInv` | |
| `InterfaceMonitor_proofs` | `StopsOnlyWhenDead` | `MonitorInv` | |
| `VPPStream_proofs` | `RepliesBalance`, `OnlySharingMixes` | `StreamInv`, `Solo` | |

### The floating IP handler

The ASSUMEs of `FloatingIP`: labels are naturals, the set of prefixes is finite,
the placeholder values are not members of the sets they stand outside of.

    Spec => []IndInv
    IndInv == TypeOK /\ DistinctNextHops /\ TunnelRefCount /\ VRFRefCount
              /\ StoredIsInstalled /\ DownIsEmpty

and from it each conjunct but the last as a theorem of its own. No property of
`Home` is used: the counters are exact even for prefixes in several VRFs.

Why the conjunction is needed. `TunnelRefCount` alone is not inductive: the
deletion decrements one counter per next-hop while `Via` loses the prefix once
per vRouter, which agree only if next-hops are distinct; and a counter of a record
that does not exist counts zero, so the step also needs that every stored path
has a tunnel record, a part of `StoredIsInstalled`. That in turn needs the
counters: a tunnel is deleted exactly when the count is zero, hence when no other
stored route goes through it. `DownIsEmpty` carries the invariant over `Restart`,
which empties VPP.

The argument. `StateInv` restates the invariant as a predicate `SInv(s)` of a
state record, because a change of a route is two updates of the state inside
one step. `DelKeepsInv` and `AddKeepsInv` show that each of the two service
functions keeps `SInv`, whatever VPP answers; they rest on `ForgetCount` and
`LearnCount`, which say how the cardinalities change when one route leaves or
enters the table. `RecreateKeepsInv` composes the two for the changed path
sequence, about which `DelPathLemma` and `AddPathLemma` say what becomes of the
next-hops. `HandlerKeepsInv` has one case per branch of the callback.

*Upper bounds.* `IndInv` says that VPP has at least what is stored;
`NothingLeftBehind` and `NoDanglingPath` that it has no more. They are proved
together (`CleanHolds`): a path that is left alone keeps its tunnel because the
counter of the tunnel, exact by `IndInv`, is not zero. `DelEffect` and `AddEffect`
describe the two service functions field by field; the later proofs start from them.

*Advertisements.* `AdvertisedIffServed` needs that a prefix is announced in one VRF
(`OneVRFPerPrefix`). A withdrawal stops the advertisement of the VRF the update
names, while the counter is the one of the stored VRF; the code relies on the two
being the same, and the run leaves out prefixes for which they are not. `SAdv`
adds that a route is stored in a VRF its route targets name.

*Refinement.* `ImplementsFIPTable`: every step of the handler is a step of
`FIPTable` on the table of next-hop and label pairs, or leaves that table alone. The
lemmas on `Pairs` say what `AddPath` and `DelPath` do to the set of pairs.

*The queue.* `TFSync` makes only steps of the handler
(`SyncImplementsFloatingIP`), so all of the above holds in it. `CaughtUp` speaks of the empty
queue; `SyncInv` says what a queue of any length is going to do: for each prefix
and route distinguisher the last queued update says what GoBGP announced, or there
is none and the stored path says it already; and a queued withdrawal names the
label that was announced before it (`Leads`). The last part is what lets
`DelPath` find its path. The hypotheses are those under which the code can keep up:
two route distinguishers of one vRouter would be one next-hop for the handler, and
an addition VPP refuses is dropped and not tried again. Label 0 is excluded because
`AddPath` ignores it. `tf_sync` checks `CaughtUp` under the same three.

### The other handlers and monitors

`PhyNet_proofs`. `PhyInv` says of every entry that its last queued update says
what GoBGP knows (`Pending`), or that there is none and the VPNv4 table and VPP have
it (`Settled`); and of what earlier processes left that it was in no dump or in too
long a one (`OldInv`), whatever the start-ups before did.
`OneVRFPerRouter` is what `ParseVPNv4UpdateFromPHYNET` takes for granted:
it stops at the first VRF with the address of the router.

`Peering_proofs`. That the counter of active peers is a natural number is not
inductive by itself: it follows from its being a cardinality, so type and count
are proved together (`PeerInv`); `EventCount` is the heart, one case for each of the four
combinations of old and new state. The set of peers is finite. `PeeringImplementsPeerWatch` carries both
properties over to the whole program. `ServerInv` follows the function that
stops the server from the closer's list to its work: once it was added, no return
of Run gets past it. `PolicyInv` says that the policy is there as a whole or not at
all; `PolicyFilters` that a whole one lets through only what is wanted.

`BFDSession_proofs`. `Sound` is about one session record at a time: what was declared down
was up or has fallen since (`DeclaredWasUp`), outside the two writes of `RxPacket`
a stale session has not been heard (`SilentIsStale`), and only a loop that never had
a client has no connection (`Unconnected`). It is kept by every action of the five
goroutines, in any order.

`BFDTimers_proofs`, for every set of intervals and multipliers and every width of
a word:

    TimersInv == TypeInv /\ Heard /\ Usual /\ TxRespectsPeer /\ RestartOnlyIfLowered

`Heard` explains why the mixed up fields do no harm: after a packet
`remoteMinRxInterval` holds the peer's transmit interval, so a packet whose two
intervals differ is always negotiated anew, and the multiplier is the peer's when
the last setter computes the detection time. `Usual` is what holds up to one second
of configured interval: nothing is parked in `finalAsyncDetectTime`, and the transmit
interval is bounded by what the peer ever asked for.

`InterfaceMonitor_proofs`. The reason why the monitor stops only in an outage lies in its
counting loop: `failCount` is the number of the loop's probes and at most the
length of the outage, the one an alive answer has just ended included (`Counted`).

`VPPStream_proofs`, for every finite set of callers, any kinds of calls and dumps
and any number of details. `RepliesBalance` is inductive with the types; the steps
are facts about `Finals`, the number of replies that end a call, under `Append`,
`Tail` and concatenation. `Solo` says what the stream holds while nobody shares it:
nothing, or the request, the ping, the details and the last reply of the one call under way,
in that order (`OwnOnly`).

### Start-up

`StartInv` gives every place of `initVPP` what is done when it is reached, and every loop
what is done with part of it left: the VRFs not in `left` have their table,
sub-interface, label, black hole. It needs no history of earlier processes, which
is the point: a start-up works from whatever it finds (`IdleInv`: nothing is
assumed at `dumpIP` but types). Three places carry the weight.

* *Deleting the routes* (`IPInv`). It speaks of the routes `DumpIPRoutes`
  returns. The k-th dumped route is sent with the next-hops of
  the first k. Its own is the k-th, so it is among the paths sent if k fits in
  `NPaths`; a dump has every route once because an injection of `1..n` into n
  elements is onto (`SetToSeqsLemma`).
* *Clearing the floating IPs* (`ClearInv`). A remaining route is in the second dump
  with the paths it has now, or has only paths whose ids do not fit in a byte:
  those of one byte are read as they are (`DecodeLemma`).
* *Sub-interfaces and labels* (`SubIfInv`, `LabelInv`). The sub-interface of a VRF
  carries the index that `sub` has for it, and a label of its own keeps leading
  there since later labels differ.

`VRFsOfLemma` says that the loops visit every VRF once; it follows from the
assumption that the ids of a configuration are distinct, which is the unique index of
the storage (`vpp_vrf.go:22`). `NetsAssumption`: the routers announce finitely many
prefixes, and the default route is not a host route.

### Only model-checked

Liveness and everything under fairness: `Converges` of `TFSync` and of `PhyNet`,
`DetectionStopsApp`, `DoneForcesExit`, `ShutdownCompletes`, `ConnectionHeals`,
`StartUpEnds`, `CallsReturn`, `DeadInterfaceStopsApp`, `SignalStopsApp`, `VPPLossStopsApp`.
Such proofs need `ENABLED` and induction, which are beyond this prover. So is what
`MPLSLabel` computes, a fold over the octets: `LabelsReachTheirVRF` is proved for any function
from VRFs to labels, and TLC checks the computed ones.

No run checks a type invariant by itself: types are proved as parts of the
invariants above.

## 5. Not modelled

* Configuration, logging, HTTP API, profiling: they read state or run once.
  Metrics are modelled where they count (`PeerWatch`) and where they use the VPP
  stream (`VPPStream`).
* GoBGP, VPP, TF and systemd themselves: modelled from how the code uses them.
* Text: the JSON walk of the update parser, prefix splitting, conversions between
  types, encoding of BFD packets.
* Code the program does not call: `AdvWdrawIPv4Prefix`, the gRPC client of
  `pkg/gobgpapi`, `LookupFIPRoute`, `CheckUDPTunnelTableEmpty`.
* The floating IP handler one VPP call at a time: `FloatingIP` handles an update in
  one step, and `StartUp` covers a crash inside it by starting from every
  combination of routes and tunnels.

## 6. Plan

Done: all modules above, and theorems for every safety property of the runs.

Left, in this order:

1. Weaker hypotheses: `CaughtUp` for the prefixes no refused addition has touched
   while others were refused, as `InSync` has it with `refused`.
2. Safety halves of the liveness properties: after a signal, a lost connection or a
   detected failure no step leads back to a state from which Run could not end.

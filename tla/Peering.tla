------------------------------ MODULE Peering -------------------------------
(***************************************************************************)
(* The life of the program around its BGP peers: Init and Run (app.go),    *)
(* ConfigureGoBGP (init_gobgp.go), the export policy (gobgp.go), the       *)
(* closer (pkg/closer) and VPPConnStatus (internal/monitor), composed with *)
(* the peer watch of PeerWatch.                                            *)
(*                                                                         *)
(* Three parties run concurrently: the main goroutine, the signal          *)
(* goroutine of the closer with one goroutine per closer function, and     *)
(* GoBGP, whose sessions come up as soon as a peer is added.  A route is   *)
(* the length of its mask: 0 the default route, 32 a floating IP, anything *)
(* between an aggregate.                                                   *)
(***************************************************************************)
EXTENDS PeerWatch, Sequences

CONSTANTS
  PhyNet,      \* addresses of the VRFs' routers, vrf.BGPPeerIP
  VRFs,        \* cfg.VRF
  Masks,       \* mask lengths of the routes in GoBGP's table
  Reported     \* session states GoBGP reports in this instance

ASSUME PeeringAssumption ==
  /\ PhyNet \subseteq Peers /\ BFDPeers \subseteq PhyNet
  /\ Cardinality(Peers) >= 2          \* initBGPPeerStorage refuses fewer
  /\ Masks \subseteq 0..32
  /\ "ESTABLISHED" \in Reported /\ Reported \subseteq SessionStates \ {"UNKNOWN"}

VARIABLES
  pc,          \* where the main goroutine is
  visit,       \* what its present loop has not reached
  funcs,       \* closer: the functions added
  once,        \* closer: CloseAll has been called
  todo,        \* closer functions CloseAll took and that have not returned
  delete,      \* peers the closer function deletePeers has not reached
  ctxDone,     \* Run's context was cancelled
  vppEvt,      \* what lies in the channel of VPP connection events, or "none"
  serving,     \* the GoBGP server runs
  vrfs,        \* VRFs of the GoBGP server
  added,       \* peers of the GoBGP server
  up,          \* those with an established session
  policy,      \* the global export policy: a sequence of statements
  rib,         \* routes in GoBGP's table
  sent         \* peer -> routes advertised in the present session

watchVars == <<peer, active, monitors>>
closerVars == <<funcs, once, todo, delete, ctxDone>>
serverVars == <<serving, vrfs, added, up, policy, rib, sent>>
allVars == <<watchVars, pc, visit, closerVars, vppEvt, serverVars>>

\* NewBGPPeer's type: the VRFs are stored after the controllers and replace
\* a controller of the same address.
TF == Peers \ PhyNet

Ended == pc \in {"exited", "fatal", "killed"}

PeeringInit ==
  /\ Init
  /\ pc = "vpp" /\ visit = {}
  /\ funcs = {} /\ once = FALSE /\ todo = {} /\ delete = {} /\ ctxDone = FALSE
  /\ vppEvt = "none"
  /\ serving = FALSE /\ vrfs = {} /\ added = {} /\ up = {} /\ policy = <<>>
  /\ rib = {} /\ sent = [p \in Peers |-> {}]

-----------------------------------------------------------------------------
(* The export policy.                                                      *)

Statement(prefixSet, neighborSet, action) ==
  [masks |-> prefixSet, peers |-> neighborSet, action |-> action]

\* CreateGoBGPPolicy: three statements; whatever matches none is accepted.
PolicySwapped ==                                          \* mutant
  << Statement(32..32, TF, "REJECT"), Statement(0..0, PhyNet, "REJECT"),
     Statement(1..32, TF, "REJECT") >>

Policy ==
  << Statement(32..32, PhyNet, "REJECT"), Statement(0..0, PhyNet, "REJECT"),
     Statement(1..32, TF, "REJECT") >>

\* GoBGP: the first statement that matches decides.
Exports(p, m) ==
  LET matching == {i \in DOMAIN policy : m \in policy[i].masks /\ p \in policy[i].peers}
  IN  matching # {} =>
        policy[CHOOSE i \in matching : \A j \in matching : i <= j].action = "ACCEPT"

-----------------------------------------------------------------------------
(* GoBGP.                                                                  *)

\* A session changes state or its state is reported again; HandleBGPUpdate
\* hears of it until its context is cancelled.  A session that comes up
\* gets the table through the policy of that moment.
Session(p, new) ==
  /\ serving /\ p \in added
  /\ up' = IF new = "ESTABLISHED" THEN up \cup {p} ELSE up \ {p}
  /\ sent' = [sent EXCEPT ![p] = CASE p \notin up' -> {}
                                   [] p \in up     -> @
                                   [] OTHER        -> {m \in rib : Exports(p, m)}]
  /\ IF pc \notin {"vpp", "gobgp", "cancel", "watch"} /\ ~ctxDone
     THEN PeerEvent(p, new)
     ELSE UNCHANGED watchVars
  /\ UNCHANGED <<pc, visit, closerVars, vppEvt, serving, vrfs, added, policy, rib>>

\* A route of some mask length arrives, from a peer or because of one, and
\* is advertised.
Learn(m) ==
  /\ up # {} /\ m \notin rib
  /\ rib' = rib \cup {m}
  /\ sent' = [p \in Peers |-> IF p \in up /\ Exports(p, m) THEN sent[p] \cup {m} ELSE sent[p]]
  /\ UNCHANGED <<watchVars, pc, visit, closerVars, vppEvt, serving, vrfs, added, up, policy>>

\* Peers leave the server: their sessions end.
Without(ps) ==
  /\ added' = added \ ps /\ up' = up \ ps
  /\ sent' = [p \in Peers |-> IF p \in ps THEN {} ELSE sent[p]]

-----------------------------------------------------------------------------
(* The main goroutine.                                                     *)

\* closer.Add.
Add(f) == funcs' = funcs \cup {f}

\* The process is gone, and with it its sessions and all it knew.
Died(how) ==
  /\ pc' = how /\ visit' = {}
  /\ funcs' = {} /\ todo' = {} /\ delete' = {} /\ ctxDone' = FALSE /\ vppEvt' = "none"
  /\ serving' = FALSE /\ vrfs' = {} /\ policy' = <<>> /\ rib' = {} /\ Without(Peers)
  /\ UNCHANGED <<watchVars, once>>

\* Init: the connection to VPP, then the GoBGP server; each is closed by a
\* function added once it is there.
InitVPP ==
  /\ pc = "vpp" /\ pc' = "gobgp" /\ Add("vpp")
  /\ UNCHANGED <<watchVars, visit, once, todo, delete, ctxDone, vppEvt, serverVars>>

InitGoBGPServer ==
  /\ pc = "gobgp" /\ pc' = "cancel" /\ serving' = TRUE /\ Add("bgp")
  /\ UNCHANGED <<watchVars, visit, once, todo, delete, ctxDone, vppEvt,
                 vrfs, added, up, policy, rib, sent>>

\* Run: the cancelling of the context, then HandleBGPUpdate, then the loops.
AddCancel ==
  /\ pc = "cancel" /\ pc' = "watch" /\ Add("cancel")
  /\ UNCHANGED <<watchVars, visit, once, todo, delete, ctxDone, vppEvt, serverVars>>

HandleBGPUpdate ==
  /\ pc = "watch" /\ pc' = "vrfs" /\ visit' = VRFs
  /\ UNCHANGED <<watchVars, closerVars, vppEvt, serverVars>>

\* ConfigureGoBGP adds the VRFs, then the peers.  A call fails when a signal
\* has stopped the server meanwhile, or for a reason of GoBGP's own.
AddGoBGPVRF(v) ==
  /\ pc = "vrfs" /\ v \in visit /\ serving
  /\ vrfs' = vrfs \cup {v}
  /\ visit' = IF visit = {v} THEN Peers ELSE visit \ {v}
  /\ pc' = IF visit = {v} THEN "peers" ELSE pc
  /\ UNCHANGED <<watchVars, closerVars, vppEvt, serving, added, up, policy, rib, sent>>

AddBGPPeer(p) ==
  /\ pc = "peers" /\ p \in visit /\ serving
  /\ added' = added \cup {p}
  /\ visit' = visit \ {p}
  /\ pc' = IF visit = {p} THEN "policy" ELSE pc
  /\ UNCHANGED <<watchVars, closerVars, vppEvt, serving, vrfs, up, policy, rib, sent>>

StartFails == pc \in {"vpp", "gobgp", "watch", "vrfs", "peers"} /\ Died("fatal")

\* CreateGoBGPPolicy assigns the policy last, so it is there as a whole or
\* not at all; an error is logged and the program goes on without it.
\* Routes already sent are not looked at again.
CreateGoBGPPolicy(ok) ==
  /\ pc = "policy" /\ pc' = "closer"
  /\ ok => serving
  /\ policy' = IF ok THEN Policy ELSE policy
  /\ UNCHANGED <<watchVars, visit, closerVars, vppEvt, serving, vrfs, added, up, rib, sent>>

AddDeletePeers ==
  /\ pc = "closer" /\ pc' = "wait" /\ Add("peers")
  /\ UNCHANGED <<watchVars, visit, once, todo, delete, ctxDone, vppEvt, serverVars>>

\* VPPConnStatus: a cancelled context or a lost connection ends it, and with
\* it Run; any other event is dropped, and nobody reads what comes later.
Final == {"Disconnected", "Failed"}

LosesFailed == vppEvt = "Disconnected"                    \* mutant
LosesContext == FALSE                                     \* mutant

ConnLost == vppEvt \in Final
Cancelled == ctxDone

Wait(why) ==
  /\ pc = "wait" /\ why
  /\ pc' = "closing" /\ vppEvt' = "none"
  /\ UNCHANGED <<watchVars, visit, closerVars, serverVars>>

IgnoreEvent ==
  /\ pc = "wait" /\ vppEvt \notin Final \cup {"none"}
  /\ vppEvt' = "none"
  /\ UNCHANGED <<watchVars, pc, visit, closerVars, serverVars>>

\* The deferred CloseAll and Wait of Run: sync.Once makes a second caller
\* wait until the functions the first one took have returned.
MayReturnAtOnce == once                                   \* mutant
MayReturn == once /\ todo = {}

Exit ==
  /\ pc = "closing" /\ MayReturn
  /\ pc' = "exited"
  /\ UNCHANGED <<watchVars, visit, closerVars, vppEvt, serverVars>>

-----------------------------------------------------------------------------
(* The closer.                                                             *)

\* CloseAll takes the functions added so far, whoever calls it first: the
\* signal goroutine or the main one.  What is added later is never called.
CloseAll(called) ==
  /\ ~Ended /\ called /\ ~once
  /\ once' = TRUE /\ todo' = funcs /\ funcs' = {}
  /\ delete' = IF "peers" \in funcs THEN Peers ELSE {}
  /\ UNCHANGED <<watchVars, pc, visit, ctxDone, vppEvt, serverVars>>

\* After the first signal the next one has its default effect.
Kill == ~Ended /\ once /\ Died("killed")

\* BGPServer.Stop.
Stop ==
  /\ ~Ended /\ "bgp" \in todo
  /\ todo' = todo \ {"bgp"} /\ serving' = FALSE /\ Without(Peers)
  /\ UNCHANGED <<watchVars, pc, visit, funcs, once, delete, ctxDone, vppEvt, vrfs, policy, rib>>

\* vppDisconnect.
Disconnect ==
  /\ ~Ended /\ "vpp" \in todo
  /\ todo' = todo \ {"vpp"}
  /\ UNCHANGED <<watchVars, pc, visit, funcs, once, delete, ctxDone, vppEvt, serverVars>>

Cancel ==
  /\ ~Ended /\ "cancel" \in todo
  /\ todo' = todo \ {"cancel"} /\ ctxDone' = TRUE
  /\ UNCHANGED <<watchVars, pc, visit, funcs, once, delete, vppEvt, serverVars>>

\* deletePeers: one DelBGPPeer after the other, errors dropped.
DelBGPPeer(p) ==
  /\ ~Ended /\ p \in delete
  /\ delete' = delete \ {p}
  /\ todo' = IF delete = {p} THEN todo \ {"peers"} ELSE todo
  /\ IF serving THEN Without({p}) ELSE UNCHANGED <<added, up, sent>>
  /\ UNCHANGED <<watchVars, pc, visit, funcs, once, ctxDone, vppEvt, serving, vrfs, policy, rib>>

-----------------------------------------------------------------------------
\* govpp reports a change of the connection, one at a time; when
\* VPPConnStatus has returned nobody reads the channel any more.
VPPEvent(e) ==
  /\ pc \notin {"vpp", "closing"} /\ ~Ended /\ vppEvt = "none"
  /\ vppEvt' = e
  /\ UNCHANGED <<watchVars, pc, visit, closerVars, serverVars>>

Main ==
  \/ InitVPP \/ InitGoBGPServer \/ AddCancel \/ HandleBGPUpdate
  \/ \E v \in VRFs : AddGoBGPVRF(v)
  \/ \E p \in Peers : AddBGPPeer(p)
  \/ StartFails
  \/ \E ok \in BOOLEAN : CreateGoBGPPolicy(ok)
  \/ AddDeletePeers \/ Wait(ConnLost) \/ IgnoreEvent
  \/ CloseAll(pc = "closing") \/ Exit

Closer ==
  \/ Stop \/ Disconnect \/ Cancel
  \/ \E p \in Peers : DelBGPPeer(p)

PeeringNext ==
  \/ Main \/ Closer \/ Wait(Cancelled)
  \/ CloseAll(TRUE) \/ Kill
  \/ \E p \in Peers, new \in Reported : Session(p, new)
  \/ \E m \in Masks : Learn(m)
  \/ \E e \in {"NotResponding", "Disconnected", "Failed"} : VPPEvent(e)

\* Every goroutine runs; Go's select does not pass over a cancelled context
\* for ever.
PeeringSpec ==
  /\ PeeringInit /\ [][PeeringNext]_allVars
  /\ WF_allVars(Main) /\ WF_allVars(Closer) /\ WF_allVars(Wait(Cancelled))

-----------------------------------------------------------------------------
(* Properties.                                                             *)

\* What the statements of CreateGoBGPPolicy are for.  To the physical network
\* no host and no default route ("deny /32 and 0/0 to physical network",
\* gobgp.go:384).  To Tungsten Fabric nothing but the default route: the
\* comment there only says "deny aggregated floating ip to tungsten fabric",
\* the third statement rejects every mask from 1 to 32 (gobgp.go:397, 430).
Wanted(p) == IF p \in PhyNet THEN 1..31 ELSE {0}

\* Once the policy is assigned nothing is advertised against it, whenever
\* the session or the route came up.  What a session was sent before that
\* moment, or if the policy could not be created, is not covered: the peers
\* are added first.
ExportsFiltered ==
  [][policy # <<>> => \A p \in Peers : sent'[p] \ sent[p] \subseteq Wanted(p)]_allVars

\* Run returns only when the peers are gone from GoBGP, so that the routers
\* stop sending before VPP is left alone, although the closer functions run
\* concurrently with each other and with ConfigureGoBGP.  The exception is
\* a signal that arrived before the server's function was added: its list
\* held nothing that removes a peer.
PeersGoneAtExit == pc = "exited" /\ added # {} => "bgp" \in funcs

\* A signal ends the program once Run has added the function that cancels
\* its context.  (Before that the signal is lost: CloseAll runs once.)
SignalStopsApp == "cancel" \in todo ~> Ended

\* A lost connection to VPP ends the program, in whatever step of the
\* start-up it is lost.
VPPLossStopsApp == vppEvt \in Final ~> Ended
=============================================================================

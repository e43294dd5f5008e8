------------------------------ MODULE VPPStream ------------------------------
(***************************************************************************)
(* The binary API stream to VPP (internal/repository/vpp/vpp.go).  A call  *)
(* of the adapter is SendMsg, RecvMsg and a type assertion on the reply; a *)
(* dump is two SendMsg, of the request and of a ControlPing, and RecvMsg   *)
(* until the reply to the ping.  One stream serves the callbacks of two    *)
(* watches (HandleBGPUpdate), the poll of the metrics                      *)
(* (UpdateVPPUDPVRFMetrics) and the HTTP API, all in goroutines of their   *)
(* own.                                                                    *)
(*                                                                         *)
(* VPP answers the requests of a stream in order.  RecvMsg returns the     *)
(* next reply of the stream, whoever sent the request, or an error after   *)
(* the reply timeout (2 s, ConnectToVPPAPIAsync); a reply that comes later *)
(* stays in the stream.                                                    *)
(***************************************************************************)
EXTENDS Naturals, Sequences, FiniteSets

CONSTANTS
  Callers,    \* goroutines that use the stream
  CallsOf,    \* the kinds of request each of them makes
  Dumps,      \* the kinds that are dumps
  Ping,       \* the kind of a ControlPing
  NoCall,     \* a caller that is in no call
  Timeouts,   \* BOOLEAN: may a reply take longer than the timeout?
  MaxRows,    \* bound: details of a dump
  MaxCalls    \* bound: calls made

Kinds    == UNION {CallsOf[c] : c \in Callers}
Requests == [kind : Kinds, id : Nat]
Messages == [kind : Kinds \cup {Ping}, id : Nat]

ASSUME CallersAssumption == IsFiniteSet(Callers)
ASSUME NoCallAssumption  == NoCall \notin Requests
ASSUME PingAssumption    == Ping \notin Dumps
ASSUME BoundsAssumption  == MaxCalls \in Nat /\ MaxRows \in Nat \ {0} /\ Timeouts \in BOOLEAN

VARIABLES
  calls,      \* calls made so far; the number of a call
  requests,   \* messages VPP has not answered
  replies,    \* messages of VPP nobody has received; of the kind and call
              \* they answer
  waiting,    \* the call a caller is in
  half,       \* callers that have sent a dump and not yet its ping
  panicked,   \* a type assertion failed
  owed,       \* history: calls that returned without their last reply
  shared,     \* history: a call began during another one
  mixed       \* history: a caller received a reply to another call

vars == <<calls, requests, replies, waiting, half, panicked, owed, shared, mixed>>

Init ==
  /\ calls = 0 /\ requests = <<>> /\ replies = <<>>
  /\ waiting = [c \in Callers |-> NoCall] /\ half = {}
  /\ panicked = FALSE /\ owed = 0 /\ shared = FALSE /\ mixed = FALSE

\* stream.SendMsg of a request.
Send(c, k) ==
  LET m == [kind |-> k, id |-> calls + 1]
  IN  /\ ~panicked /\ waiting[c] = NoCall /\ calls < MaxCalls
      /\ calls' = calls + 1
      /\ requests' = Append(requests, m)
      /\ waiting' = [waiting EXCEPT ![c] = m]
      /\ half' = IF k \in Dumps THEN half \cup {c} ELSE half
      /\ shared' = (shared \/ \E d \in Callers : waiting[d] # NoCall)
      /\ UNCHANGED <<replies, panicked, owed, mixed>>

\* stream.SendMsg(&memclnt.ControlPing{}).
SendPing(c) ==
  /\ ~panicked /\ c \in half
  /\ requests' = Append(requests, [kind |-> Ping, id |-> waiting[c].id])
  /\ half' = half \ {c}
  /\ UNCHANGED <<calls, replies, waiting, panicked, owed, shared, mixed>>

\* VPP handles the next request, a dump with n details.
Answer(n) ==
  /\ requests # <<>> /\ requests' = Tail(requests)
  /\ Head(requests).kind \notin Dumps => n = 1
  /\ replies' = replies \o [i \in 1..n |-> Head(requests)]
  /\ UNCHANGED <<calls, waiting, half, panicked, owed, shared, mixed>>

\* The call ends with this message: the assertion holds or panics; the loop
\* of a dump goes on with a detail, breaks at the reply to a ping and returns
\* an error at any other type.
EndsEarly(w, m) == TRUE                                   \* mutant
EndsOnlyOwn(w, m) == m.id = w.id /\ m.kind \notin Dumps    \* mutant

Ends(w, m) == w.kind \notin Dumps \/ m.kind # w.kind

\* stream.RecvMsg, and "msg.(*...Reply)" or "switch msg.(type)".
RecvLeavesReply(c) ==                                     \* mutant
  /\ ~panicked /\ waiting[c] # NoCall /\ c \notin half /\ replies # <<>>
  /\ waiting' = [waiting EXCEPT ![c] = NoCall]
  /\ UNCHANGED <<calls, requests, replies, half, panicked, owed, shared, mixed>>

Recv(c) ==
  LET m == Head(replies)
      w == waiting[c]
  IN  /\ ~panicked /\ w # NoCall /\ c \notin half /\ replies # <<>>
      /\ replies' = Tail(replies)
      /\ waiting' = IF Ends(w, m) THEN [waiting EXCEPT ![c] = NoCall] ELSE waiting
      /\ panicked' = (w.kind \notin Dumps /\ m.kind # w.kind)
      /\ owed' = IF m.kind \in Dumps \ {w.kind} THEN owed + 1 ELSE owed
      /\ mixed' = (mixed \/ m.id # w.id)
      /\ UNCHANGED <<calls, requests, half, shared>>

\* RecvMsg gives up; the call returns an error.
Timeout(c) ==
  /\ Timeouts /\ ~panicked /\ waiting[c] # NoCall /\ c \notin half /\ replies = <<>>
  /\ waiting' = [waiting EXCEPT ![c] = NoCall]
  /\ owed' = owed + 1
  /\ UNCHANGED <<calls, requests, replies, half, panicked, shared, mixed>>

Next ==
  \/ \E n \in 0..MaxRows : Answer(n)
  \/ \E c \in Callers :
       Recv(c) \/ Timeout(c) \/ SendPing(c) \/ \E k \in CallsOf[c] : Send(c, k)

\* VPP answers, a reply that is there is received, a dump sends its ping.
Spec ==
  /\ Init /\ [][Next]_vars
  /\ WF_vars(\E n \in 0..MaxRows : Answer(n))
  /\ \A c \in Callers : WF_vars(Recv(c)) /\ WF_vars(SendPing(c))

-----------------------------------------------------------------------------
(* Properties.                                                             *)

\* The replies that end a call: all but the details of a dump.
Finals(s) == Cardinality({i \in 1..Len(s) : s[i].kind \notin Dumps})

Waiting == {c \in Callers \ half : waiting[c] # NoCall}

\* However the callers mix up their replies, none is lost: as many last
\* replies are under way as callers wait, and one more for every call that
\* gave up or was ended by a detail of another dump.  That reply stays in the
\* stream and shifts all later ones.
RepliesBalance ==
  ~panicked => Finals(requests) + Finals(replies) = Cardinality(Waiting) + owed

\* The calls and dumps fit together: used by one goroutine at a time and
\* without a timeout, every call gets its own replies and no type assertion
\* fails; a dump leaves nothing behind for the next call.
OnlySharingMixes == mixed \/ panicked => shared \/ owed > 0

\* A call of the adapter returns, with or without the right reply.
CallsReturn == \A c \in Callers : waiting[c] # NoCall ~> waiting[c] = NoCall \/ panicked

\* The type assertions of the adapter ("reply := msg.(*udp.UDPEncapAddReply)"
\* and the like) hold.
AssertionsHold == ~panicked
=============================================================================

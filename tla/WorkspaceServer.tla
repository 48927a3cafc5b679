---------------------------- MODULE WorkspaceServer ----------------------------
(***************************************************************************)
(* The provider's external workspace API                                   *)
(* (cross-node-rental/src/transport/node_server/http_workspace_external.rs): *)
(* the request handlers, and the proxy between a renter's noVNC and the VNC *)
(* WebSocket of QEMU.  Next to them, the handlers of the event bus         *)
(* (events/handlers/workspace_credits_handler.rs and                       *)
(* workspace_payment_handler.rs).                                          *)
(*                                                                         *)
(* All of them read the workspace service behind a tokio RwLock, which is  *)
(* first in, first out: a writer that waits keeps later readers out.  Most *)
(* handlers hold the read guard over the service's work, the proxy holds   *)
(* it for as long as the desktop is watched.  The service, the renters, the *)
(* bus and QEMU are external.                                              *)
(***************************************************************************)
CONSTANTS Renters,    \* renters with one request at a time
          Viewers,    \* noVNC clients with one proxy at a time
          Busses,     \* event bus tasks, each in one event handler at a time
          Sessions,
          None

ASSUME ServerAssumption ==
  /\ None \notin Sessions
  /\ Renters \cap Viewers = {} /\ Busses \cap (Renters \cup Viewers) = {}

VARIABLES service,    \* is the workspace service installed?
          writer,     \* the host waits to install or replace it
          guards,     \* the handlers that hold a read guard
          session,    \* what the service knows of each session
          request,    \* per renter and bus task: operation and where its handler is
          proxy       \* per viewer: its proxy and the two sockets

lock == <<service, writer, guards>>
vars == <<lock, session, request, proxy>>

\* list_computers, get_session and cc_attestation answer from what there is.
Ops == {"read", "start", "stop"}
\* api-store.credits.balance_increased and ldk-node.payment.received.
Events == {"credits", "payment"}
Callers == Renters \cup Busses
NoRequest == [op |-> None, s |-> None, at |-> "idle"]
Request == [op : Ops, s : Sessions, at : {"lock", "serve"}] \cup
           [op : Events, s : {None}, at : {"lock", "serve"}] \cup {NoRequest}

\* input and frames: the two forwarding tasks, typing and drawing: those that
\* wait in a send; renter and qemu: open sockets.
NoProxy == [s |-> None, at |-> "off", input |-> FALSE, typing |-> FALSE, frames |-> FALSE,
            drawing |-> FALSE, renter |-> FALSE, qemu |-> FALSE]
Proxy == [s : Sessions, at : {"lock", "endpoint", "connect", "forward", "returned"},
          input : BOOLEAN, typing : BOOLEAN, frames : BOOLEAN, drawing : BOOLEAN,
          renter : BOOLEAN, qemu : BOOLEAN] \cup {NoProxy}

TypeOK ==
  /\ service \in BOOLEAN /\ writer \in BOOLEAN
  /\ guards = {r \in Callers : request[r].at = "serve" /\ request[r].op # "stop"} \cup
              {v \in Viewers : proxy[v].at \in {"endpoint", "connect", "forward"}}
  /\ session \in [Sessions -> {"none", "starting", "running", "paused", "stopped"}]
  /\ request \in [Callers -> Request]
  /\ proxy \in [Viewers -> Proxy]

Init ==
  /\ service = FALSE /\ writer = FALSE /\ guards = {}
  /\ session = [s \in Sessions |-> "none"]
  /\ request = [r \in Callers |-> NoRequest]
  /\ proxy = [v \in Viewers |-> NoProxy]

-----------------------------------------------------------------------------
(* The handlers.  An event of another name, without a user or of no amount *)
(* is dropped before the lock.                                             *)

Call(r, op, s) ==
  /\ request[r] = NoRequest
  /\ request' = [request EXCEPT ![r] = [op |-> op, s |-> s, at |-> "lock"]]
  /\ UNCHANGED <<lock, session, proxy>>

Ask(r, op, s) == op \in Ops /\ Call(r, op, s)
Deliver(b, event) == event \in Events /\ Call(b, event, None)

\* Fault for testing: without a service the answer waits for one.
ReadService_Waits(r) ==
  /\ request[r].at = "lock" /\ ~writer /\ service
  /\ request' = [request EXCEPT ![r].at = "serve"]
  /\ guards' = IF request[r].op = "stop" THEN guards ELSE guards \cup {r}
  /\ UNCHANGED <<service, writer, session, proxy>>

\* Without a service the answer is an error, and an event is lost.  stop clones
\* the service and gives the guard back at once.
ReadService(r) ==
  /\ request[r].at = "lock" /\ ~writer
  /\ IF service
       THEN /\ request' = [request EXCEPT ![r].at = "serve"]
            /\ guards' = IF request[r].op = "stop" THEN guards ELSE guards \cup {r}
       ELSE request' = [request EXCEPT ![r] = NoRequest] /\ UNCHANGED guards
  /\ UNCHANGED <<service, writer, session, proxy>>

Ends(r) ==
  /\ request' = [request EXCEPT ![r] = NoRequest]
  /\ guards' = guards \ {r}

\* start_session answers when the session runs or could not be started.
ServeStart(r) ==
  /\ request[r].at = "serve" /\ request[r].op = "start"
  /\ LET s == request[r].s IN
     \/ session[s] = "none" /\ session' = [session EXCEPT ![s] = "starting"]
        /\ UNCHANGED <<guards, request>>
     \/ session[s] # "starting" /\ Ends(r) /\ UNCHANGED session
  /\ UNCHANGED <<service, writer, proxy>>

ServeStop(r) ==
  /\ request[r].at = "serve" /\ request[r].op = "stop"
  /\ LET s == request[r].s IN
     session' \in {session} \cup
       {[session EXCEPT ![s] = "stopped"] : x \in {s} \cap {y \in Sessions : session[y] # "none"}}
  /\ Ends(r)
  /\ UNCHANGED <<service, writer, proxy>>

ServeRead(r) ==
  /\ request[r].at = "serve" /\ request[r].op = "read"
  /\ Ends(r)
  /\ UNCHANGED <<service, writer, session, proxy>>

\* try_resume_paused_sessions: all, some or none of the user's sessions run again.
ServeCredits(b) ==
  /\ request[b].at = "serve" /\ request[b].op = "credits"
  /\ \E resumed \in SUBSET {s \in Sessions : session[s] = "paused"} :
       session' = [s \in Sessions |-> IF s \in resumed THEN "running" ELSE session[s]]
  /\ Ends(b)
  /\ UNCHANGED <<service, writer, proxy>>

\* update_bolt12_payment_received stamps the sessions that run.
ServePayment(b) ==
  /\ request[b].at = "serve" /\ request[b].op = "payment"
  /\ Ends(b)
  /\ UNCHANGED <<service, writer, session, proxy>>

Serve(r) == ServeStart(r) \/ ServeStop(r) \/ ServeRead(r)
Handle(b) == ServeCredits(b) \/ ServePayment(b)

\* Fault for testing: the guard outlives the handler that is dropped.
HangUp_KeepsGuard(r) ==
  /\ request[r] # NoRequest
  /\ request' = [request EXCEPT ![r] = NoRequest]
  /\ UNCHANGED <<lock, session, proxy>>

\* The renter's connection breaks: the handler is dropped where it waits, and
\* what it asked of the service goes on.
HangUp(r) ==
  /\ request[r] # NoRequest
  /\ Ends(r)
  /\ UNCHANGED <<service, writer, session, proxy>>

-----------------------------------------------------------------------------
(* The proxy: handle_vnc_proxy                                             *)

\* The upgraded socket is moved into the handler.
Open(v, s) ==
  /\ proxy[v] = NoProxy
  /\ proxy' = [proxy EXCEPT ![v] = [NoProxy EXCEPT !.s = s, !.at = "lock", !.renter = TRUE]]
  /\ UNCHANGED <<lock, session, request>>

\* A handler that returns early drops the renter's socket and its guard.
Rejected(v) ==
  /\ proxy' = [proxy EXCEPT ![v] = NoProxy]
  /\ guards' = guards \ {v}

\* A session without a container has no desktop yet.
LookUp(v) ==
  /\ proxy[v].at = "lock" /\ ~writer
  /\ IF service /\ session[proxy[v].s] \in {"running", "paused", "stopped"}
       THEN /\ proxy' = [proxy EXCEPT ![v].at = "endpoint"]
            /\ guards' = guards \cup {v}
       ELSE Rejected(v)
  /\ UNCHANGED <<service, writer, session, request>>

\* The runtime knows the address of the VNC socket, or does not.
Endpoint(v) ==
  /\ proxy[v].at = "endpoint"
  /\ \/ proxy' = [proxy EXCEPT ![v].at = "connect"] /\ UNCHANGED guards
     \/ Rejected(v)
  /\ UNCHANGED <<service, writer, session, request>>

Connect(v) ==
  /\ proxy[v].at = "connect"
  /\ \/ /\ session[proxy[v].s] \in {"running", "paused"}
        /\ proxy' = [proxy EXCEPT ![v].at = "forward", ![v].input = TRUE,
                                  ![v].frames = TRUE, ![v].qemu = TRUE]
        /\ UNCHANGED guards
     \/ Rejected(v)
  /\ UNCHANGED <<service, writer, session, request>>

\* The sockets are dropped with the last of the handler's two tasks.
Settled(p) == IF p.at = "returned" /\ ~p.input /\ ~p.frames THEN NoProxy ELSE p

Become(v, p) ==
  /\ proxy' = [proxy EXCEPT ![v] = Settled(p)]
  /\ UNCHANGED <<lock, session, request>>

\* alice_to_qemu takes the renter's next input and waits until QEMU takes it, or
\* reads the renter's stream to its end.  It waits for an input without a timeout,
\* and notices that QEMU is gone only by a send.
Input(v) ==
  /\ proxy[v].input /\ ~proxy[v].typing /\ proxy[v].renter
  /\ Become(v, [proxy[v] EXCEPT !.typing = TRUE])

InputSent(v) ==
  /\ proxy[v].typing /\ proxy[v].qemu
  /\ Become(v, [proxy[v] EXCEPT !.typing = FALSE])

InputFails(v) ==
  /\ proxy[v].typing /\ ~proxy[v].qemu
  /\ Become(v, [proxy[v] EXCEPT !.input = FALSE, !.typing = FALSE])

InputEnds(v) ==
  /\ proxy[v].input /\ ~proxy[v].typing /\ ~proxy[v].renter
  /\ Become(v, [proxy[v] EXCEPT !.input = FALSE])

\* qemu_to_alice, the other way round.
Frame(v) ==
  /\ proxy[v].frames /\ ~proxy[v].drawing /\ proxy[v].qemu
  /\ Become(v, [proxy[v] EXCEPT !.drawing = TRUE])

FrameSent(v) ==
  /\ proxy[v].drawing /\ proxy[v].renter
  /\ Become(v, [proxy[v] EXCEPT !.drawing = FALSE])

FramesFail(v) ==
  /\ proxy[v].drawing /\ ~proxy[v].renter
  /\ Become(v, [proxy[v] EXCEPT !.frames = FALSE, !.drawing = FALSE])

\* Fault for testing: the end of QEMU's stream is taken for a message to skip.
FramesEnd_Skipped(v) ==
  /\ proxy[v].frames /\ ~proxy[v].drawing /\ ~proxy[v].qemu
  /\ UNCHANGED vars

FramesEnd(v) ==
  /\ proxy[v].frames /\ ~proxy[v].drawing /\ ~proxy[v].qemu
  /\ Become(v, [proxy[v] EXCEPT !.frames = FALSE])

\* Fault for testing: the handler waits for both of its tasks.
Return_WaitsForBoth(v) ==
  /\ proxy[v].at = "forward"
  /\ ~proxy[v].input /\ ~proxy[v].frames
  /\ proxy' = [proxy EXCEPT ![v] = Settled([@ EXCEPT !.at = "returned"])]
  /\ guards' = guards \ {v}
  /\ UNCHANGED <<service, writer, session, request>>

\* select: the first task to end ends the handler, the other one lives on.
Return(v) ==
  /\ proxy[v].at = "forward"
  /\ ~proxy[v].input \/ ~proxy[v].frames
  /\ proxy' = [proxy EXCEPT ![v] = Settled([@ EXCEPT !.at = "returned"])]
  /\ guards' = guards \ {v}
  /\ UNCHANGED <<service, writer, session, request>>

-----------------------------------------------------------------------------
(* Around the server: renters leave, sessions start and end, the host      *)
(* installs the service                                                    *)

RenterCloses(v) ==
  /\ proxy[v].renter
  /\ Become(v, [proxy[v] EXCEPT !.renter = FALSE])

QemuCloses(v) ==
  /\ proxy[v].qemu
  /\ Become(v, [proxy[v] EXCEPT !.qemu = FALSE])

Provision(s) ==
  /\ session[s] = "starting"
  /\ session' \in {[session EXCEPT ![s] = x] : x \in {"running", "stopped"}}
  /\ UNCHANGED <<lock, request, proxy>>

\* billing_tick pauses a session that is not paid, and resumes it.
Bill(s) ==
  /\ \/ session[s] = "running" /\ session' = [session EXCEPT ![s] = "paused"]
     \/ session[s] = "paused" /\ session' = [session EXCEPT ![s] = "running"]
  /\ UNCHANGED <<lock, request, proxy>>

AskWrite ==
  /\ ~writer
  /\ writer' = TRUE
  /\ UNCHANGED <<service, guards, session, request, proxy>>

Write ==
  /\ writer /\ guards = {}
  /\ writer' = FALSE /\ service' = TRUE
  /\ UNCHANGED <<guards, session, request, proxy>>

-----------------------------------------------------------------------------
Handler(r) == ReadService(r) \/ Serve(r)
Tasks(v) == InputEnds(v) \/ InputFails(v) \/ FramesEnd(v) \/ FramesFail(v) \/ Return(v)

Next ==
  \/ \E r \in Renters :
       \/ \E op \in Ops, s \in Sessions : Ask(r, op, s)
       \/ Handler(r) \/ HangUp(r)
  \/ \E b \in Busses :
       \/ \E event \in Events : Deliver(b, event)
       \/ ReadService(b) \/ Handle(b)
  \/ \E v \in Viewers :
       \/ \E s \in Sessions : Open(v, s)
       \/ LookUp(v) \/ Endpoint(v) \/ Connect(v)
       \/ Tasks(v) \/ Input(v) \/ InputSent(v) \/ Frame(v) \/ FrameSent(v)
       \/ RenterCloses(v) \/ QemuCloses(v)
  \/ \E s \in Sessions : Provision(s) \/ Bill(s)
  \/ AskWrite \/ Write

Spec == Init /\ [][Next]_vars

\* The code's part: handlers and tasks go on, the lock is handed on in order.
\* The others': a session is provisioned or fails, and QEMU's socket closes with
\* its session.  Nothing is assumed of what a renter or QEMU sends or reads.
FairSpec ==
  /\ Spec
  /\ \A r \in Callers : SF_vars(ReadService(r)) /\ WF_vars(Serve(r) \/ Handle(r))
  /\ \A v \in Viewers :
       /\ SF_vars(LookUp(v)) /\ WF_vars(Endpoint(v)) /\ WF_vars(Connect(v))
       /\ WF_vars(InputEnds(v)) /\ WF_vars(InputFails(v))
       /\ WF_vars(FramesEnd(v)) /\ WF_vars(FramesFail(v)) /\ WF_vars(Return(v))
       /\ WF_vars(QemuCloses(v) /\ session[proxy[v].s] = "stopped")
  /\ \A s \in Sessions : WF_vars(Provision(s))
  /\ WF_vars(Write)

-----------------------------------------------------------------------------
Forwards(v) == proxy[v].input \/ proxy[v].frames
Watched(v) == proxy[v].at = "forward" /\ proxy[v].renter /\ proxy[v].qemu

\* No renter and no QEMU leaves a send to it waiting for ever: the one thing the
\* properties below ask of the two peers, who may be silent for as long as they like.
PeersRead ==
  \A v \in Viewers : []<>~proxy[v].typing /\ []<>~proxy[v].drawing

\* Once the renter or QEMU has gone the handler returns, with its guard, though
\* the other stays silent for ever and one of its tasks lives on; and once both
\* have gone no task is left.
DesktopEnds ==
  PeersRead =>
    \A v \in Viewers :
      /\ proxy[v].at = "forward" /\ ~Watched(v) ~> proxy[v].at # "forward"
      /\ Forwards(v) /\ ~proxy[v].renter /\ ~proxy[v].qemu ~> ~Forwards(v)

\* Stopping a session ends its desktops for good, those that were just being
\* connected included, whether or not their renters ever touch them again.
StopEndsDesktop ==
  PeersRead =>
    \A s \in Sessions, v \in Viewers :
      session[s] = "stopped" ~> [](proxy[v].s = s => proxy[v].at # "forward")

\* As long as no desktop is watched for ever, the service can be replaced and
\* every event is handled: no handler, hung up on or ended, keeps its guard, and
\* a writer that waits does not keep a top-up from its sessions.
LockServed ==
  PeersRead /\ (\A v \in Viewers : []<>~Watched(v)) =>
    /\ writer ~> ~writer
    /\ \A b \in Busses : request[b] # NoRequest ~> request[b] = NoRequest
=============================================================================

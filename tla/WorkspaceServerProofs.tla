------------------------- MODULE WorkspaceServerProofs -------------------------
(***************************************************************************)
(* Proofs about WorkspaceServer: its types, which say who holds the read   *)
(* guard of the workspace service.  Every answer, early return, dropped    *)
(* connection and returned proxy gives back exactly the guard its handler  *)
(* had taken, for any number of renters, viewers, event tasks and sessions. *)
(***************************************************************************)
EXTENDS WorkspaceServer, TLAPS

Serving(r) == request[r].at = "serve" /\ request[r].op # "stop"
Watching(v) == proxy[v].at \in {"endpoint", "connect", "forward"}

\* A step of one request handler, which takes the guard when it begins to serve
\* and gives it back when it ends.
LEMMA HandlerKeeps ==
  ASSUME TypeOK, NEW r \in Callers, NEW q \in Request,
         request' = [request EXCEPT ![r] = q],
         guards' = IF q.at = "serve" /\ q.op # "stop" THEN guards \cup {r} ELSE guards \ {r},
         UNCHANGED <<service, writer, proxy>>,
         session' \in [Sessions -> {"none", "starting", "running", "paused", "stopped"}]
  PROVE  TypeOK'
  <1>1. request' \in [Callers -> Request]
        /\ \A c \in Callers : request'[c] = IF c = r THEN q ELSE request[c]
    BY DEF TypeOK
  <1>2. Callers \cap Viewers = {}
    BY ServerAssumption DEF Callers
  <1>3. guards' = {c \in Callers : Serving(c)'} \cup {v \in Viewers : Watching(v)'}
    BY <1>1, <1>2 DEF TypeOK, Serving, Watching
  <1> QED BY <1>1, <1>3 DEF TypeOK, Serving, Watching

\* A step of one proxy, which holds the guard from the look-up to its return.
LEMMA ProxyKeeps ==
  ASSUME TypeOK, NEW v \in Viewers, NEW p \in Proxy,
         proxy' = [proxy EXCEPT ![v] = p],
         guards' = IF p.at \in {"endpoint", "connect", "forward"}
                     THEN guards \cup {v} ELSE guards \ {v},
         UNCHANGED <<service, writer, session, request>>
  PROVE  TypeOK'
  <1>1. proxy' \in [Viewers -> Proxy]
        /\ \A u \in Viewers : proxy'[u] = IF u = v THEN p ELSE proxy[u]
    BY DEF TypeOK
  <1>2. Callers \cap Viewers = {}
    BY ServerAssumption DEF Callers
  <1>3. guards' = {c \in Callers : Serving(c)'} \cup {u \in Viewers : Watching(u)'}
    BY <1>1, <1>2 DEF TypeOK, Serving, Watching
  <1> QED BY <1>1, <1>3 DEF TypeOK, Serving, Watching

\* Forwarding tasks and sockets end without moving the handler.
LEMMA SettledKeeps ==
  ASSUME TypeOK, NEW v \in Viewers, NEW p \in Proxy, p.at = proxy[v].at, Become(v, p)
  PROVE  TypeOK'
  <1>1. NoProxy \in Proxy /\ NoProxy.at = "off"
    BY DEF NoProxy, Proxy
  <1>2. Settled(p) \in Proxy
        /\ (Settled(p).at \in {"endpoint", "connect", "forward"} <=> Watching(v))
    BY <1>1 DEF Settled, Watching
  <1>3. v \in guards <=> Watching(v)
    BY ServerAssumption DEF TypeOK, Watching, Callers
  <1>4. guards = IF Settled(p).at \in {"endpoint", "connect", "forward"}
                   THEN guards \cup {v} ELSE guards \ {v}
    BY <1>2, <1>3
  <1> HIDE DEF Settled
  <1> QED BY <1>2, <1>4, ProxyKeeps DEF Become, lock

\* While a request is under way, it has an operation and a place.
LEMMA RequestKnown ==
  ASSUME TypeOK, NEW r \in Callers
  PROVE  /\ request[r] \in Request /\ NoRequest \in Request /\ NoRequest.at = "idle"
         /\ request[r].at # "idle" => [request[r] EXCEPT !.at = "serve"] \in Request
         /\ request[r].at = "serve" /\ request[r].op \in Ops => request[r].s \in Sessions
         /\ r \in guards <=> Serving(r)
  <1>1. request[r] \in Request
    BY DEF TypeOK
  <1>2. r \in guards <=> Serving(r)
    BY ServerAssumption DEF TypeOK, Serving, Callers
  <1>3. NoRequest \in Request /\ NoRequest.at = "idle"
    BY DEF NoRequest, Request
  <1>4. ASSUME request[r].at # "idle"
        PROVE  /\ [request[r] EXCEPT !.at = "serve"] \in Request
               /\ request[r].op \in Ops => request[r].s \in Sessions
    BY <1>1, <1>4, SMTT(20) DEF Request, NoRequest, Ops, Events
  <1> QED BY <1>1, <1>2, <1>3, <1>4

LEMMA EndsKeeps ==
  ASSUME TypeOK, NEW r \in Callers, Ends(r), UNCHANGED <<service, writer, proxy>>,
         session' \in [Sessions -> {"none", "starting", "running", "paused", "stopped"}]
  PROVE  TypeOK'
  BY RequestKnown, HandlerKeeps DEF Ends

LEMMA HandlerSteps ==
  ASSUME TypeOK, NEW r \in Callers,
         (\E op \in Ops, s \in Sessions : Ask(r, op, s)) \/ Deliver(r, "credits")
           \/ Deliver(r, "payment") \/ Handler(r) \/ HangUp(r) \/ Handle(r)
  PROVE  TypeOK'
  <1> USE RequestKnown
  <1>1. ASSUME NEW op \in Ops, NEW s \in Sessions, Ask(r, op, s) PROVE TypeOK'
    <2>1. [op |-> op, s |-> s, at |-> "lock"] \in Request
      BY DEF Request
    <2>2. r \notin guards
      BY <1>1 DEF Ask, Call, Serving
    <2> QED BY <1>1, <2>1, <2>2, HandlerKeeps DEF Ask, Call, lock, TypeOK
  <1>2. ASSUME NEW event \in Events, Deliver(r, event) PROVE TypeOK'
    <2>1. [op |-> event, s |-> None, at |-> "lock"] \in Request
      BY DEF Request
    <2>2. r \notin guards
      BY <1>2 DEF Deliver, Call, Serving
    <2> QED BY <1>2, <2>1, <2>2, HandlerKeeps DEF Deliver, Call, lock, TypeOK
  <1>3. CASE ReadService(r)
    <2>1. r \notin guards
      BY <1>3 DEF ReadService, Serving
    <2>2. [request[r] EXCEPT !.at = "serve"] \in Request
      BY <1>3 DEF ReadService
    <2>3. [request[r] EXCEPT !.at = "serve"].at = "serve"
          /\ [request[r] EXCEPT !.at = "serve"].op = request[r].op
      BY <2>2 DEF Request, NoRequest
    <2>4. CASE service
      <3>1. request' = [request EXCEPT ![r] = [request[r] EXCEPT !.at = "serve"]]
        BY <1>3, <2>4 DEF ReadService
      <3>2. guards' = IF request[r].op # "stop" THEN guards \cup {r} ELSE guards \ {r}
        BY <1>3, <2>1, <2>4 DEF ReadService
      <3>3. UNCHANGED <<service, writer, proxy>> /\ session' = session
        BY <1>3 DEF ReadService
      <3>4. session' \in [Sessions -> {"none", "starting", "running", "paused", "stopped"}]
        BY <3>3 DEF TypeOK
      <3> DEFINE q == [request[r] EXCEPT !.at = "serve"]
      <3>5. /\ q \in Request /\ request' = [request EXCEPT ![r] = q]
            /\ guards' = IF q.at = "serve" /\ q.op # "stop" THEN guards \cup {r}
                                                          ELSE guards \ {r}
        BY <2>2, <2>3, <3>1, <3>2
      <3> HIDE DEF q
      <3> QED BY <3>3, <3>4, <3>5, HandlerKeeps
    <2>5. CASE ~service
      <3>1. Ends(r) /\ UNCHANGED <<service, writer, proxy>> /\ session' = session
        BY <1>3, <2>1, <2>5 DEF ReadService, Ends
      <3>2. session' \in [Sessions -> {"none", "starting", "running", "paused", "stopped"}]
        BY <3>1 DEF TypeOK
      <3> QED BY <3>1, <3>2, EndsKeeps
    <2> QED BY <2>4, <2>5
  <1>4. CASE ServeStart(r)
    <2>1. request[r].s \in Sessions
      BY <1>4 DEF ServeStart, Ops
    <2>2. session' \in [Sessions -> {"none", "starting", "running", "paused", "stopped"}]
      BY <1>4, <2>1 DEF ServeStart, TypeOK
    <2>3. CASE Ends(r)
      BY <1>4, <2>2, <2>3, EndsKeeps DEF ServeStart
    <2>4. CASE UNCHANGED <<guards, request>>
      BY <1>4, <2>2, <2>4 DEF ServeStart, TypeOK
    <2> QED BY <1>4, <2>3, <2>4 DEF ServeStart
  <1>5. CASE ServeStop(r)
    <2>1. session' \in [Sessions -> {"none", "starting", "running", "paused", "stopped"}]
      BY <1>5 DEF ServeStop, TypeOK
    <2> QED BY <1>5, <2>1, EndsKeeps DEF ServeStop
  <1>6. CASE ServeRead(r) \/ HangUp(r) \/ ServePayment(r)
    BY <1>6, EndsKeeps DEF ServeRead, HangUp, ServePayment, TypeOK
  <1>7. CASE ServeCredits(r)
    <2>1. session' \in [Sessions -> {"none", "starting", "running", "paused", "stopped"}]
      BY <1>7 DEF ServeCredits, TypeOK
    <2> QED BY <1>7, <2>1, EndsKeeps DEF ServeCredits
  <1> QED
    BY <1>1, <1>2, <1>3, <1>4, <1>5, <1>6, <1>7 DEF Handler, Serve, Handle, Events

LEMMA ProxySteps ==
  ASSUME TypeOK, NEW v \in Viewers,
         \/ \E s \in Sessions : Open(v, s)
         \/ LookUp(v) \/ Endpoint(v) \/ Connect(v)
         \/ Tasks(v) \/ Input(v) \/ InputSent(v) \/ Frame(v) \/ FrameSent(v)
         \/ RenterCloses(v) \/ QemuCloses(v)
  PROVE  TypeOK'
  <1>1. proxy[v] \in Proxy /\ NoProxy \in Proxy /\ NoProxy.at = "off"
    BY DEF TypeOK, Proxy, NoProxy
  <1>2. v \in guards <=> Watching(v)
    BY ServerAssumption DEF TypeOK, Watching, Callers
  <1>3. CASE Rejected(v) /\ UNCHANGED <<service, writer, session, request>>
    BY <1>1, <1>3, ProxyKeeps DEF Rejected
  <1>4. CASE \E s \in Sessions : Open(v, s)
    <2>1. PICK s \in Sessions : Open(v, s)
      BY <1>4
    <2> DEFINE p == [NoProxy EXCEPT !.s = s, !.at = "lock", !.renter = TRUE]
    <2>2. p \in Proxy /\ p.at = "lock"
      BY DEF NoProxy, Proxy
    <2>3. v \notin guards
      BY <1>1, <1>2, <2>1 DEF Open, Watching
    <2>4. /\ proxy' = [proxy EXCEPT ![v] = p] /\ guards' = guards \ {v}
          /\ UNCHANGED <<service, writer, session, request>>
      BY <2>1, <2>3 DEF Open, lock
    <2> HIDE DEF p
    <2> QED BY <2>2, <2>4, ProxyKeeps
  <1>5. ASSUME NEW step \in {"endpoint", "connect", "forward", "returned"}, proxy[v].at # "off"
        PROVE  /\ [proxy[v] EXCEPT !.at = step] \in Proxy
               /\ [proxy[v] EXCEPT !.at = step].at = step
               /\ [proxy[v] EXCEPT !.at = step, !.input = TRUE, !.frames = TRUE,
                                   !.qemu = TRUE] \in Proxy
               /\ [proxy[v] EXCEPT !.at = step, !.input = TRUE, !.frames = TRUE,
                                   !.qemu = TRUE].at = step
    BY <1>1, <1>5 DEF Proxy, NoProxy
  <1>6. CASE LookUp(v) /\ ~Rejected(v)
    <2>1. proxy' = [proxy EXCEPT ![v] = [proxy[v] EXCEPT !.at = "endpoint"]]
          /\ guards' = guards \cup {v}
      BY <1>6 DEF LookUp
    <2> QED BY <1>5, <1>6, <2>1, ProxyKeeps DEF LookUp
  <1>7. CASE Endpoint(v) /\ ~Rejected(v)
    <2>1. proxy' = [proxy EXCEPT ![v] = [proxy[v] EXCEPT !.at = "connect"]]
          /\ guards' = guards \cup {v}
      BY <1>2, <1>7 DEF Endpoint, Watching
    <2> QED BY <1>5, <1>7, <2>1, ProxyKeeps DEF Endpoint
  <1>8. CASE Connect(v) /\ ~Rejected(v)
    <2>1. proxy' = [proxy EXCEPT ![v] = [proxy[v] EXCEPT !.at = "forward", !.input = TRUE,
                                                         !.frames = TRUE, !.qemu = TRUE]]
          /\ guards' = guards \cup {v}
      BY <1>1, <1>2, <1>8 DEF Connect, Watching
    <2> QED BY <1>5, <1>8, <2>1, ProxyKeeps DEF Connect
  <1>9. CASE Return(v)
    <2> DEFINE p == [proxy[v] EXCEPT !.at = "returned"]
    <2>1. p \in Proxy /\ p.at = "returned"
      BY <1>5, <1>9 DEF Return
    <2>2. Settled(p) \in Proxy /\ Settled(p).at \in {"off", "returned"}
      BY <1>1, <2>1 DEF Settled
    <2>3. proxy' = [proxy EXCEPT ![v] = Settled(p)] /\ guards' = guards \ {v}
      BY <1>9 DEF Return, TypeOK
    <2> HIDE DEF p
    <2> QED BY <1>9, <2>2, <2>3, ProxyKeeps DEF Return
  <1>10. ASSUME proxy[v] # NoProxy
         PROVE  \A x \in BOOLEAN :
                  /\ [proxy[v] EXCEPT !.input = x] \in Proxy
                  /\ [proxy[v] EXCEPT !.frames = x] \in Proxy
                  /\ [proxy[v] EXCEPT !.typing = x] \in Proxy
                  /\ [proxy[v] EXCEPT !.drawing = x] \in Proxy
                  /\ [proxy[v] EXCEPT !.renter = x] \in Proxy
                  /\ [proxy[v] EXCEPT !.qemu = x] \in Proxy
                  /\ [proxy[v] EXCEPT !.input = x, !.typing = x] \in Proxy
                  /\ [proxy[v] EXCEPT !.frames = x, !.drawing = x] \in Proxy
    BY <1>1, <1>10 DEF Proxy
  <1>11. \A x \in BOOLEAN :
           /\ [proxy[v] EXCEPT !.input = x].at = proxy[v].at
           /\ [proxy[v] EXCEPT !.frames = x].at = proxy[v].at
           /\ [proxy[v] EXCEPT !.typing = x].at = proxy[v].at
           /\ [proxy[v] EXCEPT !.drawing = x].at = proxy[v].at
           /\ [proxy[v] EXCEPT !.renter = x].at = proxy[v].at
           /\ [proxy[v] EXCEPT !.qemu = x].at = proxy[v].at
           /\ [proxy[v] EXCEPT !.input = x, !.typing = x].at = proxy[v].at
           /\ [proxy[v] EXCEPT !.frames = x, !.drawing = x].at = proxy[v].at
    BY <1>1 DEF Proxy, NoProxy
  <1>12. CASE Input(v) \/ InputSent(v) \/ InputFails(v) \/ InputEnds(v)
    <2>1. proxy[v] # NoProxy
      BY <1>12 DEF Input, InputSent, InputFails, InputEnds, NoProxy
    <2>2. PICK p \in Proxy : p.at = proxy[v].at /\ Become(v, p)
      BY <1>10, <1>11, <1>12, <2>1 DEF Input, InputSent, InputFails, InputEnds
    <2> QED BY <2>2, SettledKeeps
  <1>13. CASE Frame(v) \/ FrameSent(v) \/ FramesFail(v) \/ FramesEnd(v)
    <2>1. proxy[v] # NoProxy
      BY <1>13 DEF Frame, FrameSent, FramesFail, FramesEnd, NoProxy
    <2>2. PICK p \in Proxy : p.at = proxy[v].at /\ Become(v, p)
      BY <1>10, <1>11, <1>13, <2>1 DEF Frame, FrameSent, FramesFail, FramesEnd
    <2> QED BY <2>2, SettledKeeps
  <1>14. CASE RenterCloses(v) \/ QemuCloses(v)
    <2>1. proxy[v] # NoProxy
      BY <1>14 DEF RenterCloses, QemuCloses, NoProxy
    <2>2. PICK p \in Proxy : p.at = proxy[v].at /\ Become(v, p)
      BY <1>10, <1>11, <1>14, <2>1 DEF RenterCloses, QemuCloses
    <2> QED BY <2>2, SettledKeeps
  <1> QED
    BY <1>3, <1>4, <1>6, <1>7, <1>8, <1>9, <1>12, <1>13, <1>14
    DEF Tasks, LookUp, Endpoint, Connect

LEMMA NextTypes == TypeOK /\ [Next]_vars => TypeOK'
  <1> SUFFICES ASSUME TypeOK, [Next]_vars PROVE TypeOK'
    OBVIOUS
  <1>1. CASE UNCHANGED vars
    BY <1>1 DEF vars, lock, TypeOK
  <1>2. CASE \E s \in Sessions : Provision(s) \/ Bill(s)
    BY <1>2 DEF Provision, Bill, lock, TypeOK
  <1>3. CASE AskWrite \/ Write
    BY <1>3 DEF AskWrite, Write, TypeOK
  <1>4. Renters \subseteq Callers /\ Busses \subseteq Callers
    BY DEF Callers
  <1> QED BY <1>1, <1>2, <1>3, <1>4, HandlerSteps, ProxySteps DEF Next, Events, Handler

\* Types, and with them who holds the read guard of the service: the requests
\* being served, but for a stop, and the desktops being watched, and nobody
\* else.  So no answer, early return or broken connection leaves a guard behind,
\* and the service is only replaced when nobody is using it.
THEOREM GuardsExact == Spec => []TypeOK
  <1>1. ASSUME Init PROVE TypeOK
    <2>1. /\ \A r \in Callers : request[r] = NoRequest /\ NoRequest.at = "idle"
          /\ \A v \in Viewers : proxy[v] = NoProxy /\ NoProxy.at = "off"
      BY <1>1 DEF Init, NoRequest, NoProxy
    <2>2. request \in [Callers -> Request] /\ proxy \in [Viewers -> Proxy]
      BY <1>1 DEF Init, Request, Proxy
    <2>3. session \in [Sessions -> {"none", "starting", "running", "paused", "stopped"}]
          /\ service \in BOOLEAN /\ writer \in BOOLEAN /\ guards = {}
      BY <1>1 DEF Init
    <2> QED BY <2>1, <2>2, <2>3 DEF TypeOK
  <1> QED BY <1>1, NextTypes, PTL DEF Spec
=============================================================================

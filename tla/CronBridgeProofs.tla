--------------------------- MODULE CronBridgeProofs ---------------------------
(***************************************************************************)
(* Proofs about PaymentTimer and CronBridge: every session is paid by the  *)
(* one task that its entry in the map can stop, next to the bridge the     *)
(* timers behave as they do alone, and the cron app follows the commands    *)
(* that were answered.                                                     *)
(***************************************************************************)
EXTENDS CronBridge, TLAPS

(* The timers.  Types and OnlyTimer together are inductive: an abort hits   *)
(* the right task because the map's entry is the only live task of its     *)
(* session.                                                                *)

IInv == TypeOK /\ OnlyTimer

LEMMA InitHolds == Init => IInv
  <1> SUFFICES ASSUME Init PROVE IInv
    OBVIOUS
  <1>1. \A t \in Tasks : task[t] = [session |-> None, at |-> "new", aborted |-> FALSE]
    BY DEF Init
  <1>2. TypeOK
    BY DEF Init, TypeOK, Task, Waits
  <1>3. OnlyTimer
    BY <1>1, TimerAssumption DEF Init, OnlyTimer, Runs
  <1> QED BY <1>2, <1>3 DEF IInv

\* Aborting tasks keeps the types, where they are and whose they are.
LEMMA AbortKeeps ==
  ASSUME TypeOK, NEW old, NEW t \in Tasks
  PROVE  /\ Abort(old)[t] \in Task
         /\ Abort(old)[t].at = task[t].at
         /\ Abort(old)[t].session = task[t].session
         /\ Abort(old)[t].aborted <=> (task[t].aborted \/ t \in old)
  <1>1. task[t] \in Task
    BY DEF TypeOK
  <1>2. Abort(old)[t] = IF t \in old THEN [task[t] EXCEPT !.aborted = TRUE] ELSE task[t]
    BY DEF Abort
  <1>3. CASE t \in old
    BY <1>1, <1>2, <1>3 DEF Task
  <1>4. CASE t \notin old
    BY <1>1, <1>2, <1>4 DEF Task
  <1> QED BY <1>3, <1>4

\* A start keeps the invariant: the old task of the session is aborted, and
\* the new one takes its entry.
LEMMA StartKeeps ==
  ASSUME IInv, NEW s \in Sessions, StartTimer(s)
  PROVE  IInv'
  <1> USE DEF IInv
  <1>1. PICK n \in Tasks :
          /\ task[n].at = "new"
          /\ timers' = [timers EXCEPT ![s] = n]
          /\ task' = [Abort({timers[s]}) EXCEPT ![n] = [session |-> s, at |-> "tick",
                                                        aborted |-> FALSE]]
          /\ UNCHANGED <<readers, writer, router>>
    BY DEF StartTimer
  <1>2. DOMAIN Abort({timers[s]}) = Tasks
    BY DEF Abort
  <1>3. task'[n] = [session |-> s, at |-> "tick", aborted |-> FALSE]
    BY <1>1, <1>2
  <1>4. \A t \in Tasks : t # n =>
          /\ task'[t] \in Task
          /\ task'[t].at = task[t].at /\ task'[t].session = task[t].session
          /\ task'[t].aborted <=> (task[t].aborted \/ t = timers[s])
    BY <1>1, <1>2, AbortKeeps
  <1>5. TypeOK'
    <2>1. task'[n] \in Task
      BY <1>3 DEF Task, Waits
    <2>2. task' = [t \in Tasks |-> task'[t]]
      BY <1>1, <1>2
    <2>3. task' \in [Tasks -> Task]
      BY <1>4, <2>1, <2>2
    <2>4. timers' \in [Sessions -> Tasks \cup {None}]
      BY <1>1 DEF TypeOK
    <2>5. readers' \subseteq {t \in Tasks : task'[t].at = "invoke"}
      BY <1>1, <1>4 DEF TypeOK
    <2> QED BY <1>1, <2>3, <2>4, <2>5 DEF TypeOK
  <1>6. OnlyTimer'
    <2> SUFFICES ASSUME NEW u \in Sessions, NEW t \in Tasks
                 PROVE  timers'[u] = t <=>
                          Runs(t)' /\ ~task'[t].aborted /\ task'[t].session = u
      BY DEF OnlyTimer
    <2>1. timers'[u] = IF u = s THEN n ELSE timers[u]
      BY <1>1 DEF TypeOK
    <2>2. ~Runs(n) /\ \A v \in Sessions : timers[v] # n
      BY <1>1 DEF OnlyTimer, Runs
    <2>3. CASE t = n
      BY <1>3, <2>1, <2>2, <2>3 DEF Runs
    <2>4. CASE t # n
      BY <1>4, <2>1, <2>2, <2>4 DEF OnlyTimer, Runs
    <2> QED BY <2>3, <2>4
  <1> QED BY <1>5, <1>6

\* So do a stop and a stop of all sessions: they empty the entries of just the
\* tasks they abort.
LEMMA StopKeeps ==
  ASSUME IInv, NEW gone \in SUBSET Sessions,
         timers' = [s \in Sessions |-> IF s \in gone THEN None ELSE timers[s]],
         task' = Abort({timers[s] : s \in gone}),
         UNCHANGED <<readers, writer, router>>
  PROVE  IInv'
  <1> USE DEF IInv
  <1>1. \A t \in Tasks :
          /\ task'[t] \in Task
          /\ task'[t].at = task[t].at /\ task'[t].session = task[t].session
          /\ task'[t].aborted <=> (task[t].aborted \/ \E s \in gone : timers[s] = t)
    BY AbortKeeps
  <1>2. TypeOK'
    <2>1. task' \in [Tasks -> Task]
      BY <1>1 DEF Abort
    <2>2. timers' \in [Sessions -> Tasks \cup {None}]
      BY DEF TypeOK
    <2>3. readers' \subseteq {t \in Tasks : task'[t].at = "invoke"}
      BY <1>1 DEF TypeOK
    <2> QED BY <2>1, <2>2, <2>3 DEF TypeOK
  <1>3. OnlyTimer'
    <2> SUFFICES ASSUME NEW u \in Sessions, NEW t \in Tasks
                 PROVE  timers'[u] = t <=>
                          Runs(t)' /\ ~task'[t].aborted /\ task'[t].session = u
      BY DEF OnlyTimer
    <2>1. timers'[u] = IF u \in gone THEN None ELSE timers[u]
      OBVIOUS
    <2>2. t # None
      BY TimerAssumption
    <2>3. \A v \in Sessions : timers[v] = t => task[t].session = v
      BY DEF OnlyTimer
    <2> QED BY <1>1, <2>1, <2>2, <2>3 DEF OnlyTimer, Runs
  <1> QED BY <1>2, <1>3

\* A step of one task that neither starts nor ends it, or that ends it when it
\* is aborted, changes nothing the map can tell.
LEMMA TaskKeeps ==
  ASSUME IInv, NEW t \in Tasks, NEW step \in Waits \cup {"poll", "gone"},
         Runs(t), step = "gone" => task[t].aborted, Moves(t, step),
         UNCHANGED <<timers, writer, router>>,
         \/ UNCHANGED readers /\ task[t].at # "invoke"
         \/ readers' = readers \ {t}
         \/ readers' = readers \cup {t} /\ step = "invoke"
  PROVE  IInv'
  <1> USE DEF IInv
  <1>1. \A u \in Tasks :
          /\ task'[u] \in Task
          /\ task'[u].at = IF u = t THEN step ELSE task[u].at
          /\ task'[u].session = task[u].session /\ task'[u].aborted = task[u].aborted
    BY DEF Moves, TypeOK, Task
  <1>2. TypeOK'
    <2>1. task' \in [Tasks -> Task]
      BY <1>1 DEF Moves, TypeOK
    <2>2. readers' \subseteq {u \in Tasks : task'[u].at = "invoke"}
      BY <1>1 DEF TypeOK
    <2> QED BY <2>1, <2>2 DEF TypeOK
  <1>3. \A u \in Tasks : ~task[u].aborted => (Runs(u)' <=> Runs(u))
    BY <1>1 DEF Runs, Waits
  <1>4. OnlyTimer'
    BY <1>1, <1>3 DEF OnlyTimer
  <1> QED BY <1>2, <1>4

LEMMA StepKeeps == IInv /\ [Next]_vars => IInv'
  <1> SUFFICES ASSUME IInv, [Next]_vars PROVE IInv'
    OBVIOUS
  <1>1. CASE \E s \in Sessions : StartTimer(s)
    BY <1>1, StartKeeps
  <1>2. CASE \E s \in Sessions : StopTimer(s)
    <2>1. PICK s \in Sessions : StopTimer(s)
      BY <1>2
    <2>2. timers' = [u \in Sessions |-> IF u \in {s} THEN None ELSE timers[u]]
      BY <2>1 DEF StopTimer, IInv, TypeOK
    <2>3. task' = Abort({timers[u] : u \in {s}})
      <3>1. {timers[u] : u \in {s}} = {timers[s]}
        OBVIOUS
      <3> QED BY <2>1, <3>1 DEF StopTimer
    <2> QED BY <2>1, <2>2, <2>3, StopKeeps DEF StopTimer
  <1>3. CASE StopAll
    <2>1. timers' = [u \in Sessions |-> IF u \in Sessions THEN None ELSE timers[u]]
      BY <1>3 DEF StopAll
    <2> QED BY <1>3, <2>1, StopKeeps DEF StopAll
  <1>4. CASE \E t \in Tasks : Poll(t) \/ ReadQueued(t) \/ Invoked(t)
    <2>1. PICK t \in Tasks : Poll(t) \/ ReadQueued(t) \/ Invoked(t)
      BY <1>4
    <2>2. CASE Tick(t)
      BY <2>2, TaskKeeps DEF Tick, Runs, Waits
    <2>3. CASE ReadRouter(t) \/ ReadQueued(t)
      BY <2>3, TaskKeeps DEF ReadRouter, ReadQueued, Granted, Runs, Waits
    <2>4. CASE Invoked(t)
      BY <2>4, TaskKeeps DEF Invoked, InvokeReturns, InvokeFails, Runs, Waits
    <2>5. CASE Drop(t)
      BY <2>5, TaskKeeps DEF Drop, Runs, Waits
    <2> QED BY <2>1, <2>2, <2>3, <2>4, <2>5 DEF Poll
  <1>5. CASE AskWrite \/ Write \/ UNCHANGED vars
    <2>1. UNCHANGED <<timers, task, readers>> /\ writer' \in BOOLEAN /\ router' \in BOOLEAN
      BY <1>5 DEF AskWrite, Write, vars, IInv, TypeOK
    <2>2. TypeOK'
      BY <2>1 DEF IInv, TypeOK
    <2>3. OnlyTimer'
      BY <2>1 DEF IInv, OnlyTimer, Runs
    <2> QED BY <2>2, <2>3 DEF IInv
  <1> QED BY <1>1, <1>2, <1>3, <1>4, <1>5 DEF Next

LEMMA Invariance == Spec => []IInv
  BY InitHolds, StepKeeps, PTL DEF Spec

\* Types, which include that a task holds the router's guard only over a
\* payment: a dropped task gives it back.
THEOREM TypeCorrect == Spec => []TypeOK
  <1>1. IInv => TypeOK
    BY DEF IInv
  <1> QED BY <1>1, Invariance, PTL

\* However often timers are started again and stopped, a session is paid by
\* the one task that its entry can stop.
THEOREM OneTimerPerSession == Spec => []OnlyTimer
  <1>1. IInv => OnlyTimer
    BY DEF IInv
  <1> QED BY <1>1, Invariance, PTL

-----------------------------------------------------------------------------
(* The bridge.  JobsFollow speaks of an idle bridge.  It holds because of   *)
(* what a busy one is about to do: the call under way makes of the job what *)
(* is wanted.                                                              *)

CallLeads ==
  bridge # Idle /\ trust = "sure" => Effect(bridge.call, job) = wanted

CronInv ==
  /\ bridge \in Bridge /\ job \in Jobs /\ wanted \in Jobs /\ trust \in Trust
  /\ JobsFollow /\ CallLeads

LEMMA BridgeBusy == ASSUME CronInv, bridge.at # "idle"
                    PROVE  bridge # Idle /\ bridge.call \in Calls /\ bridge.at \in {"lock", "invoke"}
  BY DEF CronInv, Bridge, Idle

LEMMA JobTypes ==
  /\ NoJob \in Jobs
  /\ \A j \in Jobs, yes \in BOOLEAN : Paused(j, yes) \in Jobs
  /\ \A trigger \in Triggers : [trigger |-> trigger, paused |-> FALSE] \in Jobs
  <1>1. ASSUME NEW j \in Jobs, NEW yes \in BOOLEAN
        PROVE  Paused(j, yes) \in Jobs
    <2>1. CASE j = NoJob
      BY <2>1 DEF Paused, Jobs
    <2>2. CASE j # NoJob
      BY <2>2 DEF Paused, Jobs
    <2> QED BY <2>1, <2>2
  <1>2. NoJob \in Jobs
    BY DEF Jobs
  <1>3. \A trigger \in Triggers : [trigger |-> trigger, paused |-> FALSE] \in Jobs
    BY DEF Jobs
  <1> QED BY <1>1, <1>2, <1>3

LEMMA EffectType == ASSUME NEW c \in Calls, NEW j \in Jobs PROVE Effect(c, j) \in Jobs
  <1>1. CASE c.capability = "register"
    <2>1. c.trigger \in Triggers
      BY <1>1 DEF Calls
    <2> QED BY <1>1, <2>1, JobTypes DEF Effect
  <1>2. CASE c.capability = "unregister"
    BY <1>2, JobTypes DEF Effect
  <1>3. CASE c.capability = "pause"
    BY <1>3, JobTypes DEF Effect
  <1>4. CASE c.capability = "resume"
    BY <1>4, JobTypes DEF Effect
  <1> QED BY <1>1, <1>2, <1>3, <1>4 DEF Calls

\* Every command the bridge forwards becomes a call of the cron app that does
\* what the command means.
LEMMA CallMeans ==
  ASSUME NEW command \in Commands, command.type \notin {"UpdateJob", "DeleteJob"}, NEW j \in Jobs
  PROVE  /\ CallFor(command) \in Calls
         /\ Meaning(command, j) \in Jobs
         /\ Effect(CallFor(command), j) = Meaning(command, j)
         /\ command.type \in {"CreateJob", "DeleteByExternalRef"} =>
              \A k \in Jobs : Meaning(command, k) = Meaning(command, j)
  <1>1. CASE command.type = "CreateJob"
    <2>1. command.handler_id \in HandlerIds
      BY <1>1 DEF Commands, Keyed
    <2>2. CASE command.handler_id = "capability"
      BY <1>1, <2>2, JobTypes DEF CallFor, BuildRegisterPayload, Calls, Meaning, Effect, Triggers
    <2>3. CASE command.handler_id = "internal_api"
      BY <1>1, <2>3, JobTypes DEF CallFor, BuildRegisterPayload, Calls, Meaning, Effect, Triggers
    <2> QED BY <2>1, <2>2, <2>3 DEF HandlerIds
  <1>2. CASE command.type = "DeleteByExternalRef"
    BY <1>2, JobTypes DEF CallFor, Calls, Meaning, Effect
  <1>3. CASE command.type = "PauseJob"
    BY <1>3, JobTypes DEF CallFor, Calls, Meaning, Effect
  <1>4. CASE command.type = "ResumeJob"
    BY <1>4, JobTypes DEF CallFor, Calls, Meaning, Effect
  <1> QED BY <1>1, <1>2, <1>3, <1>4 DEF Commands, Keyed

-----------------------------------------------------------------------------
LEMMA LostKeeps == ASSUME NEW why \in {"lost", "late"}, Lost(why), trust \in Trust
                   PROVE  trust' \in {"lost", "late"} /\ wanted' \in Jobs
  BY JobTypes DEF Lost

LEMMA CronInitHolds == BridgeInit => CronInv
  BY JobTypes DEF BridgeInit, CronInv, JobsFollow, CallLeads, Bridge, Trust

LEMMA HandleKeeps ==
  ASSUME CronInv, NEW command \in Commands, Handle(command)
  PROVE  CronInv'
  <1>1. /\ bridge = Idle /\ bridge' = [at |-> "lock", call |-> CallFor(command)] /\ job' = job
        /\ command.type \notin {"UpdateJob", "DeleteJob"}
    BY DEF Handle
  <1>2. CallFor(command) \in Calls
    BY <1>1, CallMeans DEF CronInv
  <1>3. bridge' \in Bridge /\ bridge' # Idle /\ bridge'.call = CallFor(command)
    BY <1>1, <1>2 DEF Bridge, Idle
  <1>4. trust' \in Trust
        /\ (trust' = "sure" =>
              trust = "sure" \/ command.type \in {"CreateJob", "DeleteByExternalRef"})
    BY DEF Handle, Asked, CronInv, Trust
  <1>5. wanted' = IF trust' = "sure" THEN Meaning(command, wanted) ELSE NoJob
    BY DEF Handle, Asked
  <1>6. wanted' \in Jobs
    BY <1>1, <1>5, CallMeans, JobTypes DEF CronInv
  <1>7. CallLeads'
    <2> SUFFICES ASSUME trust' = "sure"
                 PROVE  Effect(CallFor(command), job) = wanted'
      BY <1>1, <1>3 DEF CallLeads, Effect, Paused
    <2>1. Effect(CallFor(command), job) = Meaning(command, job)
      BY <1>1, CallMeans DEF CronInv
    <2>2. CASE trust = "sure"
      BY <1>1, <1>5, <2>1, <2>2 DEF CronInv, JobsFollow
    <2>3. CASE command.type \in {"CreateJob", "DeleteByExternalRef"}
      BY <1>1, <1>5, <2>1, <2>3, CallMeans DEF CronInv
    <2> QED BY <1>4, <2>2, <2>3
  <1> QED BY <1>1, <1>3, <1>4, <1>6, <1>7 DEF CronInv, JobsFollow

LEMMA CloneKeeps ==
  ASSUME CronInv, CloneRouter
  PROVE  CronInv'
  <1>1. bridge # Idle /\ bridge.call \in Calls /\ bridge.at = "lock" /\ job' = job
    BY BridgeBusy DEF CloneRouter
  <1>2. CASE bridge' = [bridge EXCEPT !.at = "invoke"] /\ UNCHANGED <<wanted, trust>>
    <2>1. bridge' \in Bridge /\ bridge' # Idle /\ bridge'.call = bridge.call
      BY <1>1, <1>2 DEF CronInv, Bridge, Idle
    <2>2. CallLeads'
      BY <1>1, <1>2, <2>1 DEF CronInv, CallLeads, Effect, Paused
    <2> QED BY <1>1, <1>2, <2>1, <2>2 DEF CronInv, JobsFollow
  <1>3. CASE bridge' = Idle /\ Lost("lost")
    <2>1. trust' \in {"lost", "late"} /\ wanted' \in Jobs
      BY <1>3, LostKeeps DEF CronInv
    <2> QED BY <1>1, <1>3, <2>1 DEF CronInv, JobsFollow, CallLeads, Bridge, Trust
  <1> QED BY <1>2, <1>3 DEF CloneRouter

LEMMA AnswerKeeps ==
  ASSUME CronInv, Answer
  PROVE  CronInv'
  <1>1. bridge # Idle /\ bridge.call \in Calls /\ bridge' = Idle
    BY BridgeBusy DEF Answer
  <1>2. CASE job' = Effect(bridge.call, job) /\ UNCHANGED <<wanted, trust>>
    <2>1. job' \in Jobs
      BY <1>1, <1>2, EffectType DEF CronInv
    <2> QED BY <1>1, <1>2, <2>1 DEF CronInv, JobsFollow, CallLeads, Bridge
  <1>3. CASE UNCHANGED job /\ \E why \in {"lost", "late"} : Lost(why)
    <2>1. trust' \in {"lost", "late"} /\ wanted' \in Jobs
      BY <1>3, LostKeeps DEF CronInv
    <2> QED BY <1>1, <1>3, <2>1 DEF CronInv, JobsFollow, CallLeads, Bridge, Trust
  <1> QED BY <1>2, <1>3 DEF Answer

LEMMA CronStepKeeps == CronInv /\ [BridgeNext]_bridgeVars => CronInv'
  <1> SUFFICES ASSUME CronInv, [BridgeNext]_bridgeVars PROVE CronInv'
    OBVIOUS
  <1>1. ASSUME NEW command \in Commands, Handle(command) PROVE CronInv'
    BY <1>1, HandleKeeps
  <1>2. CASE CloneRouter
    BY <1>2, CloneKeeps
  <1>3. CASE Answer
    BY <1>3, AnswerKeeps
  <1>4. CASE TakesEffectLate
    <2>1. PICK c \in Calls : job' = Effect(c, job)
      BY <1>4 DEF TakesEffectLate
    <2>2. job' \in Jobs /\ trust = "late" /\ UNCHANGED <<bridge, wanted, trust>>
      BY <1>4, <2>1, EffectType DEF TakesEffectLate, CronInv
    <2> QED BY <2>2 DEF CronInv, JobsFollow, CallLeads
  <1>5. CASE UNCHANGED cronVars
    BY <1>5 DEF cronVars, CronInv, JobsFollow, CallLeads, Effect, Paused
  <1> QED BY <1>1, <1>2, <1>3, <1>4, <1>5 DEF BridgeNext, bridgeVars

-----------------------------------------------------------------------------
(* The theorems                                                            *)

\* The bridge takes nothing from the timers: it gives the router's guard back
\* before it invokes, so every behaviour of both is one of the timers.
THEOREM TimersUndisturbed == BridgeSpec => Spec
  <1>1. BridgeInit => Init
    BY DEF BridgeInit
  <1>2. [BridgeNext]_bridgeVars => [Next]_vars
    BY DEF BridgeNext, bridgeVars, vars, Handle, CloneRouter, Answer, TakesEffectLate
  <1> QED BY <1>1, <1>2, PTL DEF BridgeSpec, Spec

\* Every command of the bus and every loss leave the variables of the declared
\* types (BridgeTypeOK), those of the timers included.
THEOREM BridgeTypeCorrect == BridgeSpec => []BridgeTypeOK
  <1>1. CronInv /\ TypeOK => BridgeTypeOK
    BY DEF CronInv, BridgeTypeOK
  <1> QED BY <1>1, CronInitHolds, CronStepKeeps, TimersUndisturbed, TypeCorrect, PTL DEF BridgeSpec

\* With every command since the last create or delete answered, and none that
\* timed out, the cron app holds what the publishers asked for (JobsFollow).
THEOREM AppFollowsCommands == BridgeSpec => []JobsFollow
  <1>1. CronInv => JobsFollow
    BY DEF CronInv
  <1> QED BY <1>1, CronInitHolds, CronStepKeeps, PTL DEF BridgeSpec
=============================================================================

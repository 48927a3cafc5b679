------------------------------- MODULE CronBridge -------------------------------
(***************************************************************************)
(* CronCommandBridge                                                       *)
(* (cross-node-rental/src/events/handlers/cron_command_bridge.rs) next to  *)
(* the payment timers: both reach the apps through the capability router,  *)
(* behind one tokio RwLock.  The bridge clones the router and gives the    *)
(* guard back before it invokes; the timers hold theirs over the payment.  *)
(*                                                                         *)
(* The event bus and the cron app are external: the bus hands the bridge   *)
(* one command at a time, and the app keeps a job per external reference,  *)
(* of which one is modelled.                                               *)
(***************************************************************************)
EXTENDS PaymentTimer

VARIABLES bridge,   \* where handle is, and the capability it forwards to
          job,      \* the job in the cron app
          wanted,   \* the job the publishers asked for
          trust     \* may they count on it?

cronVars == <<bridge, job, wanted, trust>>
bridgeVars == <<vars, cronVars>>

Keyed == {"DeleteByExternalRef", "PauseJob", "ResumeJob", "UpdateJob", "DeleteJob"}
HandlerIds == {"capability", "internal_api"}
Commands == [type : {"CreateJob"}, handler_id : HandlerIds] \cup
            [type : Keyed, handler_id : {None}]

Triggers == {"capability", "http"}
Calls == [capability : {"register"}, trigger : Triggers] \cup
         [capability : {"unregister", "pause", "resume"}, trigger : {None}]

NoJob == [trigger |-> None, paused |-> FALSE]
Jobs == [trigger : Triggers, paused : BOOLEAN] \cup {NoJob}

Idle == [at |-> "idle", call |-> None]
Bridge == [at : {"lock", "invoke"}, call : Calls] \cup {Idle}

\* lost: not before the next CreateJob or DeleteByExternalRef.  late: no more,
\* a command that timed out may still take effect.
Trust == {"sure", "lost", "late"}

BridgeTypeOK ==
  /\ TypeOK
  /\ bridge \in Bridge
  /\ job \in Jobs /\ wanted \in Jobs /\ trust \in Trust

BridgeInit == Init /\ bridge = Idle /\ job = NoJob /\ wanted = NoJob /\ trust = "sure"

-----------------------------------------------------------------------------
(* The translation of a command to a call of the cron app                  *)

\* Any handler_id other than "capability" makes an HTTP trigger.
BuildRegisterPayload(command) ==
  [capability |-> "register",
   trigger |-> IF command.handler_id = "capability" THEN "capability" ELSE "http"]

\* Fault for testing: a DeleteByExternalRef pauses the job.
CallFor_Pauses(command) ==
  CASE command.type = "CreateJob" -> BuildRegisterPayload(command)
    [] command.type = "ResumeJob" -> [capability |-> "resume", trigger |-> None]
    [] OTHER                      -> [capability |-> "pause", trigger |-> None]

CallFor(command) ==
  CASE command.type = "CreateJob" -> BuildRegisterPayload(command)
    [] command.type = "DeleteByExternalRef" -> [capability |-> "unregister", trigger |-> None]
    [] command.type = "PauseJob"  -> [capability |-> "pause", trigger |-> None]
    [] command.type = "ResumeJob" -> [capability |-> "resume", trigger |-> None]

Paused(j, yes) == IF j # NoJob THEN [j EXCEPT !.paused = yes] ELSE j

\* What the command means to its publisher.
Meaning(command, j) ==
  CASE command.type = "CreateJob"           ->
         [trigger |-> IF command.handler_id = "internal_api" THEN "http" ELSE "capability",
          paused |-> FALSE]
    [] command.type = "DeleteByExternalRef" -> NoJob
    [] command.type = "PauseJob"            -> Paused(j, TRUE)
    [] command.type = "ResumeJob"           -> Paused(j, FALSE)

Asked(command) ==
  /\ trust' = IF trust = "lost" /\ command.type \in {"CreateJob", "DeleteByExternalRef"}
                THEN "sure" ELSE trust
  /\ wanted' = IF trust' = "sure" THEN Meaning(command, wanted) ELSE NoJob

Lost(why) == trust' = (IF trust = "late" THEN "late" ELSE why) /\ wanted' = NoJob

\* What the cron app does.
Effect(c, j) ==
  CASE c.capability = "register"   -> [trigger |-> c.trigger, paused |-> FALSE]
    [] c.capability = "unregister" -> NoJob
    [] c.capability = "pause"      -> Paused(j, TRUE)
    [] c.capability = "resume"     -> Paused(j, FALSE)

-----------------------------------------------------------------------------
\* handle starts: UpdateJob and DeleteJob are logged and dropped.
Handle(command) ==
  /\ bridge = Idle
  /\ command.type \notin {"UpdateJob", "DeleteJob"}
  /\ bridge' = [at |-> "lock", call |-> CallFor(command)]
  /\ Asked(command)
  /\ UNCHANGED <<vars, job>>

\* invoke_cron: the guard is given back before the call.  Without a router the
\* command is logged and lost.
CloneRouter ==
  /\ bridge.at = "lock" /\ ~writer
  /\ \/ router /\ bridge' = [bridge EXCEPT !.at = "invoke"] /\ UNCHANGED <<wanted, trust>>
     \/ ~router /\ bridge' = Idle /\ Lost("lost")
  /\ UNCHANGED <<vars, job>>

\* The app answers, refuses, or keeps the bridge waiting for BRIDGE_TIMEOUT.
\* Nothing is tried again.
Answer ==
  /\ bridge.at = "invoke"
  /\ \/ job' = Effect(bridge.call, job) /\ UNCHANGED <<wanted, trust>>
     \/ UNCHANGED job /\ \E why \in {"lost", "late"} : Lost(why)
  /\ bridge' = Idle
  /\ UNCHANGED vars

TakesEffectLate ==
  /\ trust = "late"
  /\ \E c \in Calls : job' = Effect(c, job)
  /\ UNCHANGED <<vars, bridge, wanted, trust>>

BridgeNext ==
  \/ Next /\ UNCHANGED cronVars
  \/ \E command \in Commands : Handle(command)
  \/ CloneRouter \/ Answer \/ TakesEffectLate

BridgeSpec == BridgeInit /\ [][BridgeNext]_bridgeVars

\* As in PaymentTimer, with nothing assumed of what the timers invoke; the bridge
\* is next in the lock's queue now and then, and its call ends within
\* BRIDGE_TIMEOUT.
BridgeFairSpec ==
  /\ BridgeSpec
  /\ \A t \in Tasks : /\ WF_bridgeVars(Poll(t) /\ UNCHANGED cronVars)
                      /\ SF_bridgeVars(ReadQueued(t) /\ UNCHANGED cronVars)
  /\ WF_bridgeVars(Write /\ UNCHANGED cronVars)
  /\ WF_bridgeVars(AskWrite /\ ~router /\ UNCHANGED cronVars)
  /\ SF_bridgeVars(CloneRouter) /\ WF_bridgeVars(Answer)

-----------------------------------------------------------------------------
\* When every command since the last create or delete was answered, and none
\* ever timed out, the cron app holds what the publishers asked for, whatever
\* router was installed and whoever waited for it in between.
JobsFollow == bridge = Idle /\ trust = "sure" => job = wanted
=============================================================================

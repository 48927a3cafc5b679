------------------------------ MODULE PaymentTimer ------------------------------
(***************************************************************************)
(* PaymentTimerManager (cross-node-rental/src/workspace/payment_timer.rs): *)
(* the renter's background tasks that pay one BOLT12 offer per interval.   *)
(*                                                                         *)
(* A task is polled between two awaits.  abort drops a task that waits and *)
(* lets the poll of one that runs go on to its next await.  The capability *)
(* router sits behind a tokio RwLock: first in, first out, so a writer that *)
(* waits keeps later readers out.                                          *)
(***************************************************************************)
CONSTANTS Sessions,
          Tasks,     \* bound: tasks spawned in a behaviour
          None       \* no timer

ASSUME TimerAssumption == None \notin Tasks

VARIABLES timers,    \* session_id to the task whose handle the map holds
          task,      \* per task: its session, where it is, whether it is aborted
          readers,   \* tasks that hold the read guard of the router's lock
          writer,    \* the host waits to install or replace the router
          router     \* is there a router?

vars == <<timers, task, readers, writer, router>>

Waits == {"tick", "lock", "invoke"}    \* awaits at which a task is dropped

Task == [session : Sessions \cup {None}, at : Waits \cup {"new", "poll", "gone"},
         aborted : BOOLEAN]

TypeOK ==
  /\ timers \in [Sessions -> Tasks \cup {None}]
  /\ task \in [Tasks -> Task]
  /\ readers \subseteq {t \in Tasks : task[t].at = "invoke"}
  /\ writer \in BOOLEAN /\ router \in BOOLEAN

Init ==
  /\ timers = [s \in Sessions |-> None]
  /\ task = [t \in Tasks |-> [session |-> None, at |-> "new", aborted |-> FALSE]]
  /\ readers = {} /\ writer = FALSE /\ router = FALSE

-----------------------------------------------------------------------------
(* start_timer, stop_timer and stop_all: one critical section each         *)

Abort(old) == [t \in Tasks |-> IF t \in old THEN [task[t] EXCEPT !.aborted = TRUE]
                                            ELSE task[t]]

\* Fault for testing: a second start replaces the handle without an abort, as
\* if dropping it cancelled the task.
StartTimer_DropsHandle(s) ==
  \E t \in Tasks :
    /\ task[t].at = "new"
    /\ timers' = [timers EXCEPT ![s] = t]
    /\ task' = [task EXCEPT ![t] = [session |-> s, at |-> "tick", aborted |-> FALSE]]
    /\ UNCHANGED <<readers, writer, router>>

StartTimer(s) ==
  \E t \in Tasks :
    /\ task[t].at = "new"
    /\ timers' = [timers EXCEPT ![s] = t]
    /\ task' = [Abort({timers[s]}) EXCEPT ![t] = [session |-> s, at |-> "tick",
                                                  aborted |-> FALSE]]
    /\ UNCHANGED <<readers, writer, router>>

\* Fault for testing: the entry is removed and its task left alone.
StopTimer_NoAbort(s) ==
  /\ timers' = [timers EXCEPT ![s] = None]
  /\ UNCHANGED <<task, readers, writer, router>>

StopTimer(s) ==
  /\ timers[s] # None
  /\ timers' = [timers EXCEPT ![s] = None]
  /\ task' = Abort({timers[s]})
  /\ UNCHANGED <<readers, writer, router>>

StopAll ==
  /\ timers' = [s \in Sessions |-> None]
  /\ task' = Abort({timers[s] : s \in Sessions})
  /\ UNCHANGED <<readers, writer, router>>

-----------------------------------------------------------------------------
(* The task.  Its first tick fires at once and is skipped.                 *)

Moves(t, step) == task' = [task EXCEPT ![t].at = step]

Tick(t) ==
  /\ task[t].at = "tick" /\ ~task[t].aborted
  /\ Moves(t, "poll")
  /\ UNCHANGED <<timers, readers, writer, router>>

\* The read guard is there at once: without a router the payment is skipped.
Granted(t) ==
  /\ IF router THEN Moves(t, "invoke") /\ readers' = readers \cup {t}
               ELSE Moves(t, "tick") /\ UNCHANGED readers
  /\ UNCHANGED <<timers, writer, router>>

ReadRouter(t) ==
  /\ task[t].at = "poll"
  /\ \/ ~writer /\ Granted(t)
     \/ writer /\ Moves(t, "lock") /\ UNCHANGED <<timers, readers, writer, router>>

ReadQueued(t) ==
  /\ task[t].at = "lock" /\ ~task[t].aborted
  /\ ~writer
  /\ Granted(t)

\* Fault for testing: the guard lives outside the loop's body.
InvokeReturns_KeepsGuard(t) ==
  /\ task[t].at = "invoke" /\ ~task[t].aborted
  /\ Moves(t, "tick")
  /\ UNCHANGED <<timers, readers, writer, router>>

\* The payment succeeded or is pending.  invoke is given no timeout: the guard is
\* held for as long as it takes.
InvokeReturns(t) ==
  /\ task[t].at = "invoke" /\ ~task[t].aborted
  /\ Moves(t, "tick")
  /\ readers' = readers \ {t}
  /\ UNCHANGED <<timers, writer, router>>

\* Fault for testing: a failed payment ends the loop, as lines 8-9 have it.
InvokeFails_Breaks(t) ==
  /\ task[t].at = "invoke" /\ ~task[t].aborted
  /\ Moves(t, "gone")
  /\ readers' = readers \ {t}
  /\ UNCHANGED <<timers, writer, router>>

\* The payment failed: the error is logged and the loop goes on the same way.
InvokeFails(t) ==
  /\ task[t].at = "invoke" /\ ~task[t].aborted
  /\ Moves(t, "tick")
  /\ readers' = readers \ {t}
  /\ UNCHANGED <<timers, writer, router>>

\* Fault for testing: the guard is not dropped with the task.
Drop_LeaksGuard(t) ==
  /\ task[t].at \in Waits /\ task[t].aborted
  /\ Moves(t, "gone")
  /\ UNCHANGED <<timers, readers, writer, router>>

\* An aborted task is dropped where it waits, and its guard with it; a payment
\* it had handed to the router is out of its hands.
Drop(t) ==
  /\ task[t].at \in Waits /\ task[t].aborted
  /\ Moves(t, "gone")
  /\ readers' = readers \ {t}
  /\ UNCHANGED <<timers, writer, router>>

-----------------------------------------------------------------------------
(* The host installs the capability router, or replaces it                 *)

AskWrite ==
  /\ ~writer
  /\ writer' = TRUE
  /\ UNCHANGED <<timers, task, readers, router>>

Write ==
  /\ writer /\ readers = {}
  /\ writer' = FALSE /\ router' = TRUE
  /\ UNCHANGED <<timers, task, readers>>

Poll(t) == Tick(t) \/ ReadRouter(t) \/ Drop(t)
Invoked(t) == InvokeReturns(t) \/ InvokeFails(t)

Next ==
  \/ \E s \in Sessions : StartTimer(s) \/ StopTimer(s)
  \/ StopAll
  \/ \E t \in Tasks : Poll(t) \/ ReadQueued(t) \/ Invoked(t)
  \/ AskWrite \/ Write

Spec == Init /\ [][Next]_vars

\* The interval ticks, the lock is handed on in its order, and the host installs
\* a router once.  Nothing is assumed of invoke.
FairSpec ==
  /\ Spec
  /\ \A t \in Tasks : WF_vars(Poll(t)) /\ SF_vars(ReadQueued(t))
  /\ WF_vars(Write) /\ WF_vars(AskWrite /\ ~router)

-----------------------------------------------------------------------------
Runs(t) == task[t].at \notin {"new", "gone"}

\* A session is paid by one task, the one its entry in the map can stop: every
\* other task of the session that still runs is aborted, whatever restarts and
\* stops went before.
OnlyTimer ==
  \A s \in Sessions, t \in Tasks :
    timers[s] = t <=> Runs(t) /\ ~task[t].aborted /\ task[t].session = s

\* After a stop, every task of the session ends, or the session is started anew.
StopEnds ==
  \A s \in Sessions :
    timers[s] = None ~>
      timers[s] # None \/ \A t \in Tasks : task[t].session = s => ~Runs(t)

\* No timer that is left running hangs in invoke for ever.  One that hangs may
\* still be stopped: what follows holds all the same.
NoTimerHangs ==
  \A t \in Tasks : []<>(task[t].at = "invoke" => task[t].aborted)

\* A timer that is not stopped pays again and again: no failed payment, missing
\* router or waiting writer ends its loop, and no other timer that hung and was
\* stopped holds it up.
PaysAgain ==
  NoTimerHangs =>
    \A s \in Sessions, t \in Tasks :
      timers[s] = t ~> task[t].at = "invoke" \/ timers[s] # t

\* Installing the router waits for the payments under way and for no stopped
\* one: an abort gives back the guard of a payment that hangs.
WriterServed == NoTimerHangs => (writer ~> ~writer)
===============================================================================

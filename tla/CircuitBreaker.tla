--------------------------- MODULE CircuitBreaker ---------------------------
(***************************************************************************)
(* The TEE circuit breaker of hybrid-signer (src/circuit_breaker.rs) and   *)
(* the callers the signer adapter puts in front of it                      *)
(* (src/ldk_signer_adapter.rs).                                            *)
(*                                                                         *)
(* The breaker has no lock around its operations: state, failure_count and *)
(* backoff_multiplier are atomics, and last_state_change has a mutex of    *)
(* its own.  Every load and store is therefore a step of its own, and the  *)
(* threads of Callers interleave between any two of them.                  *)
(*                                                                         *)
(* Time is relative: since is the time elapsed from last_state_change, and *)
(* stops at MaxTimeout, which no recovery timeout exceeds, so the          *)
(* comparison `elapsed >= timeout` is exact.                               *)
(***************************************************************************)
EXTENDS Integers, FiniteSets

CONSTANTS Callers,      \* threads that sign through the breaker
          Threshold,    \* failure_threshold
          Base,         \* base_recovery_timeout, in units of the clock
          MaxTimeout,   \* max_recovery_timeout (5 minutes in new())
          Outages,      \* bound: how often the secure element goes down
          None

ASSUME BreakerAssumption ==
  /\ Threshold \in Nat /\ Base \in Nat /\ MaxTimeout \in Nat /\ Outages \in Nat
  /\ None \notin Nat

VARIABLES state,        \* AtomicU8: closed, open or half
          failures,     \* failure_count
          multiplier,   \* backoff_multiplier
          since,        \* elapsed time of last_state_change, None before any
          pc, seen, timeout, \* per thread: next step, state and timeout it read
          up,           \* whether the secure element answers
          outages,      \* how often it went down
          opened        \* history: time since the state last became open

shared == <<state, failures, multiplier, since>>
hardware == <<up, outages>>
control == <<pc, seen, timeout>>
vars == <<shared, control, hardware, opened>>

States == {"closed", "open", "half"}
Steps == {"idle", "ask", "timeout", "elapsed", "probe", "stampProbe", "sign",
          "succeeded", "reset", "forgive", "close",
          "failed", "count", "backoff", "open", "stamp"}

\* saturating_mul has nothing to saturate here: the product is capped below.
MaxMultiplier ==
  LET ratio == MaxTimeout \div (IF Base = 0 THEN 1 ELSE Base)
  IN  IF ratio = 0 THEN 1 ELSE ratio

Least(a, b) == IF a < b THEN a ELSE b

RecoveryTimeout == Least(Base * multiplier, MaxTimeout)

\* Fault for testing: the doubled multiplier is not capped.
Backoff_NoCap == 2 * multiplier

Backoff == Least(2 * multiplier, MaxMultiplier)

TypeOK ==
  /\ state \in States /\ failures \in Nat
  /\ multiplier \in 1..MaxMultiplier
  /\ since \in 0..MaxTimeout \cup {None}
  /\ pc \in [Callers -> Steps]
  /\ seen \in [Callers -> States]
  /\ timeout \in [Callers -> 0..MaxTimeout]
  /\ up \in BOOLEAN /\ outages \in 0..Outages
  /\ opened \in 0..MaxTimeout

Init ==
  /\ state = "closed" /\ failures = 0 /\ multiplier = 1 /\ since = None
  /\ pc = [c \in Callers |-> "idle"]
  /\ seen = [c \in Callers |-> "closed"]
  /\ timeout = [c \in Callers |-> 0]
  /\ up = TRUE /\ outages = 0
  /\ opened = 0

-----------------------------------------------------------------------------
Goto(c, step) == pc' = [pc EXCEPT ![c] = step]

\* transition_to stores the state first and stamps the time in a later step.
SetState(s) ==
  /\ state' = s
  /\ opened' = IF s = "open" /\ state # "open" THEN 0 ELSE opened

-----------------------------------------------------------------------------
(* sign_commitment, and sign_htlc at or above the threshold: should_allow.  *)

Request(c) ==
  /\ pc[c] = "idle"
  /\ Goto(c, "ask")
  /\ UNCHANGED <<shared, seen, timeout, hardware, opened>>

AllowState(c) ==
  /\ pc[c] = "ask"
  /\ seen' = [seen EXCEPT ![c] = state]
  /\ Goto(c, IF state = "open" THEN "timeout" ELSE "sign")
  /\ UNCHANGED <<shared, timeout, hardware, opened>>

AllowTimeout(c) ==
  /\ pc[c] = "timeout"
  /\ timeout' = [timeout EXCEPT ![c] = RecoveryTimeout]
  /\ Goto(c, "elapsed")
  /\ UNCHANGED <<shared, seen, hardware, opened>>

\* last_state_change is read under its mutex; None counts as elapsed.
Elapsed(c) == since # None => since >= timeout[c]

AllowElapsed(c) ==
  /\ pc[c] = "elapsed"
  /\ Elapsed(c)
  /\ Goto(c, "probe")
  /\ UNCHANGED <<shared, seen, timeout, hardware, opened>>

\* Fault for testing: a refused call restarts the recovery timeout.
AllowRefuse_Restamps(c) ==
  /\ pc[c] = "elapsed"
  /\ ~Elapsed(c)
  /\ since' = 0
  /\ Goto(c, "idle")
  /\ UNCHANGED <<state, failures, multiplier, seen, timeout, hardware, opened>>

AllowRefuse(c) ==
  /\ pc[c] = "elapsed"
  /\ ~Elapsed(c)
  /\ Goto(c, "idle")
  /\ UNCHANGED <<shared, seen, timeout, hardware, opened>>

AllowProbe(c) ==
  /\ pc[c] = "probe"
  /\ SetState("half")
  /\ Goto(c, "stampProbe")
  /\ UNCHANGED <<failures, multiplier, since, seen, timeout, hardware>>

Stamp(c) ==
  /\ pc[c] \in {"stamp", "stampProbe"}
  /\ since' = 0
  /\ Goto(c, IF pc[c] = "stamp" THEN "idle" ELSE "sign")
  /\ UNCHANGED <<state, failures, multiplier, seen, timeout, hardware, opened>>

-----------------------------------------------------------------------------
(* The signing itself, whose outcome the host records (not under src/).     *)

Sign(c) ==
  /\ pc[c] = "sign"
  /\ Goto(c, IF up THEN "succeeded" ELSE "failed")
  /\ UNCHANGED <<shared, seen, timeout, hardware, opened>>

(* record_success                                                           *)

SuccessState(c) ==
  /\ pc[c] = "succeeded"
  /\ seen' = [seen EXCEPT ![c] = state]
  /\ Goto(c, "reset")
  /\ UNCHANGED <<shared, timeout, hardware, opened>>

\* Fault for testing: a success only resets the count, whatever the state.
SuccessReset_NeverCloses(c) ==
  /\ pc[c] = "reset"
  /\ failures' = 0
  /\ Goto(c, "idle")
  /\ UNCHANGED <<state, multiplier, since, seen, timeout, hardware, opened>>

SuccessReset(c) ==
  /\ pc[c] = "reset"
  /\ failures' = 0
  /\ Goto(c, IF seen[c] = "half" THEN "forgive" ELSE "idle")
  /\ UNCHANGED <<state, multiplier, since, seen, timeout, hardware, opened>>

\* Fault for testing: recovery keeps the backoff of the outage.
SuccessForgive_KeepsBackoff(c) ==
  /\ pc[c] = "forgive"
  /\ Goto(c, "close")
  /\ UNCHANGED <<shared, seen, timeout, hardware, opened>>

SuccessForgive(c) ==
  /\ pc[c] = "forgive"
  /\ multiplier' = 1
  /\ Goto(c, "close")
  /\ UNCHANGED <<state, failures, since, seen, timeout, hardware, opened>>

SuccessClose(c) ==
  /\ pc[c] = "close"
  /\ SetState("closed")
  /\ Goto(c, "stamp")
  /\ UNCHANGED <<failures, multiplier, since, seen, timeout, hardware>>

(* record_failure                                                           *)

FailureState(c) ==
  /\ pc[c] = "failed"
  /\ seen' = [seen EXCEPT ![c] = state]
  /\ Goto(c, CASE state = "closed" -> "count"
               [] state = "half"   -> "backoff"
               [] state = "open"   -> "idle")
  /\ UNCHANGED <<shared, timeout, hardware, opened>>

\* Fault for testing: the increment is compared and not stored.
FailureCount_Lost(c) ==
  /\ pc[c] = "count"
  /\ Goto(c, IF failures + 1 >= Threshold THEN "open" ELSE "idle")
  /\ UNCHANGED <<shared, seen, timeout, hardware, opened>>

FailureCount(c) ==
  /\ pc[c] = "count"
  /\ failures' = failures + 1
  /\ Goto(c, IF failures' >= Threshold THEN "open" ELSE "idle")
  /\ UNCHANGED <<state, multiplier, since, seen, timeout, hardware, opened>>

\* Fault for testing: a failed probe waits no longer than the one before.
FailureBackoff_Keeps(c) ==
  /\ pc[c] = "backoff"
  /\ Goto(c, "open")
  /\ UNCHANGED <<shared, seen, timeout, hardware, opened>>

FailureBackoff(c) ==
  /\ pc[c] = "backoff"
  /\ multiplier' = Backoff
  /\ Goto(c, "open")
  /\ UNCHANGED <<state, failures, since, seen, timeout, hardware, opened>>

FailureOpen(c) ==
  /\ pc[c] = "open"
  /\ SetState("open")
  /\ Goto(c, "stamp")
  /\ UNCHANGED <<failures, multiplier, since, seen, timeout, hardware>>

-----------------------------------------------------------------------------
(* The clock and the secure element.                                        *)

Tick ==
  /\ \/ since # None /\ since < MaxTimeout
     \/ opened < MaxTimeout
  /\ since'  = IF since = None THEN None ELSE Least(since + 1, MaxTimeout)
  /\ opened' = Least(opened + 1, MaxTimeout)
  /\ UNCHANGED <<state, failures, multiplier, pc, seen, timeout, hardware>>

GoDown ==
  /\ up /\ outages < Outages
  /\ up' = FALSE /\ outages' = outages + 1
  /\ UNCHANGED <<shared, pc, seen, timeout, opened>>

ComeUp ==
  /\ ~up
  /\ up' = TRUE
  /\ UNCHANGED <<shared, pc, seen, timeout, outages, opened>>

Step(c) ==
  \/ AllowState(c)   \/ AllowTimeout(c) \/ AllowElapsed(c) \/ AllowRefuse(c)
  \/ AllowProbe(c)   \/ Stamp(c)        \/ Sign(c)
  \/ SuccessState(c) \/ SuccessReset(c) \/ SuccessForgive(c) \/ SuccessClose(c)
  \/ FailureState(c) \/ FailureCount(c) \/ FailureBackoff(c) \/ FailureOpen(c)

Next ==
  \/ \E c \in Callers : Request(c) \/ Step(c)
  \/ Tick \/ GoDown \/ ComeUp

Spec == Init /\ [][Next]_vars

\* Threads run to the end of what they started and time passes; requests keep
\* coming.  Nothing is assumed of the secure element.
FairSpec ==
  /\ Spec
  /\ WF_vars(Tick)
  /\ \A c \in Callers : WF_vars(Request(c) \/ Step(c))

-----------------------------------------------------------------------------
(* What the breaker promises to a single thread, and keeps.                 *)

\* The circuit makes no move but the four the header of circuit_breaker.rs
\* lists (lines 8-12).
DocumentedTransitions ==
  [][state' # state => <<state, state'>> \in {<<"closed", "open">>, <<"open", "half">>,
                                             <<"half", "closed">>, <<"half", "open">>}]_vars

\* The one thread there is.
Lone == CHOOSE c \in Callers : TRUE

\* A trip is on its way from the failure counted last to the state's store; what
\* a probe waited out is what the thread read before it.
Atomic == INSTANCE AtomicBreaker WITH
  run  <- IF state # "closed" THEN 0
          ELSE IF pc[Lone] = "open" THEN failures - 1 ELSE failures,
  wait <- IF state = "half" THEN timeout[Lone] ELSE RecoveryTimeout

\* To one thread the loads and stores amount to the atomic breaker of the
\* header: each outcome counts once, a trip takes Threshold failures in a row, a
\* probe waits out the timeout, and a failed one doubles it.
AtomicSpec == Atomic!Spec

\* It trips out of closed only after Threshold failures with no success
\* between them (line 9).
EarnedTrip == [][state = "closed" /\ state' = "open" => failures >= Threshold]_vars

\* Once open it refuses for a whole recovery timeout before it probes (line
\* 10).  One thread waits it out, which is part of AtomicSpec.  With two it is
\* false: a thread that reads the state between another's store of "open" and its
\* stamp pairs it with the time of the transition before.
WaitsRecovery == [][state = "open" /\ state' = "half" => opened >= RecoveryTimeout]_vars

\* Between calls a closed circuit carries nothing over from an earlier outage:
\* no backoff, and not enough failures to trip (record_success resets both).
Settled ==
  (state = "closed" /\ \A c \in Callers : pc[c] = "idle") =>
    multiplier = 1 /\ (failures = 0 \/ failures < Threshold)

(* What survives any interleaving of the threads.                           *)

\* When the secure element stays up, the circuit ends up closed for good: no
\* outcome of an older state keeps reopening it, whatever the backoff.
Recovers == <>[]up => <>[](state = "closed")

\* When it stays down, the circuit stops letting calls through unchecked: it
\* is never again closed, whatever successes are still to be recorded.
Trips == <>[]~up => <>[](state # "closed")

\* An open circuit is always probed again: no thread keeps moving the
\* timestamp out of the others' reach.
ProbesAgain == []<>(state # "open")
=============================================================================

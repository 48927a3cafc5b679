---------------------------- MODULE AtomicBreaker ----------------------------
(***************************************************************************)
(* The breaker that circuit_breaker.rs draws in its header (lines 3-12):   *)
(* each outcome of the secure element, and each probe, is one step on a    *)
(* state, a count of failures in a row and a recovery timeout.             *)
(***************************************************************************)
EXTENDS Integers

CONSTANTS Threshold,    \* failure_threshold
          Base,         \* base_recovery_timeout
          MaxTimeout    \* max_recovery_timeout

VARIABLES state,        \* closed, open or half
          run,          \* failures in a row while closed
          wait,         \* the recovery timeout
          opened        \* time since the circuit last opened

vars == <<state, run, wait, opened>>

First == IF Base < MaxTimeout THEN Base ELSE MaxTimeout

Init == state = "closed" /\ run = 0 /\ wait = First /\ opened = 0

Trip == state' = "open" /\ opened' = 0 /\ run' = 0

Failure ==
  /\ state = "closed"
  /\ IF run + 1 < Threshold THEN run' = run + 1 /\ UNCHANGED <<state, opened>> ELSE Trip
  /\ UNCHANGED wait

\* The timeout doubles, until it is within Base of the largest.
FailedProbe ==
  /\ state = "half"
  /\ Trip
  /\ wait' \in wait .. MaxTimeout
  /\ wait' = 2 * wait \/ (wait' < 2 * wait /\ wait' + Base > MaxTimeout)

Success ==
  /\ state \in {"closed", "half"}
  /\ state' = "closed" /\ run' = 0 /\ wait' = First
  /\ UNCHANGED opened

Probe ==
  /\ state = "open" /\ opened >= wait
  /\ state' = "half"
  /\ UNCHANGED <<run, wait, opened>>

Tick ==
  /\ opened < MaxTimeout
  /\ opened' = opened + 1
  /\ UNCHANGED <<state, run, wait>>

Next == Failure \/ FailedProbe \/ Success \/ Probe \/ Tick

Spec == Init /\ [][Next]_vars
=============================================================================

---------------------------- MODULE MemoryBudget ----------------------------
(***************************************************************************)
(* What MemoryBudgetManager (slm-edge-inference/src/memory.rs) promises:   *)
(* reserve, release and reset act on used_mb in one piece, each with the   *)
(* amount of the task that calls it, however those tasks interleave.       *)
(***************************************************************************)
EXTENDS Integers

CONSTANTS Tasks,
          Limit      \* limit_mb

VARIABLES used,      \* used_mb
          amount     \* per task: the megabytes it is about

Init == used = 0 /\ amount = [t \in Tasks |-> 0]

Reserve(t) == used + amount[t] <= Limit /\ used' = used + amount[t]

\* Releasing more than is tracked leaves nothing.
Release(t) == used' = IF amount[t] < used THEN used - amount[t] ELSE 0

Reset == used' = 0

\* A task acts on the budget or not, and may turn to another amount.
Turns(t) ==
  /\ amount' \in [Tasks -> Nat]
  /\ \A u \in Tasks \ {t} : amount'[u] = amount[u]

Next ==
  \E t \in Tasks :
    /\ Reserve(t) \/ Release(t) \/ Reset \/ UNCHANGED used
    /\ Turns(t)

Spec == Init /\ [][Next]_<<used, amount>>
=============================================================================

------------------------------ MODULE DomainPause ------------------------------
(***************************************************************************)
(* pause_container and resume_container of LibvirtQemuRuntime              *)
(* (cross-node-rental/src/workspace/libvirt_provider.rs) on one domain.    *)
(* They do not take the lifecycle lock, so calls interleave at every await *)
(* with each other, with children that outlived their timeout and with     *)
(* what the hypervisor does of its own accord.                             *)
(***************************************************************************)
EXTENDS Integers

CONSTANTS
  Callers,
  Consecutive,  \* equal reads in a row that confirm a state
  Budget,       \* reads that fit before the confirmation's deadline
  Faults        \* which of the members of KnownFaults may happen

KnownFaults == {"stale", "readFails", "slow", "fail", "timeout"}

ASSUME PauseAssumption ==
  /\ Consecutive \in Nat \ {0} /\ Budget \in Nat /\ Budget >= 2 * Consecutive
  /\ Faults \subseteq KnownFaults

VARIABLES
  domain,  \* what the domain is
  shown,   \* what virsh domstate may still report of it
  late,    \* commands whose caller gave up while the child still runs
  at,      \* the step each caller is about to take
  op,      \* "pause" or "resume": the call under way
  streak, left,  \* locals of confirm_domstate_debounced
  seen,    \* states the domain was in during the call
  noise,   \* bad reads in the call: none, one, or more
  excuse   \* what else befell the call, see Excuses

libvirtd == <<domain, shown, late>>
history  == <<seen, noise, excuse>>
vars == <<libvirtd, at, op, streak, left, history>>

States == {"running", "paused", "shut off"}
Ops    == {"pause", "resume"}

\* A lone stale read gave the answer; the command failed; another actor
\* changed the domain.
Excuses == {"misled", "command", "disturbed"}

Steps  == {"fast", "command", "fallback", "confirm"}

Source(o) == IF o = "pause" THEN "running" ELSE "paused"
Result(o) == IF o = "pause" THEN "paused" ELSE "running"
Target(c) == Result(op[c])

TypeOK ==
  /\ domain \in States /\ shown \in States /\ late \subseteq Ops
  /\ at \in [Callers -> Steps \cup {"idle", "ok", "err"}]
  /\ op \in [Callers -> Ops]
  /\ streak \in [Callers -> 0 .. Consecutive] /\ left \in [Callers -> 0 .. Budget]
  /\ seen \in [Callers -> SUBSET States]
  /\ noise \in [Callers -> 0 .. 2]
  /\ excuse \in [Callers -> SUBSET Excuses]

Init ==
  /\ domain \in States /\ shown = domain /\ late = {}
  /\ at = [c \in Callers |-> "idle"]
  /\ op = [c \in Callers |-> "pause"]
  /\ streak = [c \in Callers |-> 0] /\ left = [c \in Callers |-> 0]
  /\ seen = [c \in Callers |-> {}] /\ noise = [c \in Callers |-> 0]
  /\ excuse = [c \in Callers |-> {}]

Calling(c) == at[c] \in Steps

Goto(c, step) == at' = [at EXCEPT ![c] = step]

\* The domain changes under every caller but those in `by`; until domstate
\* settles it may report what was before.
Becomes(state, by) ==
  /\ domain' = state
  /\ shown' = IF "stale" \in Faults THEN shown ELSE state
  /\ seen' = [c \in Callers |-> IF Calling(c) THEN seen[c] \cup {state} ELSE seen[c]]
  /\ excuse' = [c \in Callers |-> IF Calling(c) /\ c \notin by
                                  THEN excuse[c] \cup {"disturbed"} ELSE excuse[c]]

-----------------------------------------------------------------------------
(* libvirtd and QEMU *)

Settle ==
  /\ shown # domain
  /\ shown' = domain
  /\ UNCHANGED <<domain, late, at, op, streak, left, history>>

\* KVM pauses a domain on ENOSPC or memory pressure and the operator resumes it; a
\* guest shuts itself down; stop_container destroys it and start_container boots
\* it again.
OutOfBand ==
  /\ \E state \in States \ {domain} :
       (domain = "shut off" => state = "running") /\ Becomes(state, {})
  /\ UNCHANGED <<late, at, op, streak, left, noise>>

LateCommand ==
  \E o \in late :
    /\ late' = late \ {o}
    /\ IF domain = Source(o) THEN Becomes(Result(o), {})
                             ELSE UNCHANGED <<domain, shown, seen, excuse>>
    /\ UNCHANGED <<at, op, streak, left, noise>>

-----------------------------------------------------------------------------
(* The calls *)

Begin(c, o) ==
  /\ at[c] = "idle"
  /\ Goto(c, "fast")
  /\ op' = [op EXCEPT ![c] = o]
  /\ seen' = [seen EXCEPT ![c] = {domain}]
  /\ UNCHANGED <<libvirtd, streak, left, noise, excuse>>

\* The caller has its answer.
Return(c) ==
  /\ at[c] \in {"ok", "err"}
  /\ Goto(c, "idle")
  /\ op' = [op EXCEPT ![c] = "pause"]
  /\ streak' = [streak EXCEPT ![c] = 0] /\ left' = [left EXCEPT ![c] = 0]
  /\ seen' = [seen EXCEPT ![c] = {}] /\ noise' = [noise EXCEPT ![c] = 0]
  /\ excuse' = [excuse EXCEPT ![c] = {}]
  /\ UNCHANGED libvirtd

Noisy(c, n) ==
  noise' = [noise EXCEPT ![c] = IF @ + n < 2 THEN @ + n ELSE 2]

\* read_domstate: the answer, and whether it is the domain's present state.
Read(state) == state \in {domain, shown}

\* A lone read decides: the target answers Ok, another state or a failed read
\* goes on to `next`.
LoneRead(c, step, next) ==
  /\ at[c] = step
  /\ \/ \E state \in States :
          /\ Read(state)
          /\ Goto(c, IF state = Target(c) THEN "ok" ELSE next)
          /\ IF state = domain THEN UNCHANGED noise ELSE Noisy(c, 1)
          /\ excuse' = [excuse EXCEPT ![c] = @ \cup
               (IF state = Target(c) /\ state # domain THEN {"misled"} ELSE {})]
     \/ /\ "readFails" \in Faults
        /\ Goto(c, next) /\ Noisy(c, 1) /\ UNCHANGED excuse
  /\ UNCHANGED <<libvirtd, op, streak, left, seen>>

\* Fault for testing: an error of the command is taken for `already there`.
Fallback_TakesError(c) == LoneRead(c, "fallback", "ok")

FastPath(c) == LoneRead(c, "fast", "command")
Fallback(c) == LoneRead(c, "fallback", "err")

\* virsh suspend or resume: it works, libvirt refuses it in the wrong state, it
\* fails, or it is still running when its caller gives up.
Command(c) ==
  /\ at[c] = "command"
  /\ \/ /\ domain = Source(op[c])
        /\ Becomes(Result(op[c]), {c})
        /\ Goto(c, "confirm")
        /\ streak' = [streak EXCEPT ![c] = 0] /\ left' = [left EXCEPT ![c] = Budget]
        /\ UNCHANGED late
     \/ /\ domain # Source(op[c])
        /\ Goto(c, "fallback")
        /\ UNCHANGED <<libvirtd, streak, left, seen, excuse>>
     \/ /\ "fail" \in Faults
        /\ Goto(c, "fallback")
        /\ excuse' = [excuse EXCEPT ![c] = @ \cup {"command"}]
        /\ UNCHANGED <<libvirtd, streak, left, seen>>
     \/ /\ "timeout" \in Faults
        /\ Goto(c, "err")
        /\ late' = late \cup {op[c]}
        /\ excuse' = [excuse EXCEPT ![c] = @ \cup {"command"}]
        /\ UNCHANGED <<domain, shown, streak, left, seen>>
  /\ UNCHANGED <<op, noise>>

\* Fault for testing: the loop does not look at its deadline.
Confirm_NoDeadline(c) ==
  /\ at[c] = "confirm"
  /\ \E state \in States :
       /\ Read(state)
       /\ streak' = [streak EXCEPT ![c] = IF state = Target(c) THEN @ + 1 ELSE 0]
       /\ IF state = domain THEN UNCHANGED noise ELSE Noisy(c, 1)
  /\ left' = [left EXCEPT ![c] = @ - 1]
  /\ Goto(c, IF streak'[c] = Consecutive THEN "ok" ELSE "confirm")
  /\ UNCHANGED <<libvirtd, op, seen, excuse>>

\* Fault for testing: a read of another state ends the confirmation.
Confirm_OneBadReadEnds(c) ==
  /\ at[c] = "confirm" /\ left[c] > 0
  /\ \E state \in States :
       /\ Read(state)
       /\ streak' = [streak EXCEPT ![c] = IF state = Target(c) THEN @ + 1 ELSE 0]
       /\ IF state = domain THEN UNCHANGED noise ELSE Noisy(c, 1)
  /\ left' = [left EXCEPT ![c] = @ - 1]
  /\ Goto(c, CASE streak'[c] = 0 -> "err"
               [] streak'[c] = Consecutive -> "ok"
               [] OTHER -> "confirm")
  /\ UNCHANGED <<libvirtd, op, seen, excuse>>

\* One turn of confirm_domstate_debounced; a read slower than the deadline is
\* the last one.
Confirm(c) ==
  /\ at[c] = "confirm" /\ left[c] > 0
  /\ \/ \E state \in States :
          /\ Read(state)
          /\ streak' = [streak EXCEPT ![c] = IF state = Target(c) THEN @ + 1 ELSE 0]
          /\ \/ /\ left' = [left EXCEPT ![c] = @ - 1]
                /\ IF state = domain THEN UNCHANGED noise ELSE Noisy(c, 1)
             \/ "slow" \in Faults /\ left' = [left EXCEPT ![c] = 0] /\ Noisy(c, 2)
     \/ /\ "readFails" \in Faults
        /\ streak' = [streak EXCEPT ![c] = 0]
        /\ left' = [left EXCEPT ![c] = @ - 1]
        /\ Noisy(c, 1)
  /\ Goto(c, IF streak'[c] = Consecutive THEN "ok" ELSE "confirm")
  /\ UNCHANGED <<libvirtd, op, seen, excuse>>

ConfirmTimeout(c) ==
  /\ at[c] = "confirm" /\ left[c] = 0
  /\ Goto(c, "err")
  /\ UNCHANGED <<libvirtd, op, streak, left, history>>

Step(c) == FastPath(c) \/ Command(c) \/ Fallback(c) \/ Confirm(c) \/ ConfirmTimeout(c)

Next ==
  \/ Settle \/ OutOfBand \/ LateCommand
  \/ \E c \in Callers : (\E o \in Ops : Begin(c, o)) \/ Step(c) \/ Return(c)

Spec == Init /\ [][Next]_vars

-----------------------------------------------------------------------------
\* A call that answers Ok has seen its target state during the call, whatever
\* other calls, late commands and the hypervisor did meanwhile; only the lone
\* read of the fast path or of the fallback can be fooled by a stale answer.
OkMeansReached ==
  \A c \in Callers : at[c] = "ok" => Target(c) \in seen[c] \/ "misled" \in excuse[c]

\* Idempotence and debounce: on a domain that exists and that nobody else
\* touches, one bad read anywhere in the call does not turn it into an error.
OneBadReadTolerated ==
  \A c \in Callers :
    at[c] = "err" => \/ excuse[c] \cap {"command", "disturbed"} # {}
                     \/ "shut off" \in seen[c]
                     \/ noise[c] = 2
===============================================================================

---------------------------- MODULE SlmLifecycle ----------------------------
(***************************************************************************)
(* ModelLifecycleManager (slm-edge-inference/src/lifecycle.rs) over the    *)
(* MemoryBudgetManager (memory.rs) and an Ollama server, which is external *)
(* and modelled from how lifecycle.rs and providers/ollama.rs use it.      *)
(*                                                                         *)
(* Each await of a request to Ollama, and each atomic access to used_mb, is *)
(* a step of its own.  load_model runs under load_semaphore; unload_model, *)
(* delete_model and sync_memory_state do not.                              *)
(***************************************************************************)
EXTENDS Integers, FiniteSets

CONSTANTS Tasks,        \* tasks that call the manager
          Models,       \* model names
          Mb,           \* estimated_ram_mb from /api/tags (the file's size)
          RunMb,        \* estimated_ram_mb from /api/ps (the resident size)
          Limit,        \* limit_mb
          Ops,          \* the calls the tasks make
          Faults,       \* what may go wrong
          Overlap,      \* may calls other than loads run beside other calls?
          None

ASSUME SlmAssumption ==
  /\ Mb \in [Models -> Nat] /\ RunMb \in [Models -> Nat] /\ Limit \in Nat
  /\ Ops \subseteq {"load", "unload", "swap", "delete", "sync", "pull"}
  /\ Faults \subseteq {"list", "generate", "evict", "timeout", "restart", "expire"}
  /\ Overlap \in BOOLEAN /\ None \notin Tasks /\ None \notin Models
  /\ None \notin {"load", "unload", "swap", "delete", "sync", "pull"}

VARIABLES used,     \* used_mb
          permit,   \* the task that holds load_semaphore, or None
          loaded,   \* models resident in Ollama
          late,     \* models Ollama may still load for a request given up on
          disk,     \* models downloaded
          pc, call  \* per task: next step; arguments and locals of the call

tasks == <<pc, call>>
ollama == <<loaded, late, disk>>
vars == <<used, permit, ollama, tasks>>

LoadSection == {"loadRunning", "loadModels", "reserve", "reserveCas", "generate",
                "giveBack", "giveBackCas"}
SyncSection == {"syncReset", "syncRunning", "syncReserve", "syncCas"}
UnloadSection == {"unloadRunning", "unloadModels", "evict", "release", "releaseCas"}
Steps == LoadSection \cup SyncSection \cup UnloadSection \cup {"permit", "delete", "pull"}

Call == [op : Ops \cup {None}, model : Models \cup {None}, load : Models \cup {None},
         mb : Nat, seen : Nat, todo : SUBSET Models]
NoCall == [op |-> None, model |-> None, load |-> None, mb |-> 0, seen |-> 0, todo |-> {}]

\* load_model reconciles with the same code as sync_memory_state, and holds
\* the permit over it.
Loading(t) == pc[t] \in LoadSection \/ (pc[t] \in SyncSection /\ call[t].op # "sync")

TypeOK ==
  /\ used \in Nat
  /\ permit \in Tasks \cup {None}
  /\ loaded \subseteq Models /\ late \subseteq Models /\ disk \subseteq Models
  /\ pc \in [Tasks -> Steps \cup {"idle"}]
  /\ call \in [Tasks -> Call]

Init ==
  /\ used = 0 /\ permit = None
  /\ loaded = {} /\ late = {} /\ disk \in SUBSET Models
  /\ pc = [t \in Tasks |-> "idle"]
  /\ call = [t \in Tasks |-> NoCall]

-----------------------------------------------------------------------------
Goto(t, step) == pc' = [pc EXCEPT ![t] = step]

\* The call is over; a permit it holds is dropped with it.
Return(t) ==
  /\ pc' = [pc EXCEPT ![t] = "idle"]
  /\ call' = [call EXCEPT ![t] = NoCall]
  /\ permit' = IF permit = t THEN None ELSE permit

\* The value a compare-exchange loop has read goes out of scope.
Continue(t, step) ==
  Goto(t, step) /\ call' = [call EXCEPT ![t].seen = 0] /\ UNCHANGED permit

(* Ollama's side of a request.  One that fails on the way may have taken   *)
(* effect all the same.                                                    *)

\* generate and chat load the model they name on first use.
Answered(m) ==
  m \in disk /\ loaded' = loaded \cup {m} /\ late' = late \ {m}

\* When they fail or the client's timeout ends them, Ollama may go on loading.
GivenUp(m) ==
  late' = late \cup (({m} \cap disk) \ loaded) /\ UNCHANGED loaded

\* An answer that is not a success is only logged; an eviction that takes
\* effect after it is one that Expires.
UnloadFromMemory(m) == {loaded \ {m}} \cup {x \in {loaded} : "evict" \in Faults}

DeleteModel(m) == {disk, disk \ {m}}
PullModel(m) == {disk, disk \cup {m}}

\* A request for a list is answered, or fails and ends the call with `?`.
ListFails(t) == "list" \in Faults /\ Return(t)

-----------------------------------------------------------------------------
(* Entry points.  model is the one to load, unload, delete or pull; a swap *)
(* unloads model and loads load.                                           *)

\* The callers' order: without Overlap, only loads run side by side.
MayCall(op) ==
  Overlap \/ \A d \in Tasks : pc[d] # "idle" => op = "load" /\ call[d].op = "load"

Begin(t, op, m, l) ==
  /\ pc[t] = "idle" /\ MayCall(op)
  /\ op \in {"load", "swap"} <=> l # None
  /\ op \in {"unload", "swap", "delete", "pull"} <=> m # None
  /\ call' = [call EXCEPT ![t] = [NoCall EXCEPT !.op = op, !.model = m, !.load = l]]
  /\ Goto(t, CASE op = "load" -> "permit"
               [] op \in {"unload", "swap", "delete"} -> "unloadRunning"
               [] op = "sync" -> "syncReset"
               [] op = "pull" -> "pull")
  /\ UNCHANGED <<used, permit, ollama>>

(* load_model                                                              *)

Permit(t) ==
  /\ pc[t] = "permit"
  /\ permit = None
  /\ permit' = t
  /\ Goto(t, "loadRunning")
  /\ UNCHANGED <<used, ollama, call>>

LoadRunning(t) ==
  /\ pc[t] = "loadRunning"
  /\ \/ ListFails(t)
     \/ call[t].load \in loaded /\ Return(t)
     \/ call[t].load \notin loaded /\ Continue(t, "loadModels")
  /\ UNCHANGED <<used, ollama>>

LoadModels(t) ==
  /\ pc[t] = "loadModels"
  /\ \/ ListFails(t)
     \/ call[t].load \notin disk /\ Return(t)
     \/ /\ call[t].load \in disk
        /\ call' = [call EXCEPT ![t].mb = Mb[call[t].load]]
        /\ Goto(t, "reserve")
        /\ UNCHANGED permit
  /\ UNCHANGED <<used, ollama>>

\* MemoryBudgetManager::reserve: a load and a check, then a compare-exchange
\* that starts over when used has changed.
Reserve(t) ==
  /\ pc[t] = "reserve"
  /\ \/ used + call[t].mb > Limit /\ Return(t)
     \/ /\ used + call[t].mb <= Limit
        /\ call' = [call EXCEPT ![t].seen = used]
        /\ Goto(t, "reserveCas")
        /\ UNCHANGED permit
  /\ UNCHANGED <<used, ollama>>

\* Fault for testing: the checked amount is added to whatever used is by then.
ReserveCas_Adds(t) ==
  /\ pc[t] = "reserveCas"
  /\ used' = used + call[t].mb
  /\ Continue(t, "generate")
  /\ UNCHANGED ollama

\* Fault for testing: what was checked is stored without comparing.
ReserveCas_Stores(t) ==
  /\ pc[t] = "reserveCas"
  /\ used' = call[t].seen + call[t].mb
  /\ Continue(t, "generate")
  /\ UNCHANGED ollama

ReserveCas(t) ==
  /\ pc[t] = "reserveCas"
  /\ IF used = call[t].seen
       THEN used' = call[t].seen + call[t].mb /\ Continue(t, "generate")
       ELSE UNCHANGED used /\ Continue(t, "reserve")
  /\ UNCHANGED ollama

\* What Ollama goes on loading after a failure it may finish at any later time,
\* before or after the reconciliation that follows, or never (LateLoad).
Generate(t) ==
  /\ pc[t] = "generate"
  /\ \/ Answered(call[t].load) /\ Return(t)
     \/ /\ "generate" \in Faults \/ call[t].load \notin disk
        /\ GivenUp(call[t].load)
        /\ Continue(t, "giveBack")
  /\ UNCHANGED <<used, disk>>

\* Fault for testing: release subtracts without looking.
Released_Below(seen, mb) == seen - mb

\* MemoryBudgetManager::release subtracts at most what is there.
Released(seen, mb) == IF mb < seen THEN seen - mb ELSE 0

ReadUsed(t, from, to) ==
  /\ pc[t] = from
  /\ call' = [call EXCEPT ![t].seen = used]
  /\ Goto(t, to)
  /\ UNCHANGED <<used, permit, ollama>>

GiveBack(t) == ReadUsed(t, "giveBack", "giveBackCas")

GiveBackCas(t) ==
  /\ pc[t] = "giveBackCas"
  /\ IF used = call[t].seen
       THEN used' = Released(call[t].seen, call[t].mb) /\ Continue(t, "syncReset")
       ELSE UNCHANGED used /\ Continue(t, "giveBack")
  /\ UNCHANGED ollama

(* sync_memory_state, called directly or by a load that failed             *)

SyncReset(t) ==
  /\ pc[t] = "syncReset"
  /\ used' = 0
  /\ Continue(t, "syncRunning")
  /\ UNCHANGED ollama

SyncRunning(t) ==
  /\ pc[t] = "syncRunning"
  /\ \/ ListFails(t)
     \/ /\ call' = [call EXCEPT ![t].todo = loaded]
        /\ Goto(t, "syncReserve")
        /\ UNCHANGED permit
  /\ UNCHANGED <<used, ollama>>

\* The answer of reserve is ignored: a model that does not fit is skipped.
SyncReserve(t) ==
  /\ pc[t] = "syncReserve"
  /\ \/ call[t].todo = {} /\ Return(t)
     \/ \E m \in call[t].todo :
          /\ IF used + RunMb[m] <= Limit
               THEN /\ call' = [call EXCEPT ![t].seen = used, ![t].mb = RunMb[m],
                                            ![t].todo = @ \ {m}]
                    /\ Goto(t, "syncCas")
               ELSE call' = [call EXCEPT ![t].todo = @ \ {m}] /\ UNCHANGED pc
          /\ UNCHANGED permit
  /\ UNCHANGED <<used, ollama>>

\* Starting over repeats the check of the same model.
SyncCas(t) ==
  /\ pc[t] = "syncCas"
  /\ \/ used = call[t].seen /\ used' = used + call[t].mb /\ Continue(t, "syncReserve")
     \/ /\ used # call[t].seen /\ used + call[t].mb > Limit
        /\ UNCHANGED used /\ Continue(t, "syncReserve")
     \/ /\ used # call[t].seen /\ used + call[t].mb <= Limit
        /\ call' = [call EXCEPT ![t].seen = used]
        /\ UNCHANGED <<used, pc, permit>>
  /\ UNCHANGED ollama

-----------------------------------------------------------------------------
(* unload_model, and what swap_model and delete_model do after it          *)

AfterUnload(t) ==
  CASE call[t].op = "unload" -> Return(t)
    [] call[t].op = "swap"   -> Continue(t, "permit")
    [] call[t].op = "delete" -> Continue(t, "delete")

UnloadRunning(t) ==
  /\ pc[t] = "unloadRunning"
  /\ \/ ListFails(t)
     \/ call[t].model \notin loaded /\ AfterUnload(t)
     \/ call[t].model \in loaded /\ Continue(t, "unloadModels")
  /\ UNCHANGED <<used, ollama>>

UnloadModels(t) ==
  /\ pc[t] = "unloadModels"
  /\ \/ ListFails(t)
     \/ /\ call' = [call EXCEPT ![t].mb =
                      IF call[t].model \in disk THEN Mb[call[t].model] ELSE 0]
        /\ Goto(t, "evict")
        /\ UNCHANGED permit
  /\ UNCHANGED <<used, ollama>>

\* The answer of unload_from_memory is ignored.
Evict(t) ==
  /\ pc[t] = "evict"
  /\ loaded' \in UnloadFromMemory(call[t].model)
  /\ Continue(t, "release")
  /\ UNCHANGED <<used, late, disk>>

Release(t) == ReadUsed(t, "release", "releaseCas")

ReleaseCas(t) ==
  /\ pc[t] = "releaseCas"
  /\ \/ /\ used = call[t].seen
        /\ used' = Released(call[t].seen, call[t].mb)
        /\ AfterUnload(t)
     \/ used # call[t].seen /\ UNCHANGED used /\ Continue(t, "release")
  /\ UNCHANGED ollama

Delete(t) ==
  /\ pc[t] = "delete"
  /\ disk' \in DeleteModel(call[t].model)
  /\ Return(t)
  /\ UNCHANGED <<used, loaded, late>>

Pull(t) ==
  /\ pc[t] = "pull"
  /\ disk' \in PullModel(call[t].model)
  /\ Return(t)
  /\ UNCHANGED <<used, loaded, late>>

-----------------------------------------------------------------------------
\* swap_model's timeout drops the call at the await it has reached; the request
\* already sent goes on without it.
Awaits == {"unloadRunning", "unloadModels", "evict", "permit",
           "loadRunning", "loadModels", "generate", "syncRunning"}

\* Fault for testing: the dropped call does not give the permit back.
SwapTimeout_KeepsPermit(t) ==
  /\ "timeout" \in Faults
  /\ call[t].op = "swap" /\ pc[t] \in Awaits
  /\ pc' = [pc EXCEPT ![t] = "idle"]
  /\ call' = [call EXCEPT ![t] = NoCall]
  /\ UNCHANGED <<used, permit, ollama>>

SwapTimeout(t) ==
  /\ "timeout" \in Faults
  /\ call[t].op = "swap" /\ pc[t] \in Awaits
  /\ \/ pc[t] # "generate" /\ UNCHANGED <<loaded, late>>
     \/ pc[t] = "generate" /\ GivenUp(call[t].load)
     \/ pc[t] = "evict" /\ loaded' = loaded \ {call[t].model} /\ UNCHANGED late
  /\ Return(t)
  /\ UNCHANGED <<used, disk>>

-----------------------------------------------------------------------------
(* What Ollama does without the manager.                                   *)

LateLoad(m) ==
  /\ m \in late
  /\ loaded' = loaded \cup {m} /\ late' = late \ {m}
  /\ UNCHANGED <<used, permit, disk, tasks>>

\* A model that was idle for its keep_alive, or that makes room for another.
Expires(m) ==
  /\ "expire" \in Faults
  /\ m \in loaded
  /\ loaded' = loaded \ {m}
  /\ UNCHANGED <<used, permit, late, disk, tasks>>

OllamaRestart ==
  /\ "restart" \in Faults
  /\ loaded' = {} /\ late' = {}
  /\ UNCHANGED <<used, permit, disk, tasks>>

Step(t) ==
  \/ LoadRunning(t) \/ LoadModels(t) \/ Reserve(t) \/ ReserveCas(t) \/ Generate(t)
  \/ GiveBack(t) \/ GiveBackCas(t)
  \/ SyncReset(t) \/ SyncRunning(t) \/ SyncReserve(t) \/ SyncCas(t)
  \/ UnloadRunning(t) \/ UnloadModels(t) \/ Evict(t) \/ Release(t) \/ ReleaseCas(t)
  \/ Delete(t) \/ Pull(t)

Next ==
  \/ \E t \in Tasks :
       \/ \E op \in Ops, m, l \in Models \cup {None} : Begin(t, op, m, l)
       \/ Permit(t) \/ Step(t) \/ SwapTimeout(t)
  \/ \E m \in Models : LateLoad(m) \/ Expires(m)
  \/ OllamaRestart

Spec == Init /\ [][Next]_vars

\* Requests to Ollama have a client timeout; the semaphore is first in, first out.
FairSpec == Spec /\ \A t \in Tasks : WF_vars(Step(t)) /\ SF_vars(Permit(t))

-----------------------------------------------------------------------------
\* The megabytes of a set of models, counted one by one.
MbOf(S) == Cardinality(UNION {{m} \X (1 .. RunMb[m]) : m \in S})

Resident == MbOf(loaded)

\* used_mb never passes the limit, whatever calls, resets and failures race:
\* reserve's compare-exchange only succeeds on the value it checked.
UsedWithinLimit == used <= Limit

Budget == INSTANCE MemoryBudget WITH amount <- [t \in Tasks |-> call[t].mb]

\* No update of used_mb is lost or applied to another value than the one it was
\* worked out from: under any race the compare-exchange loops of reserve and
\* release amount to single steps of MemoryBudget.
BudgetSpec == Budget!Spec

\* One load at a time reserves and waits for Ollama, and the permit is given
\* back by every exit, a dropped swap included.
LoadsSerialized == \A t \in Tasks : Loading(t) <=> permit = t

\* The models resident in Ollama never exceed the budget of the device
\* (lifecycle.rs lines 3-4).
ResidentFits == Resident <= Limit

\* Every call returns: no exit keeps the permit from the loads that wait.  It
\* asks for Overlap = FALSE: a compare-exchange loop may lose for ever otherwise.
EveryCallReturns == \A t \in Tasks : pc[t] # "idle" ~> pc[t] = "idle"
=============================================================================

------------------------- MODULE SlmLifecycleProofs -------------------------
(***************************************************************************)
(* Proofs about SlmLifecycle: for any tasks, models, sizes and limit, and  *)
(* with every fault, the budget is never passed, loads are serialized and  *)
(* no update of the budget is lost; in the callers' order no call loops.   *)
(***************************************************************************)
EXTENDS SlmLifecycle, FiniteSetTheorems, TLAPS

\* Which calls can be where.
CallShape ==
  \A t \in Tasks :
    /\ pc[t] \in UnloadSection =>
         call[t].op \in {"unload", "swap", "delete"} /\ call[t].model \in Models
    /\ pc[t] \in LoadSection \cup {"permit"} =>
         call[t].op \in {"load", "swap"} /\ call[t].load \in Models
    /\ call[t].op = "swap" => call[t].load \in Models
    /\ pc[t] \in SyncSection => call[t].op \in {"load", "swap", "sync"}
    /\ pc[t] \in {"delete", "pull"} =>
         call[t].op \in {"delete", "pull"} /\ call[t].model \in Models

\* A compare-exchange about to add has checked the sum it will store.
Checked ==
  \A t \in Tasks : pc[t] \in {"reserveCas", "syncCas"} =>
                     call[t].seen + call[t].mb <= Limit

IInv == TypeOK /\ CallShape /\ Checked /\ UsedWithinLimit /\ LoadsSerialized

\* The types of Ollama's side.
Stores == (SUBSET Models) \X (SUBSET Models) \X (SUBSET Models)

LEMMA ReleasedRange ==
  ASSUME NEW a \in Nat, NEW b \in Nat
  PROVE  Released(a, b) \in Nat /\ Released(a, b) <= a
  BY DEF Released

-----------------------------------------------------------------------------
(* A step of t leaves the other tasks alone, so it is enough to look at t.  *)

\* What IInv says of one task.
At(t) ==
  /\ pc[t] \in UnloadSection =>
       call[t].op \in {"unload", "swap", "delete"} /\ call[t].model \in Models
  /\ pc[t] \in LoadSection \cup {"permit"} =>
       call[t].op \in {"load", "swap"} /\ call[t].load \in Models
  /\ call[t].op = "swap" => call[t].load \in Models
  /\ pc[t] \in SyncSection => call[t].op \in {"load", "swap", "sync"}
  /\ pc[t] \in {"delete", "pull"} =>
       call[t].op \in {"delete", "pull"} /\ call[t].model \in Models
  /\ pc[t] \in {"reserveCas", "syncCas"} => call[t].seen + call[t].mb <= Limit
  /\ Loading(t) <=> permit = t

LEMMA ByTask ==
  TypeOK /\ used <= Limit /\ (\A t \in Tasks : At(t)) <=> IInv
  BY DEF IInv, At, CallShape, Checked, UsedWithinLimit, LoadsSerialized

\* Only t's program counter and call change, and the permit only between t
\* and nobody.
Local(t) ==
  /\ \E step \in Steps \cup {"idle"} : Goto(t, step)
  /\ \E record \in Call : call' = [call EXCEPT ![t] = record]
  /\ \/ permit' = permit
     \/ permit = t /\ permit' = None
     \/ permit = None /\ permit' = t

LEMMA LocalKeepsOthers ==
  ASSUME IInv, NEW t \in Tasks, Local(t)
  PROVE  \A u \in Tasks \ {t} : At(u)'
  <1> SUFFICES ASSUME NEW u \in Tasks, u # t PROVE At(u)'
    OBVIOUS
  <1>1. At(u)
    BY ByTask
  <1>2. pc'[u] = pc[u] /\ call'[u] = call[u]
    BY DEF Local, Goto, IInv, TypeOK
  <1>3. permit' = u <=> permit = u
    BY SlmAssumption DEF Local
  <1> QED
    BY <1>1, <1>2, <1>3 DEF At, Loading

\* The frame of every proof below: t's step is local, keeps the shared
\* variables typed and within the limit, and re-establishes At(t).
LEMMA StepFrame ==
  ASSUME IInv, NEW t \in Tasks, Local(t),
         used' \in Nat, used' <= Limit, ollama' \in Stores,
         At(t)'
  PROVE  IInv'
  <1>1. TypeOK'
    <2>1. pc' \in [Tasks -> Steps \cup {"idle"}]
      BY DEF Local, Goto, IInv, TypeOK
    <2>2. call' \in [Tasks -> Call]
      BY DEF Local, IInv, TypeOK
    <2>3. permit' \in Tasks \cup {None}
      BY DEF Local, IInv, TypeOK
    <2> QED
      BY <2>1, <2>2, <2>3 DEF TypeOK, ollama, Stores
  <1>2. \A u \in Tasks : At(u)'
    BY LocalKeepsOthers
  <1> QED
    BY <1>1, <1>2 DEF IInv, At, CallShape, Checked, UsedWithinLimit, LoadsSerialized

\* Return ends any call in a good place.
LEMMA ReturnLocal ==
  ASSUME IInv, NEW t \in Tasks, Return(t)
  PROVE  Local(t) /\ At(t)'
  <1>1. NoCall \in Call
    BY DEF NoCall, Call
  <1>2. pc'[t] = "idle" /\ call'[t] = NoCall
    BY DEF Return, IInv, TypeOK
  <1>3. permit' # t
    BY SlmAssumption DEF Return
  <1>4. Local(t)
    BY <1>1 DEF Local, Return, Goto
  <1>5. call'[t].op = None
    BY <1>2 DEF NoCall
  <1>6. call'[t].op # "swap"
    BY <1>5, SlmAssumption
  <1> QED
    BY <1>2, <1>3, <1>4, <1>6
    DEF At, Loading, LoadSection, SyncSection, UnloadSection

\* The locals of a call change one or two fields at a time.
LEMMA FieldsLocal ==
  ASSUME IInv, NEW t \in Tasks, NEW step \in Steps, Goto(t, step),
         \/ UNCHANGED call
         \/ \E i \in Nat : call' = [call EXCEPT ![t].mb = i]
         \/ \E i \in Nat : call' = [call EXCEPT ![t].seen = i]
         \/ \E d \in SUBSET Models : call' = [call EXCEPT ![t].todo = d]
         \/ \E i, j \in Nat, d \in SUBSET Models :
              call' = [call EXCEPT ![t].seen = i, ![t].mb = j, ![t].todo = d],
         \/ permit' = permit
         \/ permit = None /\ permit' = t
  PROVE  /\ Local(t)
         /\ pc'[t] = step
         /\ call'[t].op = call[t].op
         /\ call'[t].model = call[t].model /\ call'[t].load = call[t].load
  <1> DEFINE r == call[t]
  <1>1. r \in Call /\ call \in [Tasks -> Call]
    BY DEF IInv, TypeOK
  <1>2. \E record \in Call : /\ call' = [call EXCEPT ![t] = record]
                            /\ record.op = r.op /\ record.model = r.model
                            /\ record.load = r.load
    <2>1. CASE UNCHANGED call
      <3>1. call' = [call EXCEPT ![t] = r]
        BY <1>1, <2>1
      <3> QED
        BY <1>1, <3>1
    <2>2. CASE \E i \in Nat : call' = [call EXCEPT ![t].mb = i]
      <3>1. PICK i \in Nat : call' = [call EXCEPT ![t].mb = i]
        BY <2>2
      <3>2. call' = [call EXCEPT ![t] = [r EXCEPT !.mb = i]]
        BY <3>1
      <3>3. [r EXCEPT !.mb = i] \in Call
        BY <1>1 DEF Call
      <3> QED
        BY <1>1, <3>2, <3>3 DEF Call
    <2>3. CASE \E i \in Nat : call' = [call EXCEPT ![t].seen = i]
      <3>1. PICK i \in Nat : call' = [call EXCEPT ![t].seen = i]
        BY <2>3
      <3>2. call' = [call EXCEPT ![t] = [r EXCEPT !.seen = i]]
        BY <3>1
      <3>3. [r EXCEPT !.seen = i] \in Call
        BY <1>1 DEF Call
      <3> QED
        BY <1>1, <3>2, <3>3 DEF Call
    <2>4. CASE \E d \in SUBSET Models : call' = [call EXCEPT ![t].todo = d]
      <3>1. PICK d \in SUBSET Models : call' = [call EXCEPT ![t].todo = d]
        BY <2>4
      <3>2. call' = [call EXCEPT ![t] = [r EXCEPT !.todo = d]]
        BY <3>1
      <3>3. [r EXCEPT !.todo = d] \in Call
        BY <1>1 DEF Call
      <3> QED
        BY <1>1, <3>2, <3>3 DEF Call
    <2>5. CASE \E i, j \in Nat, d \in SUBSET Models :
                 call' = [call EXCEPT ![t].seen = i, ![t].mb = j, ![t].todo = d]
      <3>1. PICK i, j \in Nat, d \in SUBSET Models :
                 call' = [call EXCEPT ![t].seen = i, ![t].mb = j, ![t].todo = d]
        BY <2>5
      <3>2. call' = [call EXCEPT ![t] = [r EXCEPT !.seen = i, !.mb = j, !.todo = d]]
        BY <1>1, <3>1
      <3>3. [r EXCEPT !.seen = i, !.mb = j, !.todo = d] \in Call
        BY <1>1 DEF Call
      <3> QED
        BY <1>1, <3>2, <3>3 DEF Call
    <2> QED
      BY <2>1, <2>2, <2>3, <2>4, <2>5
  <1>3. pc'[t] = step
    BY DEF Goto, IInv, TypeOK
  <1>4. Local(t)
    BY <1>2 DEF Local
  <1> QED
    BY <1>1, <1>2, <1>3, <1>4

\* Where a continuing call goes next decides what At asks of it.
LEMMA ContinueAt ==
  ASSUME IInv, NEW t \in Tasks, NEW step \in Steps, Continue(t, step),
         \/ pc[t] \in UnloadSection /\ step \in UnloadSection
         \/ pc[t] \in UnloadSection /\ step = "permit" /\ call[t].op = "swap"
         \/ pc[t] \in UnloadSection /\ step = "delete" /\ call[t].op = "delete"
         \/ pc[t] \in LoadSection /\ step \in LoadSection \ {"reserveCas"}
         \/ pc[t] \in SyncSection /\ step \in SyncSection \ {"syncCas"}
  PROVE  Local(t) /\ At(t)'
  <1>1. At(t) /\ permit' = permit
    BY ByTask DEF Continue
  <1>2. /\ Local(t) /\ pc'[t] = step /\ call'[t].op = call[t].op
        /\ call'[t].model = call[t].model /\ call'[t].load = call[t].load
    BY FieldsLocal DEF Continue
  <1> QED
    BY <1>1, <1>2
    DEF At, Loading, LoadSection, SyncSection, UnloadSection

LEMMA AfterUnloadAt ==
  ASSUME IInv, NEW t \in Tasks, pc[t] \in UnloadSection, AfterUnload(t)
  PROVE  Local(t) /\ At(t)'
  <1>1. call[t].op \in {"unload", "swap", "delete"}
    BY DEF IInv, CallShape
  <1>2. CASE call[t].op = "unload"
    BY <1>2, ReturnLocal DEF AfterUnload
  <1>3. CASE call[t].op = "swap"
    BY <1>3, ContinueAt DEF AfterUnload, Steps
  <1>4. CASE call[t].op = "delete"
    BY <1>4, ContinueAt DEF AfterUnload, Steps
  <1> QED
    BY <1>1, <1>2, <1>3, <1>4

-----------------------------------------------------------------------------
LEMMA StepKeeps ==
  ASSUME IInv, NEW t \in Tasks, Permit(t) \/ Step(t)
  PROVE  IInv'
  <1>a. /\ At(t) /\ used \in Nat /\ used <= Limit /\ call[t] \in Call
        /\ ollama \in Stores /\ Limit \in Nat
    BY ByTask, SlmAssumption DEF IInv, TypeOK, UsedWithinLimit, ollama, Stores
  <1>b. call[t].mb \in Nat /\ call[t].seen \in Nat /\ call[t].todo \subseteq Models
    BY <1>a DEF Call
  <1> USE DEF Steps
  <1>1. CASE Permit(t)
    <2>1. Local(t) /\ At(t)'
      <3>1. /\ Local(t) /\ pc'[t] = "loadRunning" /\ permit' = t
            /\ call'[t].op = call[t].op /\ call'[t].load = call[t].load
        BY <1>1, FieldsLocal DEF Permit, LoadSection
      <3> QED
        BY <1>a, <1>1, <3>1 DEF Permit, At, Loading, LoadSection, SyncSection, UnloadSection
    <2>2. used' \in Nat /\ used' <= Limit /\ ollama' \in Stores
      BY <1>a, <1>1 DEF Permit
    <2> QED
      BY <1>a, <1>1, <2>1, <2>2, StepFrame
  <1>2. CASE LoadRunning(t)
    <2>1. Local(t) /\ At(t)'
      <3>1. CASE Return(t)
        BY <3>1, ReturnLocal
      <3>2. CASE Continue(t, "loadModels")
        BY <1>2, <3>2, ContinueAt DEF LoadRunning, LoadSection
      <3> QED
        BY <1>2, <3>1, <3>2 DEF LoadRunning, ListFails
    <2>2. used' \in Nat /\ used' <= Limit /\ ollama' \in Stores
      BY <1>a, <1>2 DEF LoadRunning
    <2> QED
      BY <1>a, <1>2, <2>1, <2>2, StepFrame
  <1>3. CASE LoadModels(t)
    <2>1. Local(t) /\ At(t)'
      <3>1. CASE Return(t)
        BY <3>1, ReturnLocal
      <3>2. CASE /\ call' = [call EXCEPT ![t].mb = Mb[call[t].load]]
                  /\ Goto(t, "reserve") /\ UNCHANGED permit
        <4>1. Mb[call[t].load] \in Nat
          BY <1>a, <1>b, <1>3, <3>2, SlmAssumption DEF LoadModels, At, LoadSection
        <4>2. /\ Local(t) /\ pc'[t] = "reserve" /\ permit' = permit
              /\ call'[t].op = call[t].op /\ call'[t].load = call[t].load
              /\ call'[t].model = call[t].model
          BY <1>3, <3>2, <4>1, FieldsLocal DEF LoadModels, LoadSection, SyncSection, UnloadSection
        <4> QED
          BY <1>a, <1>3, <4>2 DEF LoadModels, At, Loading, LoadSection, SyncSection, UnloadSection
      <3> QED
        BY <1>3, <3>1, <3>2 DEF LoadModels, ListFails
    <2>2. used' \in Nat /\ used' <= Limit /\ ollama' \in Stores
      BY <1>a, <1>3 DEF LoadModels
    <2> QED
      BY <1>a, <1>3, <2>1, <2>2, StepFrame
  <1>4. CASE Reserve(t)
    <2>1. Local(t) /\ At(t)'
      <3>1. CASE Return(t)
        BY <3>1, ReturnLocal
      <3>2. CASE /\ used + call[t].mb <= Limit
                  /\ call' = [call EXCEPT ![t].seen = used]
                  /\ Goto(t, "reserveCas") /\ UNCHANGED permit
        <4>1. /\ Local(t) /\ pc'[t] = "reserveCas"
              /\ call'[t].op = call[t].op /\ call'[t].load = call[t].load
          BY <1>a, <1>4, <3>2, FieldsLocal DEF LoadSection
        <4>2. call'[t].seen + call'[t].mb <= Limit
          BY <1>a, <3>2 DEF IInv, TypeOK
        <4> QED
          BY <1>a, <1>4, <3>2, <4>1, <4>2 DEF Reserve, At, Loading, LoadSection, SyncSection, UnloadSection
      <3> QED
        BY <1>4, <3>1, <3>2 DEF Reserve, ListFails
    <2>2. used' \in Nat /\ used' <= Limit /\ ollama' \in Stores
      BY <1>a, <1>4 DEF Reserve
    <2> QED
      BY <1>a, <1>4, <2>1, <2>2, StepFrame
  <1>5. CASE ReserveCas(t)
    <2>1. Local(t) /\ At(t)'
      <3>1. CASE Continue(t, "generate") \/ Continue(t, "reserve")
        BY <1>5, <3>1, ContinueAt DEF ReserveCas, LoadSection
      <3> QED
        BY <1>5, <3>1 DEF ReserveCas
    <2>2. used' \in Nat /\ used' <= Limit /\ ollama' \in Stores
      BY <1>a, <1>b, <1>5 DEF ReserveCas, At
    <2> QED
      BY <1>a, <1>5, <2>1, <2>2, StepFrame
  <1>6. CASE Generate(t)
    <2>1. Local(t) /\ At(t)'
      <3>1. CASE Return(t)
        BY <3>1, ReturnLocal
      <3>2. CASE Continue(t, "giveBack")
        BY <1>6, <3>2, ContinueAt DEF Generate, LoadSection
      <3> QED
        BY <1>6, <3>1, <3>2 DEF Generate
    <2>2. used' \in Nat /\ used' <= Limit /\ ollama' \in Stores
      BY <1>a, <1>6 DEF Generate, Answered, GivenUp, At, LoadSection, ollama, Stores
    <2> QED
      BY <1>a, <1>6, <2>1, <2>2, StepFrame
  <1>7. CASE GiveBack(t)
    <2>1. Local(t) /\ At(t)'
      <3>1. /\ Local(t) /\ pc'[t] = "giveBackCas" /\ permit' = permit
            /\ call'[t].op = call[t].op /\ call'[t].load = call[t].load
            /\ call'[t].model = call[t].model
        BY <1>a, <1>7, FieldsLocal DEF GiveBack, ReadUsed, LoadSection, UnloadSection
      <3> QED
        BY <1>a, <1>7, <3>1 DEF GiveBack, ReadUsed, At, Loading, LoadSection, SyncSection, UnloadSection
    <2>2. used' \in Nat /\ used' <= Limit /\ ollama' \in Stores
      BY <1>a, <1>7 DEF GiveBack, ReadUsed
    <2> QED
      BY <1>a, <1>7, <2>1, <2>2, StepFrame
  <1>8. CASE GiveBackCas(t)
    <2>1. Local(t) /\ At(t)'
      <3>1. CASE Continue(t, "giveBack")
        BY <1>8, <3>1, ContinueAt DEF GiveBackCas, LoadSection
      <3>2. CASE Continue(t, "syncReset")
        <4>1. /\ Local(t) /\ pc'[t] = "syncReset" /\ permit' = permit
              /\ call'[t].op = call[t].op /\ call'[t].load = call[t].load
          BY <3>2, FieldsLocal DEF Continue, SyncSection
        <4> QED
          BY <1>a, <1>8, <4>1 DEF GiveBackCas, At, Loading, LoadSection, SyncSection, UnloadSection
      <3> QED
        BY <1>8, <3>1, <3>2 DEF GiveBackCas
    <2>2. used' \in Nat /\ used' <= Limit /\ ollama' \in Stores
      <3>1. /\ Released(call[t].seen, call[t].mb) \in Nat
            /\ Released(call[t].seen, call[t].mb) <= call[t].seen
        BY <1>b, ReleasedRange
      <3>2. \/ used' = used
            \/ used = call[t].seen /\ used' = Released(call[t].seen, call[t].mb)
        BY <1>8 DEF GiveBackCas
      <3>3. used' \in Nat /\ used' <= Limit
        BY <1>a, <1>b, <3>1, <3>2
      <3> QED
        BY <1>a, <1>8, <3>3 DEF GiveBackCas
    <2> QED
      BY <1>a, <1>8, <2>1, <2>2, StepFrame
  <1>9. CASE SyncReset(t)
    <2>1. Local(t) /\ At(t)'
      BY <1>9, ContinueAt DEF SyncReset, SyncSection
    <2>2. used' \in Nat /\ used' <= Limit /\ ollama' \in Stores
      BY <1>a, <1>9 DEF SyncReset
    <2> QED
      BY <1>a, <1>9, <2>1, <2>2, StepFrame
  <1>10. CASE SyncRunning(t)
    <2>1. Local(t) /\ At(t)'
      <3>1. CASE Return(t)
        BY <3>1, ReturnLocal
      <3>2. CASE /\ call' = [call EXCEPT ![t].todo = loaded]
                  /\ Goto(t, "syncReserve") /\ UNCHANGED permit
        <4>1. loaded \in SUBSET Models
          BY <1>a DEF ollama, Stores
        <4>2. /\ Local(t) /\ pc'[t] = "syncReserve" /\ permit' = permit
              /\ call'[t].op = call[t].op /\ call'[t].load = call[t].load
              /\ call'[t].model = call[t].model
          BY <1>10, <3>2, <4>1, FieldsLocal DEF SyncRunning, LoadSection, SyncSection, UnloadSection
        <4> QED
          BY <1>a, <1>10, <4>2 DEF SyncRunning, At, Loading, LoadSection, SyncSection, UnloadSection
      <3> QED
        BY <1>10, <3>1, <3>2 DEF SyncRunning, ListFails
    <2>2. used' \in Nat /\ used' <= Limit /\ ollama' \in Stores
      BY <1>a, <1>10 DEF SyncRunning
    <2> QED
      BY <1>a, <1>10, <2>1, <2>2, StepFrame
  <1>11. CASE SyncReserve(t)
    <2>1. Local(t) /\ At(t)'
      <3>1. CASE Return(t)
        BY <3>1, ReturnLocal
      <3>2. CASE \E m \in call[t].todo :
                   /\ used + RunMb[m] <= Limit
                   /\ call' = [call EXCEPT ![t].seen = used, ![t].mb = RunMb[m],
                                           ![t].todo = @ \ {m}]
                   /\ Goto(t, "syncCas") /\ UNCHANGED permit
        <4>1. PICK m \in call[t].todo :
                /\ used + RunMb[m] <= Limit
                /\ call' = [call EXCEPT ![t].seen = used, ![t].mb = RunMb[m],
                                        ![t].todo = call[t].todo \ {m}]
                /\ Goto(t, "syncCas") /\ UNCHANGED permit
          BY <3>2
        <4>2. RunMb[m] \in Nat /\ call[t].todo \ {m} \in SUBSET Models
          BY <1>b, <4>1, SlmAssumption
        <4>3. /\ Local(t) /\ pc'[t] = "syncCas"
              /\ call'[t].op = call[t].op /\ call'[t].load = call[t].load
          BY <1>a, <4>1, <4>2, FieldsLocal DEF SyncSection
        <4>4. call'[t].seen + call'[t].mb <= Limit
          BY <1>a, <4>1 DEF IInv, TypeOK
        <4> QED
          BY <1>a, <1>11, <4>1, <4>3, <4>4 DEF SyncReserve, At, Loading, LoadSection, SyncSection, UnloadSection
      <3>3. CASE \E m \in call[t].todo :
                   /\ call' = [call EXCEPT ![t].todo = @ \ {m}]
                   /\ UNCHANGED pc /\ UNCHANGED permit
        <4>1. PICK m \in call[t].todo :
                /\ call' = [call EXCEPT ![t].todo = call[t].todo \ {m}]
                /\ UNCHANGED pc /\ UNCHANGED permit
          BY <3>3
        <4>2. call[t].todo \ {m} \in SUBSET Models
          BY <1>b
        <4>3. Goto(t, "syncReserve")
          BY <1>11, <4>1 DEF SyncReserve, Goto, IInv, TypeOK
        <4>4. /\ Local(t) /\ pc'[t] = "syncReserve"
              /\ call'[t].op = call[t].op /\ call'[t].load = call[t].load
          BY <1>a, <4>1, <4>2, <4>3, FieldsLocal DEF SyncSection
        <4> QED
          BY <1>a, <1>11, <4>1, <4>4 DEF SyncReserve, At, Loading, LoadSection, SyncSection, UnloadSection
      <3> QED
        BY <1>11, <3>1, <3>2, <3>3 DEF SyncReserve
    <2>2. used' \in Nat /\ used' <= Limit /\ ollama' \in Stores
      BY <1>a, <1>11 DEF SyncReserve
    <2> QED
      BY <1>a, <1>11, <2>1, <2>2, StepFrame
  <1>12. CASE SyncCas(t)
    <2>1. Local(t) /\ At(t)'
      <3>1. CASE Continue(t, "syncReserve")
        BY <1>12, <3>1, ContinueAt DEF SyncCas, SyncSection
      <3>2. CASE /\ used + call[t].mb <= Limit
                  /\ call' = [call EXCEPT ![t].seen = used] /\ UNCHANGED <<pc, permit>>
        <4>1. Goto(t, "syncCas")
          BY <1>12, <3>2 DEF SyncCas, Goto, IInv, TypeOK
        <4>2. /\ Local(t) /\ pc'[t] = "syncCas" /\ permit' = permit
              /\ call'[t].op = call[t].op /\ call'[t].load = call[t].load
          BY <1>a, <1>12, <3>2, <4>1, FieldsLocal DEF SyncCas, SyncSection
        <4>3. call'[t].seen + call'[t].mb <= Limit
          BY <1>a, <3>2 DEF IInv, TypeOK
        <4> QED
          BY <1>a, <1>12, <4>2, <4>3 DEF SyncCas, At, Loading, LoadSection, SyncSection, UnloadSection
      <3> QED
        BY <1>12, <3>1, <3>2 DEF SyncCas
    <2>2. used' \in Nat /\ used' <= Limit /\ ollama' \in Stores
      BY <1>a, <1>b, <1>12 DEF SyncCas, At
    <2> QED
      BY <1>a, <1>12, <2>1, <2>2, StepFrame
  <1>13. CASE UnloadRunning(t)
    <2>1. Local(t) /\ At(t)'
      <3>1. CASE Return(t)
        BY <3>1, ReturnLocal
      <3>2. CASE AfterUnload(t)
        BY <1>13, <3>2, AfterUnloadAt DEF UnloadRunning, UnloadSection
      <3>3. CASE Continue(t, "unloadModels")
        BY <1>13, <3>3, ContinueAt DEF UnloadRunning, UnloadSection
      <3> QED
        BY <1>13, <3>1, <3>2, <3>3 DEF UnloadRunning, ListFails
    <2>2. used' \in Nat /\ used' <= Limit /\ ollama' \in Stores
      BY <1>a, <1>13 DEF UnloadRunning
    <2> QED
      BY <1>a, <1>13, <2>1, <2>2, StepFrame
  <1>14. CASE UnloadModels(t)
    <2>1. Local(t) /\ At(t)'
      <3>1. CASE Return(t)
        BY <3>1, ReturnLocal
      <3>2. CASE /\ call' = [call EXCEPT ![t].mb =
                                   IF call[t].model \in disk THEN Mb[call[t].model] ELSE 0]
                  /\ Goto(t, "evict") /\ UNCHANGED permit
        <4>1. (IF call[t].model \in disk THEN Mb[call[t].model] ELSE 0) \in Nat
          BY <1>a, <1>b, <1>14, <3>2, SlmAssumption DEF UnloadModels, At, UnloadSection
        <4>2. /\ Local(t) /\ pc'[t] = "evict" /\ permit' = permit
              /\ call'[t].op = call[t].op /\ call'[t].load = call[t].load
              /\ call'[t].model = call[t].model
          BY <1>14, <3>2, <4>1, FieldsLocal DEF UnloadModels, LoadSection, SyncSection, UnloadSection
        <4> QED
          BY <1>a, <1>14, <4>2 DEF UnloadModels, At, Loading, LoadSection, SyncSection, UnloadSection
      <3> QED
        BY <1>14, <3>1, <3>2 DEF UnloadModels, ListFails
    <2>2. used' \in Nat /\ used' <= Limit /\ ollama' \in Stores
      BY <1>a, <1>14 DEF UnloadModels
    <2> QED
      BY <1>a, <1>14, <2>1, <2>2, StepFrame
  <1>15. CASE Evict(t)
    <2>1. Local(t) /\ At(t)'
      BY <1>15, ContinueAt DEF Evict, UnloadSection
    <2>2. used' \in Nat /\ used' <= Limit /\ ollama' \in Stores
      BY <1>a, <1>15 DEF Evict, UnloadFromMemory, ollama, Stores
    <2> QED
      BY <1>a, <1>15, <2>1, <2>2, StepFrame
  <1>16. CASE Release(t)
    <2>1. Local(t) /\ At(t)'
      <3>1. /\ Local(t) /\ pc'[t] = "releaseCas" /\ permit' = permit
            /\ call'[t].op = call[t].op /\ call'[t].load = call[t].load
            /\ call'[t].model = call[t].model
        BY <1>a, <1>16, FieldsLocal DEF Release, ReadUsed, LoadSection, UnloadSection
      <3> QED
        BY <1>a, <1>16, <3>1 DEF Release, ReadUsed, At, Loading, LoadSection, SyncSection, UnloadSection
    <2>2. used' \in Nat /\ used' <= Limit /\ ollama' \in Stores
      BY <1>a, <1>16 DEF Release, ReadUsed
    <2> QED
      BY <1>a, <1>16, <2>1, <2>2, StepFrame
  <1>17. CASE ReleaseCas(t)
    <2>1. Local(t) /\ At(t)'
      <3>1. CASE AfterUnload(t)
        BY <1>17, <3>1, AfterUnloadAt DEF ReleaseCas, UnloadSection
      <3>2. CASE Continue(t, "release")
        BY <1>17, <3>2, ContinueAt DEF ReleaseCas, UnloadSection
      <3> QED
        BY <1>17, <3>1, <3>2 DEF ReleaseCas
    <2>2. used' \in Nat /\ used' <= Limit /\ ollama' \in Stores
      <3>1. \/ used' = used
            \/ used = call[t].seen /\ used' = Released(call[t].seen, call[t].mb)
        BY <1>17 DEF ReleaseCas
      <3>2. /\ Released(call[t].seen, call[t].mb) \in Nat
            /\ Released(call[t].seen, call[t].mb) <= call[t].seen
        BY <1>b, ReleasedRange
      <3>3. used' \in Nat /\ used' <= Limit
        BY <1>a, <1>b, <3>1, <3>2
      <3> QED
        BY <1>a, <1>17, <3>3 DEF ReleaseCas
    <2> QED
      BY <1>a, <1>17, <2>1, <2>2, StepFrame
  <1>18. CASE Delete(t)
    <2>1. Local(t) /\ At(t)'
      BY <1>18, ReturnLocal DEF Delete
    <2>2. used' \in Nat /\ used' <= Limit /\ ollama' \in Stores
      BY <1>a, <1>18 DEF Delete, DeleteModel, At, ollama, Stores
    <2> QED
      BY <1>a, <1>18, <2>1, <2>2, StepFrame
  <1>19. CASE Pull(t)
    <2>1. Local(t) /\ At(t)'
      BY <1>19, ReturnLocal DEF Pull
    <2>2. used' \in Nat /\ used' <= Limit /\ ollama' \in Stores
      BY <1>a, <1>19 DEF Pull, PullModel, At, ollama, Stores
    <2> QED
      BY <1>a, <1>19, <2>1, <2>2, StepFrame
  <1> QED
    BY <1>1, <1>2, <1>3, <1>4, <1>5, <1>6, <1>7, <1>8, <1>9, <1>10, <1>11, <1>12, <1>13, <1>14, <1>15, <1>16, <1>17, <1>18, <1>19
    DEF Step

LEMMA BeginKeeps ==
  ASSUME IInv, NEW t \in Tasks, NEW op \in Ops,
         NEW m \in Models \cup {None}, NEW l \in Models \cup {None}, Begin(t, op, m, l)
  PROVE  IInv'
  <1> DEFINE r == [NoCall EXCEPT !.op = op, !.model = m, !.load = l]
  <1>1. op \in {"load", "unload", "swap", "delete", "sync", "pull"}
    BY SlmAssumption
  <1>2. r \in Call /\ r.op = op /\ r.model = m /\ r.load = l
    BY DEF NoCall, Call
  <1>3. /\ op \in {"load", "swap"} => l \in Models
        /\ op \in {"unload", "swap", "delete", "pull"} => m \in Models
    BY DEF Begin
  <1>4. \E step \in Steps :
          /\ Goto(t, step)
          /\ op = "load" => step = "permit"
          /\ op \in {"unload", "swap", "delete"} => step = "unloadRunning"
          /\ op = "sync" => step = "syncReset"
          /\ op = "pull" => step = "pull"
    BY <1>1 DEF Begin, Steps, UnloadSection, SyncSection
  <1>5. PICK step \in Steps :
          /\ Goto(t, step)
          /\ op = "load" => step = "permit"
          /\ op \in {"unload", "swap", "delete"} => step = "unloadRunning"
          /\ op = "sync" => step = "syncReset"
          /\ op = "pull" => step = "pull"
    BY <1>4
  <1>6. call'[t] = r /\ pc'[t] = step
    BY <1>5 DEF Begin, Goto, IInv, TypeOK
  <1>7. Local(t)
    BY <1>2, <1>5 DEF Local, Begin
  <1>8. At(t) /\ permit' = permit /\ pc[t] = "idle"
    BY ByTask DEF Begin
  <1>9. At(t)'
    BY <1>1, <1>2, <1>3, <1>5, <1>6, <1>8
    DEF At, Loading, LoadSection, SyncSection, UnloadSection
  <1> QED
    BY <1>7, <1>9, StepFrame DEF Begin, ollama, Stores, IInv, TypeOK, UsedWithinLimit

LEMMA SwapTimeoutKeeps ==
  ASSUME IInv, NEW t \in Tasks, SwapTimeout(t)
  PROVE  IInv'
  <1>1. Local(t) /\ At(t)'
    BY ReturnLocal DEF SwapTimeout
  <1>2. ollama' \in Stores /\ used' = used
    <2>1. pc[t] = "generate" => call[t].load \in Models
      BY DEF IInv, CallShape, LoadSection
    <2> QED
      BY <2>1 DEF SwapTimeout, GivenUp, IInv, TypeOK, ollama, Stores
  <1> QED
    BY <1>1, <1>2, StepFrame DEF IInv, TypeOK, UsedWithinLimit

LEMMA Inductive == IInv /\ [Next]_vars => IInv'
  <1> SUFFICES ASSUME IInv, [Next]_vars PROVE IInv'
    OBVIOUS
  <1>1. CASE \E t \in Tasks, op \in Ops, m, l \in Models \cup {None} : Begin(t, op, m, l)
    BY <1>1, BeginKeeps
  <1>2. CASE \E t \in Tasks : Permit(t) \/ Step(t)
    BY <1>2, StepKeeps
  <1>3. CASE \E t \in Tasks : SwapTimeout(t)
    BY <1>3, SwapTimeoutKeeps
  <1>4. CASE OllamaRestart \/ \E m \in Models : LateLoad(m) \/ Expires(m)
    BY <1>4 DEF OllamaRestart, LateLoad, Expires, tasks, IInv, TypeOK, CallShape, Checked,
                UsedWithinLimit, LoadsSerialized, Loading
  <1>5. CASE UNCHANGED vars
    BY <1>5 DEF vars, tasks, ollama, IInv, TypeOK, CallShape, Checked,
                UsedWithinLimit, LoadsSerialized, Loading
  <1> QED
    BY <1>1, <1>2, <1>3, <1>4, <1>5 DEF Next

LEMMA Initially == Init => IInv
  <1> SUFFICES ASSUME Init PROVE IInv
    OBVIOUS
  <1>1. NoCall \in Call /\ NoCall.op = None
    BY DEF NoCall, Call
  <1>2. \A t \in Tasks : pc[t] = "idle" /\ call[t].op # "swap" /\ permit # t
    BY <1>1, SlmAssumption DEF Init
  <1>3. TypeOK
    BY <1>1, SlmAssumption DEF Init, TypeOK
  <1> QED
    BY <1>2, <1>3, SlmAssumption
    DEF Init, IInv, CallShape, Checked, UsedWithinLimit, LoadsSerialized, Loading,
        LoadSection, SyncSection, UnloadSection

LEMMA Invariance == Spec => []IInv
  BY Initially, Inductive, PTL DEF Spec

\* Types, for every task, model and fault.
THEOREM TypeCorrect == Spec => []TypeOK
  <1>1. IInv => TypeOK
    BY DEF IInv
  <1> QED
    BY <1>1, Invariance, PTL

\* used_mb never passes the limit, whatever resets, reconciliations, loads,
\* releases and dropped swaps interleave.
THEOREM BudgetHolds == Spec => []UsedWithinLimit
  <1>1. IInv => UsedWithinLimit
    BY DEF IInv
  <1> QED
    BY <1>1, Invariance, PTL

\* The semaphore's permit is with the one task that is loading, and free when
\* there is none, after every exit including a dropped swap.
THEOREM LoadsOneAtATime == Spec => []LoadsSerialized
  <1>1. IInv => LoadsSerialized
    BY DEF IInv
  <1> QED
    BY <1>1, Invariance, PTL

-----------------------------------------------------------------------------
(* The manager implements the budget, with every fault and any overlap      *)

\* A step of t changes no other task's call.
LEMMA StepsOwnCall ==
  ASSUME IInv, NEW t \in Tasks,
         \/ Permit(t) \/ Step(t) \/ SwapTimeout(t)
         \/ \E op \in Ops, m, l \in Models \cup {None} : Begin(t, op, m, l)
  PROVE  \A u \in Tasks \ {t} : call'[u] = call[u]
  <1> USE DEF Return, Continue, IInv, TypeOK
  <1>1. CASE \E op \in Ops, m, l \in Models \cup {None} : Begin(t, op, m, l)
    BY <1>1 DEF Begin
  <1>2. CASE Permit(t) \/ SwapTimeout(t)
    BY <1>2 DEF Permit, SwapTimeout
  <1>3. CASE LoadRunning(t) \/ LoadModels(t) \/ Reserve(t) \/ ReserveCas(t)
    BY <1>3 DEF LoadRunning, LoadModels, Reserve, ReserveCas, ListFails
  <1>4. CASE Generate(t) \/ GiveBack(t) \/ GiveBackCas(t)
    BY <1>4 DEF Generate, GiveBack, GiveBackCas, ReadUsed
  <1>5. CASE SyncReset(t) \/ SyncRunning(t) \/ SyncCas(t)
    BY <1>5 DEF SyncReset, SyncRunning, SyncCas, ListFails
  <1>6. CASE SyncReserve(t)
    BY <1>6 DEF SyncReserve
  <1>7. CASE UnloadRunning(t) \/ ReleaseCas(t)
    <2>1. AfterUnload(t) => \A u \in Tasks \ {t} : call'[u] = call[u]
      <3>1. ASSUME AfterUnload(t)
            PROVE  Return(t) \/ call' = [call EXCEPT ![t].seen = 0]
        BY <1>7, <3>1 DEF AfterUnload, CallShape, UnloadSection, UnloadRunning, ReleaseCas
      <3> QED
        BY <3>1
    <2> QED
      BY <1>7, <2>1 DEF UnloadRunning, ReleaseCas, ListFails
  <1>8. CASE UnloadModels(t) \/ Evict(t) \/ Release(t)
    BY <1>8 DEF UnloadModels, Evict, Release, ReadUsed, ListFails
  <1>9. CASE Delete(t) \/ Pull(t)
    BY <1>9 DEF Delete, Pull
  <1> QED
    BY <1>1, <1>2, <1>3, <1>4, <1>5, <1>6, <1>7, <1>8, <1>9 DEF Step

\* The only writes of used_mb: two successful compare-exchanges that add, two
\* that subtract, and the reset.
LEMMA StepsOnBudget ==
  ASSUME IInv, NEW t \in Tasks, Permit(t) \/ Step(t) \/ SwapTimeout(t)
  PROVE  \/ UNCHANGED used
         \/ used' = used + call[t].mb /\ used + call[t].mb <= Limit
         \/ used' = Released(used, call[t].mb)
         \/ used' = 0
  <1>1. CASE ReserveCas(t)
    BY <1>1 DEF ReserveCas, IInv, Checked
  <1>2. CASE SyncCas(t)
    BY <1>2 DEF SyncCas, IInv, Checked
  <1>3. CASE GiveBackCas(t) \/ ReleaseCas(t)
    BY <1>3 DEF GiveBackCas, ReleaseCas
  <1>4. CASE SyncReset(t)
    BY <1>4 DEF SyncReset
  <1>5. CASE ~(ReserveCas(t) \/ SyncCas(t) \/ GiveBackCas(t) \/ ReleaseCas(t) \/ SyncReset(t))
    BY <1>5 DEF Step, Permit, SwapTimeout, LoadRunning, LoadModels, Reserve, Generate,
       GiveBack, SyncRunning, SyncReserve, UnloadRunning, UnloadModels, Evict, Release,
       ReadUsed, Delete, Pull
  <1> QED
    BY <1>1, <1>2, <1>3, <1>4, <1>5

LEMMA BudgetStep ==
  ASSUME IInv, [Next]_vars
  PROVE  [Budget!Next]_<<used, [t \in Tasks |-> call[t].mb]>>
  <1>1. IInv'
    BY Inductive
  <1>2. \A t \in Tasks : call[t].mb \in Nat /\ call'[t].mb \in Nat
    BY <1>1 DEF IInv, TypeOK, Call
  <1>3. ASSUME NEW t \in Tasks, \A u \in Tasks \ {t} : call'[u] = call[u]
        PROVE  Budget!Turns(t)
    BY <1>2, <1>3 DEF Budget!Turns
  <1>4. CASE \E t \in Tasks : Permit(t) \/ Step(t) \/ SwapTimeout(t)
    <2>1. PICK t \in Tasks : Permit(t) \/ Step(t) \/ SwapTimeout(t)
      BY <1>4
    <2>2. Budget!Turns(t)
      BY <1>3, <2>1, StepsOwnCall
    <2>3. Budget!Reserve(t) \/ Budget!Release(t) \/ Budget!Reset \/ UNCHANGED used
      BY <2>1, StepsOnBudget DEF Budget!Reserve, Budget!Release, Budget!Reset, Released
    <2> QED
      BY <2>2, <2>3 DEF Budget!Next
  <1>5. CASE \E t \in Tasks, op \in Ops, m, l \in Models \cup {None} : Begin(t, op, m, l)
    <2>1. PICK t \in Tasks, op \in Ops, m \in Models \cup {None}, l \in Models \cup {None} :
            Begin(t, op, m, l)
      BY <1>5
    <2>2. Budget!Turns(t) /\ UNCHANGED used
      BY <1>3, <2>1, StepsOwnCall DEF Begin
    <2> QED
      BY <2>2 DEF Budget!Next
  <1>6. CASE \/ OllamaRestart \/ UNCHANGED vars
             \/ \E m \in Models : LateLoad(m) \/ Expires(m)
    BY <1>6 DEF OllamaRestart, LateLoad, Expires, vars, tasks
  <1> QED
    BY <1>4, <1>5, <1>6 DEF Next

\* Whatever overlaps and whatever fails, used_mb changes as if reserve, release
\* and reset were single steps (BudgetSpec): no update is lost.
THEOREM ManagerImplementsBudget == Spec => BudgetSpec
  <1>1. Init => Budget!Init
    BY DEF Init, Budget!Init, NoCall
  <1>2. IInv /\ [Next]_vars => [Budget!Next]_<<used, [t \in Tasks |-> call[t].mb]>>
    BY BudgetStep
  <1> QED
    BY <1>1, <1>2, Invariance, PTL DEF Spec, BudgetSpec, Budget!Spec

-----------------------------------------------------------------------------
(* Calls come to an end                                                     *)

\* t is past the semaphore, or in a call that does not take it.
Working(t) == pc[t] \notin {"idle", "permit"}

\* Calls under way together are loads.
Alone ==
  \A t, u \in Tasks : t # u /\ pc[t] # "idle" /\ pc[u] # "idle" => call[t].op = "load"

\* The semaphore leaves one load past it, and every other call is alone.
LEMMA OneWorks ==
  ASSUME IInv, Alone, NEW t \in Tasks, Working(t) \/ Permit(t)
  PROVE  \A u \in Tasks \ {t} : ~Working(u)
  <1> SUFFICES ASSUME NEW u \in Tasks, u # t, Working(u) PROVE FALSE
    OBVIOUS
  <1>1. pc[t] # "idle" /\ pc[u] # "idle"
    BY DEF Working, Permit
  <1>2. call[t].op = "load" /\ call[u].op = "load"
    BY <1>1 DEF Alone
  <1>3. \A w \in Tasks : call[w].op = "load" /\ Working(w) => Loading(w)
    BY DEF Working, Loading, IInv, TypeOK, CallShape, Steps
  <1>4. permit = u
    BY <1>2, <1>3 DEF IInv, LoadsSerialized
  <1>5. CASE Working(t)
    BY <1>2, <1>3, <1>4, <1>5 DEF IInv, LoadsSerialized
  <1>6. CASE Permit(t)
    BY <1>4, <1>6, SlmAssumption DEF Permit
  <1> QED
    BY <1>5, <1>6

Exchanges == {"reserveCas", "giveBackCas", "syncCas", "releaseCas"}

\* How far a call has come.
Stage(step) ==
  CASE step = "unloadRunning" -> 16
    [] step = "unloadModels"  -> 15
    [] step = "evict"         -> 14
    [] step = "release"       -> 13
    [] step = "releaseCas"    -> 12
    [] step = "permit"        -> 11
    [] step = "loadRunning"   -> 10
    [] step = "loadModels"    -> 9
    [] step = "reserve"       -> 8
    [] step = "reserveCas"    -> 7
    [] step = "generate"      -> 6
    [] step = "giveBack"      -> 5
    [] step = "giveBackCas"   -> 4
    [] step = "syncReset"     -> 3
    [] step = "syncRunning"   -> 2
    [] step \in {"syncReserve", "syncCas", "delete", "pull"} -> 1
    [] step = "idle"          -> 0

\* Steps a reconciliation may still take over the running models.
ToReserve(t) == 2 * Cardinality(call[t].todo) + IF pc[t] = "syncCas" THEN 1 ELSE 0

Lower(t) ==
  \/ Stage(pc'[t]) < Stage(pc[t])
  \/ Stage(pc'[t]) = Stage(pc[t]) /\ ToReserve(t)' < ToReserve(t)

OwnStep(t) == Permit(t) \/ Step(t) \/ SwapTimeout(t)

\* A call under way comes closer to its end with each step of its own, and no
\* other task moves it.
WindsDown ==
  \A t \in Tasks : pc[t] # "idle" =>
    IF OwnStep(t) THEN Lower(t) ELSE pc'[t] = pc[t] /\ call'[t] = call[t]

\* No compare-exchange is about to fail, and reconciliations are finite.
Steady ==
  /\ Alone
  /\ IsFiniteSet(loaded)
  /\ \A t \in Tasks :
       /\ IsFiniteSet(call[t].todo)
       /\ pc[t] \in Exchanges => call[t].seen = used

\* What a step of t leaves behind.
Leaves(t) ==
  /\ \A u \in Tasks \ {t} : pc'[u] = pc[u] /\ call'[u] = call[u]
  /\ pc'[t] = "idle" \/ call'[t].op = call[t].op
  /\ call'[t].todo \subseteq call[t].todo \cup loaded
  /\ IsFiniteSet(loaded) => IsFiniteSet(loaded')
  /\ pc'[t] \in Exchanges => call'[t].seen = used'
  /\ used' # used => Working(t)

LEMMA ReturnLeaves ==
  ASSUME IInv, NEW t \in Tasks, Return(t), UNCHANGED used,
         IsFiniteSet(loaded) => IsFiniteSet(loaded')
  PROVE  Leaves(t)
  BY DEF Return, Leaves, Exchanges, NoCall, IInv, TypeOK

LEMMA ContinueLeaves ==
  ASSUME IInv, NEW t \in Tasks, NEW step, Continue(t, step), step \notin Exchanges,
         used' # used => Working(t), IsFiniteSet(loaded) => IsFiniteSet(loaded')
  PROVE  Leaves(t)
  BY DEF Continue, Goto, Leaves, IInv, TypeOK

LEMMA AfterUnloadIs ==
  ASSUME IInv, NEW t \in Tasks, pc[t] \in UnloadSection, AfterUnload(t)
  PROVE  Return(t) \/ Continue(t, "permit") \/ Continue(t, "delete")
  BY DEF AfterUnload, IInv, CallShape

LEMMA StepLeaves ==
  ASSUME IInv, NEW t \in Tasks, OwnStep(t)
  PROVE  Leaves(t)
  <1>0. /\ used \in Nat /\ call[t] \in Call
        /\ UNCHANGED loaded => (IsFiniteSet(loaded) => IsFiniteSet(loaded'))
    BY DEF IInv, TypeOK
  <1>1. ASSUME NEW m, loaded' \subseteq loaded \cup {m}
        PROVE  IsFiniteSet(loaded) => IsFiniteSet(loaded')
    BY <1>1, FS_AddElement, FS_Subset
  <1>2. ASSUME ListFails(t), UNCHANGED <<used, ollama>>
        PROVE  Leaves(t)
    BY <1>2, ReturnLeaves DEF ListFails, ollama
  <1>3. CASE Permit(t)
    BY <1>3 DEF Permit, Goto, Leaves, Exchanges, ollama, IInv, TypeOK
  <1>4. CASE LoadRunning(t)
    BY <1>2, <1>4, ReturnLeaves, ContinueLeaves DEF LoadRunning, ollama, Exchanges
  <1>5. CASE LoadModels(t)
    <2>1. CASE /\ call' = [call EXCEPT ![t].mb = Mb[call[t].load]]
               /\ Goto(t, "reserve")
      BY <1>0, <1>5, <2>1 DEF LoadModels, Goto, Leaves, Exchanges, ollama, Call, IInv, TypeOK
    <2> QED
      BY <1>2, <1>5, <2>1, ReturnLeaves DEF LoadModels, ollama
  <1>6. CASE Reserve(t)
    <2>1. CASE call' = [call EXCEPT ![t].seen = used] /\ Goto(t, "reserveCas")
      BY <1>0, <1>6, <2>1 DEF Reserve, Goto, Leaves, Exchanges, ollama, Call, IInv, TypeOK
    <2> QED
      BY <1>6, <2>1, ReturnLeaves DEF Reserve, ollama
  <1>7. CASE ReserveCas(t)
    <2>1. used' # used => Working(t)
      BY <1>7 DEF ReserveCas, Working
    <2> QED
      BY <1>0, <1>7, <2>1, ContinueLeaves DEF ReserveCas, Exchanges, ollama
  <1>8. CASE Generate(t)
    <2>1. loaded' \subseteq loaded \cup {call[t].load}
      BY <1>8 DEF Generate, Answered, GivenUp
    <2>2. IsFiniteSet(loaded) => IsFiniteSet(loaded')
      BY <1>1, <2>1
    <2> QED
      BY <1>8, <2>2, ReturnLeaves, ContinueLeaves DEF Generate, Exchanges
  <1>9. CASE GiveBack(t) \/ Release(t)
    BY <1>0, <1>9 DEF GiveBack, Release, ReadUsed, Goto, Leaves, Exchanges, ollama, Call, IInv, TypeOK
  <1>10. CASE GiveBackCas(t)
    <2>1. used' # used => Working(t)
      BY <1>10 DEF GiveBackCas, Working
    <2> QED
      BY <1>0, <1>10, <2>1, ContinueLeaves DEF GiveBackCas, Exchanges, ollama
  <1>11. CASE SyncReset(t)
    BY <1>0, <1>11, ContinueLeaves DEF SyncReset, ollama, Exchanges, Working
  <1>12. CASE SyncRunning(t)
    <2>1. CASE call' = [call EXCEPT ![t].todo = loaded] /\ Goto(t, "syncReserve")
      BY <1>0, <1>12, <2>1 DEF SyncRunning, Goto, Leaves, Exchanges, ollama, Call, IInv, TypeOK
    <2> QED
      BY <1>2, <1>12, <2>1 DEF SyncRunning
  <1>13. CASE SyncReserve(t)
    <2>1. ASSUME NEW m,
                 call' = [call EXCEPT ![t].seen = used, ![t].mb = RunMb[m], ![t].todo = @ \ {m}],
                 Goto(t, "syncCas")
          PROVE  Leaves(t)
      BY <1>0, <1>13, <2>1 DEF SyncReserve, Goto, Leaves, Exchanges, ollama, Call, IInv, TypeOK
    <2>2. ASSUME NEW m, call' = [call EXCEPT ![t].todo = @ \ {m}], UNCHANGED pc
          PROVE  Leaves(t)
      BY <1>0, <1>13, <2>2 DEF SyncReserve, Leaves, Exchanges, ollama, Call, IInv, TypeOK
    <2> QED
      BY <1>0, <1>13, <2>1, <2>2, ReturnLeaves DEF SyncReserve, ollama
  <1>14. CASE SyncCas(t)
    <2>1. CASE call' = [call EXCEPT ![t].seen = used] /\ UNCHANGED <<used, pc, permit>>
      BY <1>0, <1>14, <2>1 DEF SyncCas, Leaves, ollama, Call, IInv, TypeOK
    <2>2. CASE Continue(t, "syncReserve")
      <3>1. used' # used => Working(t)
        BY <1>14 DEF SyncCas, Working
      <3> QED
        BY <1>0, <1>14, <2>2, <3>1, ContinueLeaves DEF SyncCas, Exchanges, ollama
    <2> QED
      BY <1>14, <2>1, <2>2 DEF SyncCas
  <1>15. CASE UnloadRunning(t)
    <2>1. CASE AfterUnload(t)
      BY <1>0, <1>15, <2>1, AfterUnloadIs, ReturnLeaves, ContinueLeaves
      DEF UnloadRunning, UnloadSection, ollama, Exchanges
    <2> QED
      BY <1>2, <1>15, <2>1, ContinueLeaves DEF UnloadRunning, ollama, Exchanges
  <1>16. CASE UnloadModels(t)
    <2>1. CASE /\ call' = [call EXCEPT ![t].mb = IF call[t].model \in disk THEN Mb[call[t].model] ELSE 0]
               /\ Goto(t, "evict")
      BY <1>0, <1>16, <2>1 DEF UnloadModels, Goto, Leaves, Exchanges, ollama, Call, IInv, TypeOK
    <2> QED
      BY <1>2, <1>16, <2>1 DEF UnloadModels
  <1>17. CASE Evict(t)
    <2>1. loaded' \subseteq loaded \cup {call[t].model}
      BY <1>17 DEF Evict, UnloadFromMemory
    <2>2. IsFiniteSet(loaded) => IsFiniteSet(loaded')
      BY <1>1, <2>1
    <2> QED
      BY <1>17, <2>2, ContinueLeaves DEF Evict, Exchanges
  <1>18. CASE ReleaseCas(t)
    <2>1. CASE AfterUnload(t)
      <3>1. Return(t) \/ Continue(t, "permit") \/ Continue(t, "delete")
        BY <1>18, <2>1, AfterUnloadIs DEF ReleaseCas, UnloadSection
      <3>2. CASE Return(t)
        BY <1>0, <1>18, <3>2
        DEF ReleaseCas, Return, Leaves, Exchanges, NoCall, Working, ollama, IInv, TypeOK
      <3> QED
        BY <1>0, <1>18, <3>1, <3>2, ContinueLeaves DEF ReleaseCas, ollama, Exchanges, Working
    <2> QED
      BY <1>18, <2>1, ContinueLeaves DEF ReleaseCas, ollama, Exchanges
  <1>19. CASE Delete(t) \/ Pull(t)
    BY <1>0, <1>19, ReturnLeaves DEF Delete, Pull
  <1>20. CASE SwapTimeout(t)
    <2>1. loaded' \subseteq loaded \cup {call[t].load}
      BY <1>20 DEF SwapTimeout, GivenUp
    <2>2. IsFiniteSet(loaded) => IsFiniteSet(loaded')
      BY <1>1, <2>1
    <2> QED
      BY <1>20, <2>2, ReturnLeaves DEF SwapTimeout
  <1> QED
    BY <1>3, <1>4, <1>5, <1>6, <1>7, <1>8, <1>9, <1>10, <1>11, <1>12, <1>13, <1>14,
       <1>15, <1>16, <1>17, <1>18, <1>19, <1>20 DEF OwnStep, Step

LEMMA SteadyStep ==
  ASSUME IInv, Steady, NEW t \in Tasks, OwnStep(t)
  PROVE  Steady'
  <1>1. Leaves(t)
    BY StepLeaves
  <1>2. pc[t] # "idle"
    BY DEF OwnStep, Permit, SwapTimeout, Awaits, Step, LoadRunning, LoadModels, Reserve,
       ReserveCas, Generate, GiveBack, GiveBackCas, SyncReset, SyncRunning, SyncReserve,
       SyncCas, UnloadRunning, UnloadModels, Evict, Release, ReleaseCas, ReadUsed,
       Delete, Pull
  <1>3. Alone'
    BY <1>1, <1>2 DEF Leaves, Steady, Alone
  <1>4. IsFiniteSet(loaded')
    BY <1>1 DEF Leaves, Steady
  <1>5. IsFiniteSet(call'[t].todo)
    <2>1. IsFiniteSet(call[t].todo \cup loaded)
      BY FS_Union DEF Steady
    <2> QED
      BY <1>1, <2>1, FS_Subset DEF Leaves
  <1>6. ASSUME NEW u \in Tasks, u # t, pc'[u] \in Exchanges
        PROVE  call'[u].seen = used'
    <2>1. Working(u) /\ call'[u].seen = used
      BY <1>1, <1>6 DEF Leaves, Steady, Working, Exchanges
    <2>2. ~Working(t)
      BY <1>6, <2>1, OneWorks DEF Steady
    <2> QED
      BY <1>1, <2>1, <2>2 DEF Leaves
  <1> QED
    BY <1>1, <1>3, <1>4, <1>5, <1>6 DEF Leaves, Steady

LEMMA SteadyBegin ==
  ASSUME ~Overlap, IInv, Steady, NEW t \in Tasks, NEW op \in Ops,
         NEW m \in Models \cup {None}, NEW l \in Models \cup {None}, Begin(t, op, m, l)
  PROVE  Steady'
  <1>1. /\ UNCHANGED <<used, loaded>>
        /\ \A d \in Tasks : pc[d] # "idle" => op = "load" /\ call[d].op = "load"
        /\ \A u \in Tasks \ {t} : pc'[u] = pc[u] /\ call'[u] = call[u]
    BY DEF Begin, MayCall, Goto, ollama, IInv, TypeOK
  <1>2. call'[t].op = op /\ call'[t].todo = {}
    BY DEF Begin, NoCall, IInv, TypeOK
  <1>3. op \in {"load", "unload", "swap", "delete", "sync", "pull"}
    BY SlmAssumption
  <1>4. pc'[t] \in {"permit", "unloadRunning", "syncReset", "pull"}
    BY <1>3 DEF Begin, Goto, IInv, TypeOK
  <1>5. Alone'
    BY <1>1, <1>2, <1>4 DEF Steady, Alone
  <1> QED
    BY <1>1, <1>2, <1>4, <1>5, FS_EmptySet DEF Steady, Exchanges

LEMMA SteadyNext ==
  ASSUME ~Overlap
  PROVE  IInv /\ Steady /\ [Next]_vars => Steady'
  <1> SUFFICES ASSUME IInv, Steady, [Next]_vars PROVE Steady'
    OBVIOUS
  <1>1. CASE OllamaRestart
    BY <1>1, FS_EmptySet DEF OllamaRestart, tasks, Steady, Alone
  <1>2. CASE UNCHANGED vars
    BY <1>2 DEF vars, ollama, tasks, Steady, Alone
  <1>3. CASE \E m \in Models : LateLoad(m) \/ Expires(m)
    <2>1. IsFiniteSet(loaded')
      BY <1>3, FS_AddElement, FS_Subset DEF LateLoad, Expires, Steady
    <2> QED
      BY <1>3, <2>1 DEF LateLoad, Expires, tasks, Steady, Alone
  <1> QED
    BY <1>1, <1>2, <1>3, SteadyStep, SteadyBegin DEF Next, OwnStep

LEMMA Stages ==
  /\ Stage("unloadRunning") = 16 /\ Stage("unloadModels") = 15 /\ Stage("evict") = 14
  /\ Stage("release") = 13 /\ Stage("releaseCas") = 12 /\ Stage("permit") = 11
  /\ Stage("loadRunning") = 10 /\ Stage("loadModels") = 9 /\ Stage("reserve") = 8
  /\ Stage("reserveCas") = 7 /\ Stage("generate") = 6 /\ Stage("giveBack") = 5
  /\ Stage("giveBackCas") = 4 /\ Stage("syncReset") = 3 /\ Stage("syncRunning") = 2
  /\ Stage("syncReserve") = 1 /\ Stage("syncCas") = 1 /\ Stage("delete") = 1
  /\ Stage("pull") = 1 /\ Stage("idle") = 0
  BY DEF Stage

\* A step of the call that begins nothing over.
LEMMA StepLowers ==
  ASSUME IInv, Steady, NEW t \in Tasks, OwnStep(t)
  PROVE  Lower(t)
  <1>0. /\ pc[t] \in Steps \cup {"idle"} /\ pc \in [Tasks -> Steps \cup {"idle"}]
        /\ call \in [Tasks -> Call] /\ call[t] \in Call
        /\ pc[t] \in Exchanges => call[t].seen = used
    BY DEF IInv, TypeOK, Steady
  <1>1. ASSUME Return(t), pc[t] # "idle"
        PROVE  Lower(t)
    BY <1>0, <1>1 DEF Return, Lower, Stage, Steps, LoadSection, SyncSection, UnloadSection
  <1>2. ASSUME NEW step, Goto(t, step)
        PROVE  pc'[t] = step
    BY <1>0, <1>2 DEF Goto
  <1>3. ASSUME NEW step, Continue(t, step)
        PROVE  pc'[t] = step
    BY <1>2, <1>3 DEF Continue
  <1>4. CASE SyncReserve(t)
    <2>1. CASE call[t].todo = {} /\ Return(t)
      BY <1>1, <1>4, <2>1 DEF SyncReserve
    <2>2. ASSUME NEW m \in call[t].todo, call'[t].todo = call[t].todo \ {m},
                 pc'[t] \in {"syncReserve", "syncCas"}
          PROVE  Lower(t)
      <3>1. /\ IsFiniteSet(call[t].todo) /\ Cardinality(call[t].todo) \in Nat
            /\ Cardinality(call'[t].todo) = Cardinality(call[t].todo) - 1
        BY <2>2, FS_RemoveElement, FS_CardinalityType DEF Steady
      <3>2. pc[t] = "syncReserve" /\ Stage(pc'[t]) = Stage(pc[t])
        BY <1>4, <2>2 DEF SyncReserve, Stage
      <3>3. ToReserve(t)' < ToReserve(t)
        BY <2>2, <3>1, <3>2 DEF ToReserve
      <3> QED
        BY <3>2, <3>3 DEF Lower
    <2>3. ASSUME NEW m \in call[t].todo,
                 call' = [call EXCEPT ![t].seen = used, ![t].mb = RunMb[m], ![t].todo = @ \ {m}],
                 Goto(t, "syncCas")
          PROVE  Lower(t)
      <3>1. call'[t].todo = call[t].todo \ {m}
        BY <1>0, <2>3 DEF Call
      <3> QED
        BY <1>2, <2>2, <2>3, <3>1
    <2>4. ASSUME NEW m \in call[t].todo, call' = [call EXCEPT ![t].todo = @ \ {m}], UNCHANGED pc
          PROVE  Lower(t)
      <3>1. call'[t].todo = call[t].todo \ {m} /\ pc'[t] = "syncReserve"
        BY <1>0, <1>4, <2>4 DEF SyncReserve, Call
      <3> QED
        BY <2>2, <3>1
    <2> QED
      BY <1>4, <2>1, <2>3, <2>4 DEF SyncReserve
  <1>5. CASE SyncCas(t)
    <2>1. /\ pc[t] = "syncCas" /\ pc'[t] = "syncReserve"
          /\ call'[t].todo = call[t].todo
      BY <1>0, <1>3, <1>5 DEF SyncCas, Continue, Exchanges, Call
    <2>2. Cardinality(call[t].todo) \in Nat
      BY FS_CardinalityType DEF Steady
    <2> QED
      BY <2>1, <2>2 DEF Lower, Stage, ToReserve
  <1>6. CASE UnloadRunning(t) \/ ReleaseCas(t)
    <2>1. pc[t] \in {"unloadRunning", "releaseCas"}
      BY <1>6 DEF UnloadRunning, ReleaseCas
    <2>2. ASSUME AfterUnload(t) PROVE Lower(t)
      <3>1. Return(t) \/ Continue(t, "permit") \/ Continue(t, "delete")
        BY <2>1, <2>2, AfterUnloadIs DEF UnloadSection
      <3> QED
        BY <1>1, <1>3, <2>1, <3>1, Stages DEF Lower
    <2>3. ReleaseCas(t) => AfterUnload(t)
      BY <1>0 DEF ReleaseCas, Exchanges
    <2> QED
      BY <1>1, <1>3, <1>6, <2>1, <2>2, <2>3, Stages DEF UnloadRunning, ListFails, Lower
  <1>7. CASE ReserveCas(t) \/ GiveBackCas(t)
    BY <1>0, <1>3, <1>7, Stages DEF ReserveCas, GiveBackCas, Exchanges, Lower
  <1>8. CASE Permit(t) \/ LoadRunning(t) \/ LoadModels(t) \/ Reserve(t)
    BY <1>1, <1>2, <1>3, <1>8, Stages
    DEF Permit, LoadRunning, LoadModels, Reserve, ListFails, Lower
  <1>9. CASE Generate(t) \/ GiveBack(t) \/ SyncReset(t) \/ SyncRunning(t)
    BY <1>1, <1>2, <1>3, <1>9, Stages
    DEF Generate, GiveBack, SyncReset, SyncRunning, ReadUsed, ListFails, Lower
  <1>10. CASE UnloadModels(t) \/ Evict(t) \/ Release(t)
    BY <1>1, <1>2, <1>3, <1>10, Stages
    DEF UnloadModels, Evict, Release, ReadUsed, ListFails, Lower
  <1>11. CASE Delete(t) \/ Pull(t) \/ SwapTimeout(t)
    BY <1>1, <1>11 DEF Delete, Pull, SwapTimeout, Awaits
  <1> QED
    BY <1>4, <1>5, <1>6, <1>7, <1>8, <1>9, <1>10, <1>11 DEF OwnStep, Step

LEMMA NotMoved ==
  ASSUME IInv, [Next]_vars, NEW t \in Tasks, pc[t] # "idle", ~OwnStep(t)
  PROVE  pc'[t] = pc[t] /\ call'[t] = call[t]
  <1>1. CASE \/ OllamaRestart \/ UNCHANGED vars
             \/ \E m \in Models : LateLoad(m) \/ Expires(m)
    BY <1>1 DEF OllamaRestart, LateLoad, Expires, vars, tasks
  <1>2. ASSUME NEW u \in Tasks, OwnStep(u)
        PROVE  pc'[t] = pc[t] /\ call'[t] = call[t]
    BY <1>2, StepLeaves DEF Leaves
  <1>3. ASSUME NEW u \in Tasks, NEW op, NEW m, NEW l, Begin(u, op, m, l)
        PROVE  pc'[t] = pc[t] /\ call'[t] = call[t]
    BY <1>3 DEF Begin, Goto, IInv, TypeOK
  <1> QED
    BY <1>1, <1>2, <1>3 DEF Next, OwnStep

\* In the callers' order, and with every fault, no compare-exchange of the budget
\* is ever tried again and every step brings its call closer to the end.
THEOREM CallsComeToAnEnd ==
  ASSUME ~Overlap
  PROVE  Spec => [](\A t \in Tasks : pc[t] \in Exchanges => call[t].seen = used)
                 /\ [][WindsDown]_vars
  <1>1. Init => Steady
    <2> SUFFICES ASSUME Init PROVE Steady
      OBVIOUS
    <2>1. loaded = {} /\ \A t \in Tasks : pc[t] = "idle" /\ call[t].todo = {}
      BY DEF Init, NoCall
    <2>2. "idle" \notin Exchanges
      BY DEF Exchanges
    <2>3. IsFiniteSet({})
      BY FS_EmptySet
    <2>4. Alone
      BY <2>1 DEF Alone
    <2> QED
      BY <2>1, <2>2, <2>3, <2>4 DEF Steady
  <1>2. IInv /\ Steady /\ [Next]_vars => Steady'
    BY SteadyNext
  <1>3. IInv /\ Steady /\ [Next]_vars => [WindsDown]_vars
    BY StepLowers, NotMoved DEF WindsDown
  <1>4. Steady => \A t \in Tasks : pc[t] \in Exchanges => call[t].seen = used
    BY DEF Steady
  <1> QED
    BY <1>1, <1>2, <1>3, <1>4, Invariance, PTL DEF Spec
=============================================================================

--------------------------- MODULE DomainPauseProofs ---------------------------
(***************************************************************************)
(* Proofs about DomainPause, for any number of callers, any faults and any *)
(* debounce whose deadline leaves room for twice the reads it needs.       *)
(*                                                                         *)
(* The inductive invariant says of each caller what it knows at its step.  *)
(* Its core is Debounce: on a domain that nobody else touches, the reads   *)
(* left and the streak together still suffice, also after one bad read.    *)
(***************************************************************************)
EXTENDS DomainPause, TLAPS

Excused(c) == excuse[c] \cap {"command", "disturbed"} # {} \/ "shut off" \in seen[c]

Debounce(c) ==
  /\ domain = Target(c)
  /\ noise[c] = 0 => streak[c] + left[c] = Budget
  /\ streak[c] + left[c] >= Consecutive

Knows(c) ==
  /\ at[c] = "idle" => noise[c] = 0 /\ excuse[c] = {}
  /\ Calling(c) => domain \in seen[c]
  /\ at[c] = "confirm" => Target(c) \in seen[c] /\ streak[c] < Consecutive
  /\ at[c] = "ok" => Target(c) \in seen[c] \/ "misled" \in excuse[c]
  /\ Excused(c) \/ noise[c] = 2
       \/ /\ at[c] = "fast" => noise[c] = 0
          /\ at[c] = "command" => (domain = Target(c) => noise[c] = 1)
          /\ at[c] = "fallback" => domain = Target(c) /\ noise[c] = 1
          /\ at[c] = "confirm" => Debounce(c)
          /\ at[c] # "err"

IInv == TypeOK /\ \A c \in Callers : Knows(c)

USE DEF States, Ops, Steps, Excuses

LEMMA Sizes == /\ Consecutive \in Nat /\ 0 < Consecutive /\ Budget \in Nat
               /\ Budget >= Consecutive + Consecutive
  BY PauseAssumption

LEMMA InitHolds == Init => IInv
  <1> SUFFICES ASSUME Init PROVE IInv
    OBVIOUS
  <1>1. TypeOK
    <2>1. 0 \in 0 .. Consecutive /\ 0 \in 0 .. Budget /\ 0 \in 0 .. 2
      BY Sizes
    <2> QED BY <2>1 DEF Init, TypeOK
  <1>2. ASSUME NEW c \in Callers PROVE Knows(c)
    BY DEF Init, Knows, Calling, Excused
  <1> QED BY <1>1, <1>2 DEF IInv

\* Types of one caller's variables.
LEMMA CallerTypes ==
  ASSUME TypeOK, NEW c \in Callers
  PROVE  /\ at[c] \in {"idle", "ok", "err", "fast", "command", "fallback", "confirm"}
         /\ op[c] \in {"pause", "resume"}
         /\ streak[c] \in 0 .. Consecutive /\ left[c] \in 0 .. Budget
         /\ noise[c] \in 0 .. 2 /\ seen[c] \subseteq States /\ excuse[c] \subseteq Excuses
         /\ Target(c) \in {"running", "paused"} /\ Source(op[c]) \in {"running", "paused"}
         /\ Target(c) # Source(op[c])
         /\ domain \in {Target(c), Source(op[c]), "shut off"}
  BY DEF TypeOK, Target, Source, Result

\* A caller whose own variables and domain stay as they are knows as much.
LEMMA Frame ==
  ASSUME NEW c \in Callers, Knows(c),
         at'[c] = at[c], op'[c] = op[c], streak'[c] = streak[c], left'[c] = left[c],
         seen'[c] = seen[c], noise'[c] = noise[c], excuse'[c] = excuse[c],
         domain' = domain
  PROVE  Knows(c)'
  BY DEF Knows, Excused, Debounce, Calling, Target, Result

\* When the domain changes, the others learn of the new state and are excused.
LEMMA OthersExcused ==
  ASSUME TypeOK, NEW c \in Callers, Knows(c), NEW state \in States, NEW by, c \notin by,
         Becomes(state, by),
         at'[c] = at[c], op'[c] = op[c], streak'[c] = streak[c], left'[c] = left[c],
         noise'[c] = noise[c]
  PROVE  Knows(c)'
  <1>1. seen'[c] = IF Calling(c) THEN seen[c] \cup {state} ELSE seen[c]
    BY DEF Becomes
  <1>2. excuse'[c] = IF Calling(c) THEN excuse[c] \cup {"disturbed"} ELSE excuse[c]
    BY DEF Becomes
  <1>3. domain' = state /\ Target(c)' = Target(c) /\ Calling(c)' = Calling(c)
    BY DEF Becomes, Target, Result, Calling
  <1>4. CASE Calling(c)
    BY <1>1, <1>2, <1>3, <1>4 DEF Knows, Excused, Calling
  <1>5. CASE ~Calling(c)
    BY <1>1, <1>2, <1>3, <1>5, CallerTypes DEF Knows, Excused, Calling
  <1> QED BY <1>4, <1>5

LEMMA BecomesTypes ==
  ASSUME TypeOK, NEW state \in States, NEW by, Becomes(state, by)
  PROVE  /\ domain' \in States /\ shown' \in States
         /\ seen' \in [Callers -> SUBSET States]
         /\ excuse' \in [Callers -> SUBSET Excuses]
  BY DEF TypeOK, Becomes

-----------------------------------------------------------------------------
LEMMA EnvironmentKeeps ==
  ASSUME IInv, Settle \/ OutOfBand \/ LateCommand
  PROVE  IInv'
  <1> USE DEF IInv
  <1>1. CASE Settle
    <2>1. TypeOK'
      BY <1>1 DEF Settle, TypeOK, history
    <2>2. ASSUME NEW c \in Callers PROVE Knows(c)'
      BY <1>1, <2>2, Frame DEF Settle, history
    <2> QED BY <2>1, <2>2
  <1>2. CASE OutOfBand \/ (LateCommand /\ domain' # domain)
    <2>1. PICK state \in States : Becomes(state, {})
      BY <1>2 DEF OutOfBand, LateCommand, Result
    <2>2. UNCHANGED <<at, op, streak, left, noise>> /\ late' \subseteq Ops
      BY <1>2 DEF OutOfBand, LateCommand, TypeOK
    <2>3. TypeOK'
      BY <2>1, <2>2, BecomesTypes DEF TypeOK
    <2>4. ASSUME NEW c \in Callers PROVE Knows(c)'
      BY <2>1, <2>2, <2>4, OthersExcused
    <2> QED BY <2>3, <2>4
  <1>3. CASE LateCommand /\ domain' = domain
    <2>1. /\ UNCHANGED <<domain, shown, seen, excuse, at, op, streak, left, noise>>
          /\ late' \subseteq Ops
      BY <1>3 DEF LateCommand, Becomes, Source, Result, TypeOK
    <2>2. TypeOK'
      BY <2>1 DEF TypeOK
    <2>3. ASSUME NEW c \in Callers PROVE Knows(c)'
      BY <2>1, <2>3, Frame
    <2> QED BY <2>2, <2>3
  <1> QED BY <1>1, <1>2, <1>3

\* A step of caller c that leaves the domain alone and the others' variables.
LEMMA ByCaller ==
  ASSUME IInv, NEW c \in Callers, TypeOK', Knows(c)', domain' = domain,
         \A d \in Callers \ {c} :
           /\ at'[d] = at[d] /\ op'[d] = op[d]
           /\ streak'[d] = streak[d] /\ left'[d] = left[d]
           /\ seen'[d] = seen[d] /\ noise'[d] = noise[d] /\ excuse'[d] = excuse[d]
  PROVE  IInv'
  <1>1. ASSUME NEW d \in Callers, d # c PROVE Knows(d)'
    BY <1>1, Frame DEF IInv
  <1> QED BY <1>1 DEF IInv

LEMMA BeginKeeps ==
  ASSUME IInv, NEW c \in Callers, NEW o \in Ops, Begin(c, o)
  PROVE  IInv'
  <1> USE DEF IInv
  <1>1. TypeOK'
    BY DEF Begin, Goto, TypeOK, libvirtd
  <1>2. /\ at'[c] = "fast" /\ seen'[c] = {domain} /\ domain' = domain
        /\ noise'[c] = 0
    BY DEF Begin, Goto, TypeOK, libvirtd, Knows
  <1>3. Knows(c)'
    BY <1>2 DEF Knows, Calling
  <1> QED BY <1>1, <1>3, ByCaller DEF Begin, Goto, libvirtd, TypeOK

LEMMA ReturnKeeps ==
  ASSUME IInv, NEW c \in Callers, Return(c)
  PROVE  IInv'
  <1> USE DEF IInv
  <1>1. TypeOK'
    <2>1. 0 \in 0 .. Consecutive /\ 0 \in 0 .. Budget /\ 0 \in 0 .. 2
      BY Sizes
    <2> QED BY <2>1 DEF Return, Goto, TypeOK, libvirtd
  <1>2. at'[c] = "idle" /\ noise'[c] = 0 /\ excuse'[c] = {}
    BY DEF Return, Goto, TypeOK
  <1>3. Knows(c)'
    BY <1>2 DEF Knows, Calling
  <1> QED BY <1>1, <1>3, ByCaller DEF Return, Goto, libvirtd, TypeOK

LEMMA NoisyIs ==
  ASSUME TypeOK, NEW c \in Callers, NEW n \in {1, 2}, Noisy(c, n)
  PROVE  /\ noise' \in [Callers -> 0 .. 2]
         /\ noise'[c] = IF noise[c] = 0 THEN n ELSE 2
         /\ noise[c] = 2 => noise'[c] = 2
         /\ \A d \in Callers \ {c} : noise'[d] = noise[d]
  <1>1. noise[c] \in {0, 1, 2}
    <2>1. noise[c] \in 0 .. 2
      BY DEF TypeOK
    <2> QED BY <2>1
  <1>2. noise' = [noise EXCEPT ![c] = IF noise[c] + n < 2 THEN noise[c] + n ELSE 2]
    BY DEF Noisy
  <1>3. (IF noise[c] + n < 2 THEN noise[c] + n ELSE 2) = IF noise[c] = 0 THEN n ELSE 2
    BY <1>1
  <1>4. (IF noise[c] = 0 THEN n ELSE 2) \in 0 .. 2
    BY <1>1
  <1>5. noise' = [noise EXCEPT ![c] = IF noise[c] = 0 THEN n ELSE 2]
    BY <1>2, <1>3
  <1>6. noise \in [Callers -> 0 .. 2]
    BY DEF TypeOK
  <1>7. noise' \in [Callers -> 0 .. 2]
    BY <1>4, <1>5, <1>6
  <1>8. noise'[c] = IF noise[c] = 0 THEN n ELSE 2
    BY <1>5, <1>6
  <1>9. ASSUME NEW d \in Callers \ {c} PROVE noise'[d] = noise[d]
    BY <1>5, <1>6
  <1>10. noise[c] = 2 => noise'[c] = 2
    <2>1. noise[c] = 2 => noise[c] # 0
      BY <1>1
    <2> QED BY <1>8, <2>1
  <1> QED BY <1>7, <1>8, <1>9, <1>10

\* The lone reads: a correct read of the target answers Ok, and what goes on
\* has either read another state or one bad answer.
LEMMA LoneReadKeeps ==
  ASSUME IInv, NEW c \in Callers, FastPath(c) \/ Fallback(c)
  PROVE  IInv'
  <1> USE DEF IInv
  <1>1. PICK step \in {"fast", "fallback"}, next \in {"command", "err"} :
          /\ LoneRead(c, step, next)
          /\ step = "fast" <=> next = "command"
    BY DEF FastPath, Fallback
  <1>2. /\ at[c] = step
        /\ UNCHANGED <<domain, shown, late, op, streak, left, seen>>
    BY <1>1 DEF LoneRead, libvirtd
  <1>3. CASE \E state \in States :
               /\ Read(state)
               /\ Goto(c, IF state = Target(c) THEN "ok" ELSE next)
               /\ IF state = domain THEN UNCHANGED noise ELSE Noisy(c, 1)
               /\ excuse' = [excuse EXCEPT ![c] = @ \cup
                    (IF state = Target(c) /\ state # domain THEN {"misled"} ELSE {})]
    <2>1. PICK state \in States :
            /\ Goto(c, IF state = Target(c) THEN "ok" ELSE next)
            /\ IF state = domain THEN UNCHANGED noise ELSE Noisy(c, 1)
            /\ excuse' = [excuse EXCEPT ![c] = @ \cup
                 (IF state = Target(c) /\ state # domain THEN {"misled"} ELSE {})]
      BY <1>3
    <2>2. /\ noise' \in [Callers -> 0 .. 2]
          /\ noise'[c] = IF state = domain THEN noise[c] ELSE IF noise[c] = 0 THEN 1 ELSE 2
          /\ noise[c] = 2 => noise'[c] = 2
          /\ \A d \in Callers \ {c} : noise'[d] = noise[d]
      BY <2>1, NoisyIs DEF TypeOK
    <2>3. /\ at'[c] = IF state = Target(c) THEN "ok" ELSE next
          /\ excuse'[c] = excuse[c] \cup
               (IF state = Target(c) /\ state # domain THEN {"misled"} ELSE {})
          /\ \A d \in Callers \ {c} : at'[d] = at[d] /\ excuse'[d] = excuse[d]
      BY <2>1 DEF Goto, TypeOK
    <2>4. TypeOK'
      BY <1>2, <2>1, <2>2 DEF Goto, TypeOK
    <2>5. Target(c)' = Target(c)
      BY <1>2 DEF Target, Result
    <2>6. Knows(c)'
      <3>1. at'[c] = "ok" => Target(c)' \in seen'[c] \/ "misled" \in excuse'[c]
        <4>1. CASE state = Target(c) /\ state # domain
          BY <2>3, <4>1
        <4>2. CASE state = Target(c) /\ state = domain
          <5>1. domain \in seen[c]
            BY <1>1, <1>2 DEF Knows, Calling
          <5> QED BY <1>2, <2>5, <4>2, <5>1
        <4>3. CASE state # Target(c)
          BY <1>1, <2>3, <4>3
        <4> QED BY <4>1, <4>2, <4>3
      <3>2. Excused(c)' <=> Excused(c)
        BY <1>2, <2>3 DEF Excused
      <3>3. at'[c] # "idle" /\ (Calling(c)' => domain' \in seen'[c]) /\ at'[c] # "confirm"
        BY <1>1, <1>2, <2>3 DEF Knows, Calling
      <3>4. Excused(c) \/ noise[c] = 2 \/ (step = "fast" /\ noise[c] = 0)
              \/ (step = "fallback" /\ domain = Target(c) /\ noise[c] = 1)
        BY <1>2 DEF Knows
      <3>5. Excused(c) \/ noise'[c] = 2 \/ at'[c] = "ok"
              \/ (at'[c] = "command" /\ (domain = Target(c) => noise'[c] = 1))
        <4>1. CASE noise[c] = 2
          BY <2>2, <4>1
        <4>2. CASE step = "fast" /\ noise[c] = 0
          BY <1>1, <2>2, <2>3, <4>2
        <4>3. CASE step = "fallback" /\ domain = Target(c) /\ noise[c] = 1
          BY <2>2, <2>3, <4>3
        <4> QED BY <3>4, <4>1, <4>2, <4>3
      <3> QED BY <1>1, <1>2, <2>3, <2>5, <3>1, <3>2, <3>3, <3>5 DEF Knows
    <2> QED BY <1>2, <2>2, <2>3, <2>4, <2>6, ByCaller
  <1>4. CASE Goto(c, next) /\ Noisy(c, 1) /\ UNCHANGED excuse
    <2>1. /\ noise' \in [Callers -> 0 .. 2]
          /\ noise'[c] = IF noise[c] = 0 THEN 1 ELSE 2
          /\ \A d \in Callers \ {c} : noise'[d] = noise[d]
      BY <1>4, NoisyIs
    <2>2. at'[c] = next /\ \A d \in Callers \ {c} : at'[d] = at[d]
      BY <1>4 DEF Goto, TypeOK
    <2>3. TypeOK'
      BY <1>2, <1>4, <2>1 DEF Goto, TypeOK
    <2>4. Target(c)' = Target(c) /\ (Excused(c)' <=> Excused(c))
      BY <1>2, <1>4 DEF Target, Result, Excused
    <2>5. Excused(c) \/ noise'[c] = 2 \/ (next = "command" /\ noise'[c] = 1)
      <3>1. \/ Excused(c) \/ noise[c] = 2 \/ (step = "fast" /\ noise[c] = 0)
            \/ (step = "fallback" /\ noise[c] = 1)
        BY <1>2 DEF Knows
      <3> QED BY <1>1, <2>1, <3>1
    <2>6. Knows(c)'
      BY <1>1, <1>2, <2>2, <2>4, <2>5 DEF Knows, Calling
    <2> QED BY <1>2, <1>4, <2>1, <2>2, <2>3, <2>6, ByCaller
  <1> QED BY <1>1, <1>3, <1>4 DEF LoneRead

\* The command: where it succeeds the confirmation starts with a full budget,
\* and where libvirt refuses it a lone bad read has been spent.
LEMMA CommandKeeps ==
  ASSUME IInv, NEW c \in Callers, Command(c)
  PROVE  IInv'
  <1> USE DEF IInv
  <1>1. at[c] = "command" /\ UNCHANGED <<op, noise>> /\ Target(c)' = Target(c)
    BY DEF Command, Target, Result
  <1>2. CASE /\ domain = Source(op[c])
             /\ Becomes(Result(op[c]), {c})
             /\ Goto(c, "confirm")
             /\ streak' = [streak EXCEPT ![c] = 0] /\ left' = [left EXCEPT ![c] = Budget]
             /\ UNCHANGED late
    <2>1. Result(op[c]) \in States
      BY DEF Result
    <2>2. TypeOK'
      <3>1. 0 \in 0 .. Consecutive /\ Budget \in 0 .. Budget
        BY Sizes
      <3> QED BY <1>1, <1>2, <2>1, <3>1, BecomesTypes DEF Goto, TypeOK
    <2>3. /\ at'[c] = "confirm" /\ streak'[c] = 0 /\ left'[c] = Budget
          /\ domain' = Target(c) /\ seen'[c] = seen[c] \cup {Target(c)}
          /\ excuse'[c] = excuse[c]
      BY <1>1, <1>2 DEF Goto, TypeOK, Becomes, Target, Calling
    <2>4. 0 + Budget = Budget /\ 0 + Budget >= Consecutive /\ 0 < Consecutive
      BY PauseAssumption
    <2>5. Debounce(c)'
      BY <1>1, <2>3, <2>4 DEF Debounce
    <2>6. Knows(c)'
      BY <1>1, <2>3, <2>4, <2>5 DEF Knows, Calling
    <2>7. ASSUME NEW d \in Callers, d # c PROVE Knows(d)'
      BY <1>1, <1>2, <2>1, <2>7, OthersExcused DEF Goto, TypeOK
    <2> QED BY <2>2, <2>6, <2>7
  <1>3. CASE /\ domain # Source(op[c])
             /\ Goto(c, "fallback")
             /\ UNCHANGED <<libvirtd, streak, left, seen, excuse>>
    <2>1. TypeOK'
      BY <1>1, <1>3 DEF Goto, TypeOK, libvirtd
    <2>2. at'[c] = "fallback" /\ (Excused(c)' <=> Excused(c)) /\ domain' = domain
      BY <1>3 DEF Goto, TypeOK, libvirtd, Excused
    <2>3. domain = Target(c) \/ Excused(c)
      <3>1. domain \in {Target(c), Source(op[c]), "shut off"}
        BY CallerTypes
      <3>2. domain \in seen[c]
        BY <1>1 DEF Knows, Calling
      <3> QED BY <1>3, <3>1, <3>2 DEF Excused
    <2>4. Excused(c) \/ noise[c] = 2 \/ (domain = Target(c) /\ noise[c] = 1)
      BY <1>1, <2>3 DEF Knows
    <2>5. domain \in seen[c] /\ UNCHANGED <<seen, noise>>
      BY <1>1, <1>3 DEF Knows, Calling
    <2>6. Knows(c)'
      BY <1>1, <2>2, <2>4, <2>5 DEF Knows, Calling
    <2> QED BY <1>1, <1>3, <2>1, <2>6, ByCaller DEF Goto, TypeOK, libvirtd
  <1>4. CASE /\ UNCHANGED <<domain, shown, streak, left, seen>> /\ late' \subseteq Ops
             /\ Goto(c, "fallback") \/ Goto(c, "err")
             /\ excuse' = [excuse EXCEPT ![c] = @ \cup {"command"}]
    <2>1. TypeOK'
      BY <1>1, <1>4 DEF Goto, TypeOK
    <2>2. at'[c] \in {"fallback", "err"} /\ excuse'[c] = excuse[c] \cup {"command"}
      BY <1>4 DEF Goto, TypeOK
    <2>3. Knows(c)'
      BY <1>1, <1>4, <2>2 DEF Knows, Calling, Excused
    <2> QED BY <1>1, <1>4, <2>1, <2>3, ByCaller DEF Goto, TypeOK
  <1>5. op[c] \in Ops
    BY DEF TypeOK
  <1> QED BY <1>2, <1>3, <1>4, <1>5 DEF Command, libvirtd, TypeOK

\* One turn of the confirmation: Debounce survives it, or the second bad read
\* of the call excuses the error.
LEMMA ConfirmKeeps ==
  ASSUME IInv, NEW c \in Callers, Confirm(c)
  PROVE  IInv'
  <1> USE DEF IInv
  <1>1. /\ at[c] = "confirm" /\ left[c] > 0
        /\ at' = [at EXCEPT ![c] = IF streak'[c] = Consecutive THEN "ok" ELSE "confirm"]
        /\ UNCHANGED <<domain, shown, late, op, seen, excuse>>
    BY DEF Confirm, Goto, libvirtd
  <1>2. /\ streak[c] \in Nat /\ left[c] \in Nat /\ left[c] <= Budget
        /\ Consecutive \in Nat /\ Budget \in Nat /\ Budget >= Consecutive + Consecutive
    <2>1. streak[c] \in 0 .. Consecutive /\ left[c] \in 0 .. Budget
      BY CallerTypes
    <2> QED BY <2>1, Sizes
  <1>3. Target(c) \in seen[c] /\ streak[c] < Consecutive
    BY <1>1 DEF Knows
  <1>4. /\ streak' = [streak EXCEPT ![c] = streak'[c]] /\ streak'[c] \in {0, streak[c] + 1}
        /\ left' = [left EXCEPT ![c] = left'[c]] /\ left'[c] \in {0, left[c] - 1}
    BY DEF Confirm, TypeOK
  <1>5. \/ /\ UNCHANGED noise /\ left'[c] = left[c] - 1
           /\ streak'[c] = IF domain = Target(c) THEN streak[c] + 1 ELSE 0
        \/ Noisy(c, 1) /\ left'[c] = left[c] - 1
        \/ Noisy(c, 2)
    BY DEF Confirm, TypeOK
  <1>6. /\ noise' \in [Callers -> 0 .. 2]
        /\ noise[c] = 2 => noise'[c] = 2
        /\ \A d \in Callers \ {c} : noise'[d] = noise[d]
    <2>1. CASE UNCHANGED noise
      BY <2>1 DEF TypeOK
    <2>2. CASE \E n \in {1, 2} : Noisy(c, n)
      BY <2>2, NoisyIs
    <2> QED BY <1>5, <2>1, <2>2
  <1>7. streak'[c] \in 0 .. Consecutive /\ left'[c] \in 0 .. Budget
    BY <1>1, <1>2, <1>3, <1>4
  <1>8. TypeOK'
    <2>1. streak' \in [Callers -> 0 .. Consecutive] /\ left' \in [Callers -> 0 .. Budget]
      BY <1>4, <1>7 DEF TypeOK
    <2> QED BY <1>1, <1>6, <2>1 DEF TypeOK
  <1>9. /\ at'[c] = IF streak'[c] = Consecutive THEN "ok" ELSE "confirm"
        /\ Target(c)' = Target(c) /\ (Excused(c)' <=> Excused(c))
    BY <1>1 DEF TypeOK, Target, Result, Excused
  <1>10. ASSUME Debounce(c), noise'[c] # 2 PROVE Debounce(c)'
    <2>1. CASE /\ noise'[c] = noise[c] /\ left'[c] = left[c] - 1
               /\ streak'[c] = streak[c] + 1
      <3>1. streak'[c] + left'[c] = streak[c] + left[c]
        BY <1>2, <2>1
      <3> QED BY <1>1, <1>9, <1>10, <2>1, <3>1 DEF Debounce
    <2>2. CASE noise[c] = 0 /\ noise'[c] = 1 /\ left'[c] = left[c] - 1
      <3>1. streak[c] + left[c] = Budget
        BY <1>10, <2>2 DEF Debounce
      <3>2. streak'[c] + left'[c] >= Consecutive
        BY <1>2, <1>3, <1>4, <2>2, <3>1
      <3> QED BY <1>1, <1>9, <1>10, <2>2, <3>2 DEF Debounce
    <2>3. noise'[c] # noise[c] => noise[c] = 0 /\ noise'[c] = 1 /\ left'[c] = left[c] - 1
      BY <1>5, <1>10, NoisyIs
    <2>4. noise'[c] = noise[c] => left'[c] = left[c] - 1 /\ streak'[c] = streak[c] + 1
      BY <1>5, <1>10, NoisyIs DEF Debounce
    <2> QED BY <2>1, <2>2, <2>3, <2>4
  <1>11. Knows(c)'
    <2>1. Excused(c) \/ noise[c] = 2 \/ Debounce(c)
      BY <1>1 DEF Knows
    <2>2. Excused(c)' \/ noise'[c] = 2 \/ Debounce(c)'
      BY <1>6, <1>9, <1>10, <2>1
    <2>3. streak'[c] # Consecutive => streak'[c] < Consecutive
      BY <1>2, <1>7
    <2> QED BY <1>1, <1>3, <1>9, <2>2, <2>3 DEF Knows, Calling
  <1> QED BY <1>1, <1>4, <1>6, <1>8, <1>11, ByCaller DEF TypeOK

LEMMA ConfirmTimeoutKeeps ==
  ASSUME IInv, NEW c \in Callers, ConfirmTimeout(c)
  PROVE  IInv'
  <1> USE DEF IInv
  <1>1. /\ at[c] = "confirm" /\ left[c] = 0 /\ at' = [at EXCEPT ![c] = "err"]
        /\ UNCHANGED <<domain, shown, late, op, streak, left, seen, noise, excuse>>
    BY DEF ConfirmTimeout, Goto, libvirtd, history
  <1>2. TypeOK'
    BY <1>1 DEF TypeOK
  <1>3. ~Debounce(c)
    <2>1. streak[c] < Consecutive
      BY <1>1 DEF Knows
    <2>2. streak[c] \in 0 .. Consecutive
      BY CallerTypes
    <2> QED BY <1>1, <2>1, <2>2, Sizes DEF Debounce
  <1>4. at'[c] = "err" /\ (Excused(c)' <=> Excused(c))
    BY <1>1 DEF TypeOK, Excused
  <1>5. Excused(c) \/ noise[c] = 2
    BY <1>1, <1>3 DEF Knows
  <1>6. Knows(c)'
    BY <1>1, <1>4, <1>5 DEF Knows, Calling
  <1> QED BY <1>1, <1>2, <1>6, ByCaller DEF TypeOK

LEMMA StepKeeps == IInv /\ [Next]_vars => IInv'
  <1> SUFFICES ASSUME IInv, [Next]_vars PROVE IInv'
    OBVIOUS
  <1>1. CASE Settle \/ OutOfBand \/ LateCommand
    BY <1>1, EnvironmentKeeps
  <1>2. CASE \E c \in Callers : (\E o \in Ops : Begin(c, o)) \/ Step(c) \/ Return(c)
    <2>1. PICK c \in Callers : (\E o \in Ops : Begin(c, o)) \/ Step(c) \/ Return(c)
      BY <1>2
    <2> QED
      BY <2>1, BeginKeeps, ReturnKeeps, LoneReadKeeps, CommandKeeps, ConfirmKeeps,
         ConfirmTimeoutKeeps DEF Step
  <1>3. CASE UNCHANGED vars
    <2>1. TypeOK'
      BY <1>3 DEF vars, libvirtd, history, IInv, TypeOK
    <2>2. ASSUME NEW c \in Callers PROVE Knows(c)'
      BY <1>3, <2>2, Frame DEF vars, libvirtd, history, IInv
    <2> QED BY <2>1, <2>2 DEF IInv
  <1> QED BY <1>1, <1>2, <1>3 DEF Next

LEMMA Invariance == Spec => []IInv
  BY InitHolds, StepKeeps, PTL DEF Spec

\* Types, for any number of callers: the confirmation never runs past its
\* deadline or its streak.
THEOREM TypeCorrect == Spec => []TypeOK
  <1>1. IInv => TypeOK
    BY DEF IInv
  <1> QED BY <1>1, Invariance, PTL

\* An Ok answer means that the domain was in the state asked for during the
\* call, unless a lone stale read gave it.
THEOREM OkIsMeant == Spec => []OkMeansReached
  <1>1. IInv => OkMeansReached
    BY DEF IInv, Knows, OkMeansReached
  <1> QED BY <1>1, Invariance, PTL

\* One bad read never makes an error of a call on an undisturbed domain.
THEOREM BadReadTolerated == Spec => []OneBadReadTolerated
  <1>1. IInv => OneBadReadTolerated
    BY DEF IInv, Knows, Excused, OneBadReadTolerated
  <1> QED BY <1>1, Invariance, PTL
-----------------------------------------------------------------------------
(* Calls come to an end                                                     *)

\* Steps a call may still take: the lone reads, the command, and the reads left
\* to the confirmation.
StepsLeft(c) ==
  CASE at[c] = "fast"     -> Budget + 3
    [] at[c] = "command"  -> Budget + 2
    [] at[c] = "fallback" -> 1
    [] at[c] = "confirm"  -> left[c] + 1
    [] OTHER              -> 0

\* A call under way comes closer to its answer with each step of its own, and
\* nothing else moves it.
WindsDown ==
  \A c \in Callers : Calling(c) =>
    IF Step(c) THEN StepsLeft(c)' < StepsLeft(c) ELSE StepsLeft(c)' = StepsLeft(c)

LEMMA StepsLeftRange ==
  ASSUME TypeOK, NEW c \in Callers
  PROVE  StepsLeft(c) \in 0 .. Budget + 3
  <1>1. left[c] \in 0 .. Budget /\ Budget \in Nat
    BY CallerTypes, Sizes
  <1> QED BY <1>1 DEF StepsLeft

LEMMA OwnStep ==
  ASSUME TypeOK, NEW c \in Callers, Step(c)
  PROVE  StepsLeft(c)' < StepsLeft(c)
  <1>1. left[c] \in Nat /\ left[c] <= Budget /\ Budget \in Nat
    <2>1. left[c] \in 0 .. Budget
      BY CallerTypes
    <2> QED BY <2>1, Sizes
  <1>2. CASE FastPath(c)
    <2>1. at[c] = "fast" /\ at'[c] \in {"ok", "command"}
      BY <1>2 DEF FastPath, LoneRead, Goto, TypeOK
    <2> QED BY <1>1, <2>1 DEF StepsLeft
  <1>3. CASE Fallback(c)
    <2>1. at[c] = "fallback" /\ at'[c] \in {"ok", "err"}
      BY <1>3 DEF Fallback, LoneRead, Goto, TypeOK
    <2> QED BY <1>1, <2>1 DEF StepsLeft
  <1>4. CASE Command(c)
    <2>1. /\ at[c] = "command"
          /\ at'[c] \in {"fallback", "err"} \/ (at'[c] = "confirm" /\ left'[c] = Budget)
      BY <1>4 DEF Command, Goto, TypeOK
    <2> QED BY <1>1, <2>1 DEF StepsLeft
  <1>5. CASE Confirm(c)
    <2>1. /\ at[c] = "confirm" /\ left[c] > 0 /\ at'[c] \in {"ok", "confirm"}
          /\ left'[c] \in {0, left[c] - 1}
      BY <1>5 DEF Confirm, Goto, TypeOK
    <2> QED BY <1>1, <2>1 DEF StepsLeft
  <1>6. CASE ConfirmTimeout(c)
    <2>1. at[c] = "confirm" /\ at'[c] = "err"
      BY <1>6 DEF ConfirmTimeout, Goto, TypeOK
    <2> QED BY <1>1, <2>1 DEF StepsLeft
  <1> QED BY <1>2, <1>3, <1>4, <1>5, <1>6 DEF Step

LEMMA NotMoved ==
  ASSUME TypeOK, [Next]_vars, NEW c \in Callers, Calling(c), ~Step(c)
  PROVE  at'[c] = at[c] /\ left'[c] = left[c]
  <1>1. CASE Settle \/ OutOfBand \/ LateCommand \/ UNCHANGED vars
    BY <1>1 DEF Settle, OutOfBand, LateCommand, vars
  <1>2. ASSUME NEW d \in Callers, (\E o \in Ops : Begin(d, o)) \/ Return(d)
        PROVE  at'[c] = at[c] /\ left'[c] = left[c]
    <2>1. d # c
      BY <1>2 DEF Begin, Return, Calling
    <2> QED BY <1>2, <2>1 DEF Begin, Return, Goto, TypeOK
  <1>3. ASSUME NEW d \in Callers, d # c, Step(d)
        PROVE  at'[c] = at[c] /\ left'[c] = left[c]
    BY <1>3 DEF Step, FastPath, Fallback, LoneRead, Command, Confirm, ConfirmTimeout,
                Goto, TypeOK
  <1> QED BY <1>1, <1>2, <1>3 DEF Next

\* A call of pause or resume takes at most Budget + 3 steps, whatever the domain,
\* libvirtd and the other callers do meanwhile: no answer sends it back.
THEOREM CallsComeToAnEnd ==
  Spec => [](\A c \in Callers : StepsLeft(c) \in 0 .. Budget + 3) /\ [][WindsDown]_vars
  <1>1. TypeOK => \A c \in Callers : StepsLeft(c) \in 0 .. Budget + 3
    BY StepsLeftRange
  <1>2. TypeOK /\ [Next]_vars => [WindsDown]_vars
    BY OwnStep, NotMoved DEF WindsDown, StepsLeft
  <1> QED BY <1>1, <1>2, TypeCorrect, PTL DEF Spec
===============================================================================

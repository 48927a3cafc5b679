------------------------ MODULE CircuitBreakerProofs ------------------------
(***************************************************************************)
(* Proofs about CircuitBreaker: typing for any number of threads, what the *)
(* breaker promises to a single one, and that to a single one it is atomic *)
(***************************************************************************)
EXTENDS CircuitBreaker, TLAPS

LEMMA LeastOf ==
  ASSUME NEW a \in Nat, NEW b \in Nat
  PROVE  Least(a, b) \in Nat /\ Least(a, b) <= a /\ Least(a, b) <= b
         /\ (Least(a, b) = a \/ Least(a, b) = b)
  BY DEF Least

LEMMA MultiplierRange == MaxMultiplier \in Nat /\ MaxMultiplier >= 1
  <1>1. \A d \in Nat \ {0} : MaxTimeout \div d \in Nat
    BY BreakerAssumption
  <1>2. (IF Base = 0 THEN 1 ELSE Base) \in Nat \ {0}
    BY BreakerAssumption
  <1>3. MaxTimeout \div (IF Base = 0 THEN 1 ELSE Base) \in Nat
    BY <1>1, <1>2
  <1> QED
    BY <1>3 DEF MaxMultiplier

LEMMA BackoffRange ==
  ASSUME multiplier \in 1..MaxMultiplier
  PROVE  Backoff \in 1..MaxMultiplier
  BY MultiplierRange DEF Backoff, Least

LEMMA RecoveryRange ==
  ASSUME multiplier \in 1..MaxMultiplier
  PROVE  RecoveryTimeout \in 0..MaxTimeout
  <1>1. \A m \in Nat : Base * m \in Nat
    BY BreakerAssumption
  <1>2. Base * multiplier \in Nat
    BY <1>1, MultiplierRange
  <1> QED
    BY <1>2, LeastOf, BreakerAssumption DEF RecoveryTimeout

\* A step that leaves the multiplier alone leaves the recovery timeout alone.
LEMMA RecoveryKept ==
  ASSUME UNCHANGED multiplier
  PROVE  RecoveryTimeout' = RecoveryTimeout
  BY DEF RecoveryTimeout, Least

-----------------------------------------------------------------------------
LEMMA StepTypes ==
  ASSUME TypeOK, NEW c \in Callers, Request(c) \/ Step(c)
  PROVE  TypeOK'
  <1> USE DEF TypeOK, Goto, SetState, Steps, States, shared, hardware
  <1>1. CASE Request(c)        BY <1>1 DEF Request
  <1>2. CASE AllowState(c)     BY <1>2 DEF AllowState
  <1>3. CASE AllowTimeout(c)   BY <1>3, RecoveryRange DEF AllowTimeout
  <1>4. CASE AllowElapsed(c)   BY <1>4 DEF AllowElapsed
  <1>5. CASE AllowRefuse(c)    BY <1>5 DEF AllowRefuse
  <1>6. CASE AllowProbe(c)     BY <1>6, BreakerAssumption DEF AllowProbe
  <1>7. CASE Stamp(c)          BY <1>7, BreakerAssumption DEF Stamp
  <1>8. CASE Sign(c)           BY <1>8 DEF Sign
  <1>9. CASE SuccessState(c)   BY <1>9 DEF SuccessState
  <1>10. CASE SuccessReset(c)  BY <1>10 DEF SuccessReset
  <1>11. CASE SuccessForgive(c)
    BY <1>11, MultiplierRange DEF SuccessForgive
  <1>12. CASE SuccessClose(c)  BY <1>12, BreakerAssumption DEF SuccessClose
  <1>13. CASE FailureState(c)  BY <1>13 DEF FailureState
  <1>14. CASE FailureCount(c)  BY <1>14 DEF FailureCount
  <1>15. CASE FailureBackoff(c)
    BY <1>15, BackoffRange DEF FailureBackoff
  <1>16. CASE FailureOpen(c)   BY <1>16, BreakerAssumption DEF FailureOpen
  <1> QED
    BY <1>1, <1>2, <1>3, <1>4, <1>5, <1>6, <1>7, <1>8, <1>9, <1>10, <1>11,
       <1>12, <1>13, <1>14, <1>15, <1>16 DEF Step

LEMMA TickTypes ==
  ASSUME TypeOK, Tick
  PROVE  TypeOK'
  <1>1. \A t \in 0..MaxTimeout : Least(t + 1, MaxTimeout) \in 0..MaxTimeout
    BY BreakerAssumption DEF Least
  <1> QED
    BY <1>1 DEF Tick, TypeOK, hardware

LEMMA NextTypes == TypeOK /\ [Next]_vars => TypeOK'
  <1> SUFFICES ASSUME TypeOK, [Next]_vars PROVE TypeOK'
    OBVIOUS
  <1>1. CASE \E c \in Callers : Request(c) \/ Step(c)
    BY <1>1, StepTypes
  <1>2. CASE Tick
    BY <1>2, TickTypes
  <1>3. CASE GoDown
    <2>1. outages' \in 0..Outages
      <3>1. outages \in 0..Outages /\ outages < Outages /\ outages' = outages + 1
        BY <1>3 DEF GoDown, TypeOK
      <3> QED
        BY <3>1, BreakerAssumption
    <2> QED
      BY <1>3, <2>1 DEF GoDown, TypeOK, shared
  <1>4. CASE ComeUp
    BY <1>4 DEF ComeUp, TypeOK, shared
  <1>5. CASE UNCHANGED vars
    BY <1>5 DEF vars, shared, control, hardware, TypeOK
  <1> QED
    BY <1>1, <1>2, <1>3, <1>4, <1>5 DEF Next

\* Typing, which bounds the backoff: however the threads interleave, the
\* multiplier fetch_update leaves behind stays within max / base, and every
\* recovery timeout within max_recovery_timeout.
THEOREM TypeCorrect == Spec => []TypeOK
  <1>1. Init => TypeOK
    BY MultiplierRange, BreakerAssumption DEF Init, TypeOK, States, Steps
  <1> QED
    BY <1>1, NextTypes, PTL DEF Spec

-----------------------------------------------------------------------------
(* One thread: where it is determines what the shared state can be.         *)

Alone(t) ==
  /\ pc[t] \in {"timeout", "elapsed", "probe"} => state = "open"
  /\ pc[t] = "elapsed" => timeout[t] = RecoveryTimeout
  /\ pc[t] = "probe" => opened >= RecoveryTimeout
  /\ pc[t] = "stampProbe" => state = "half"
  /\ pc[t] \in {"sign", "succeeded", "failed"} => state # "open"
  /\ pc[t] = "reset" => state # "open" /\ seen[t] = state
  /\ pc[t] = "forgive" => state = "half" /\ failures = 0
  /\ pc[t] = "close" => state = "half" /\ failures = 0 /\ multiplier = 1
  /\ pc[t] = "count" => state = "closed"
  /\ pc[t] = "backoff" => state = "half"
  /\ pc[t] = "open" => state = "half" \/ (state = "closed" /\ failures >= Threshold)
  /\ state = "open" /\ pc[t] # "stamp" => since # None /\ since <= opened
  /\ state = "closed" =>
       multiplier = 1 /\ (pc[t] = "open" \/ failures = 0 \/ failures < Threshold)

LEMMA AloneStep ==
  ASSUME NEW t, Callers = {t}, TypeOK, Alone(t), Request(t) \/ Step(t)
  PROVE  Alone(t)'
  <1> USE DEF TypeOK, Goto, SetState, Steps, States, shared, Alone
  <1>1. CASE Request(t)        BY <1>1, RecoveryKept DEF Request
  <1>2. CASE AllowState(t)     BY <1>2, RecoveryKept DEF AllowState
  <1>3. CASE AllowTimeout(t)   BY <1>3, RecoveryKept DEF AllowTimeout
  <1>4. CASE AllowElapsed(t)
    <2>1. since \in Nat /\ opened \in Nat /\ RecoveryTimeout \in Nat
      BY <1>4, RecoveryRange DEF AllowElapsed
    <2> QED
      BY <1>4, <2>1, RecoveryKept DEF AllowElapsed, Elapsed
  <1>5. CASE AllowRefuse(t)    BY <1>5, RecoveryKept DEF AllowRefuse
  <1>6. CASE AllowProbe(t)     BY <1>6, RecoveryKept DEF AllowProbe
  <1>7. CASE Stamp(t)
    <2>1. since' = 0 /\ since' # None /\ opened' = opened /\ 0 <= opened
      BY <1>7, BreakerAssumption DEF Stamp
    <2> QED
      BY <1>7, <2>1, RecoveryKept DEF Stamp
  <1>8. CASE Sign(t)           BY <1>8, RecoveryKept DEF Sign
  <1>9. CASE SuccessState(t)   BY <1>9, RecoveryKept DEF SuccessState
  <1>10. CASE SuccessReset(t)  BY <1>10, RecoveryKept DEF SuccessReset
  <1>11. CASE SuccessForgive(t)
    BY <1>11 DEF SuccessForgive
  <1>12. CASE SuccessClose(t)  BY <1>12, RecoveryKept DEF SuccessClose
  <1>13. CASE FailureState(t)  BY <1>13, RecoveryKept DEF FailureState
  <1>14. CASE FailureCount(t)
    BY <1>14, RecoveryKept, BreakerAssumption DEF FailureCount
  <1>15. CASE FailureBackoff(t)
    BY <1>15 DEF FailureBackoff
  <1>16. CASE FailureOpen(t)   BY <1>16, RecoveryKept DEF FailureOpen
  <1> QED
    BY <1>1, <1>2, <1>3, <1>4, <1>5, <1>6, <1>7, <1>8, <1>9, <1>10, <1>11,
       <1>12, <1>13, <1>14, <1>15, <1>16 DEF Step

LEMMA AloneTick ==
  ASSUME NEW t, Callers = {t}, TypeOK, Alone(t), Tick
  PROVE  Alone(t)'
  <1>1. /\ opened' \in Nat /\ opened' >= opened
        /\ since # None /\ since <= opened => since' <= opened'
        /\ since' = None <=> since = None
    BY BreakerAssumption DEF Tick, TypeOK, Least
  <1>2. RecoveryTimeout' = RecoveryTimeout /\ RecoveryTimeout \in Nat
    BY RecoveryKept, RecoveryRange, BreakerAssumption DEF Tick, TypeOK
  <1>3. UNCHANGED <<state, failures, multiplier, pc, seen, timeout>>
    BY DEF Tick
  <1> QED
    BY <1>1, <1>2, <1>3 DEF Alone, TypeOK

LEMMA AloneNext ==
  ASSUME NEW t, Callers = {t}
  PROVE  TypeOK /\ Alone(t) /\ [Next]_vars => Alone(t)'
  <1> SUFFICES ASSUME TypeOK, Alone(t), [Next]_vars PROVE Alone(t)'
    OBVIOUS
  <1>1. CASE \E c \in Callers : Request(c) \/ Step(c)
    BY <1>1, AloneStep
  <1>2. CASE Tick
    BY <1>2, AloneTick
  <1>3. CASE GoDown \/ ComeUp \/ UNCHANGED vars
    <2>1. UNCHANGED <<shared, pc, seen, timeout, opened>>
      BY <1>3 DEF GoDown, ComeUp, vars, control
    <2> QED
      BY <2>1, RecoveryKept DEF Alone, shared
  <1> QED
    BY <1>1, <1>2, <1>3 DEF Next

\* Used by every theorem below: a lone thread keeps Alone.
LEMMA AloneAlways ==
  ASSUME NEW t, Callers = {t}
  PROVE  Spec => [](TypeOK /\ Alone(t))
  <1>1. Init => TypeOK /\ Alone(t)
    BY MultiplierRange, BreakerAssumption DEF Init, TypeOK, States, Steps, Alone
  <1>2. TypeOK /\ Alone(t) /\ [Next]_vars => (TypeOK /\ Alone(t))'
    BY NextTypes, AloneNext
  <1> QED
    BY <1>1, <1>2, PTL DEF Spec

\* Where a lone thread can change the state, and from what.
LEMMA AloneMoves ==
  ASSUME NEW t, Callers = {t}, TypeOK, Alone(t), [Next]_vars, state' # state
  PROVE  \/ state = "open" /\ state' = "half"
         \/ state = "half" /\ state' = "closed"
         \/ state = "half" /\ state' = "open"
         \/ state = "closed" /\ state' = "open" /\ failures >= Threshold
  <1>1. PICK c \in Callers : Request(c) \/ Step(c)
    BY DEF Next, Tick, GoDown, ComeUp, vars, shared
  <1>2. c = t
    BY <1>1
  <1>3. CASE AllowProbe(t)
    BY <1>3 DEF AllowProbe, SetState, Alone
  <1>4. CASE SuccessClose(t)
    BY <1>4 DEF SuccessClose, SetState, Alone
  <1>5. CASE FailureOpen(t)
    BY <1>5 DEF FailureOpen, SetState, Alone
  <1>6. CASE ~(AllowProbe(t) \/ SuccessClose(t) \/ FailureOpen(t))
    BY <1>1, <1>2, <1>6
    DEF Step, Request, AllowState, AllowTimeout, AllowElapsed, AllowRefuse, Stamp,
        Sign, SuccessState, SuccessReset, SuccessForgive, FailureState,
        FailureCount, FailureBackoff, shared
  <1> QED
    BY <1>3, <1>4, <1>5, <1>6

\* A lone thread sees only the four transitions the file's header draws.
THEOREM AloneDocumented ==
  ASSUME NEW t, Callers = {t}
  PROVE  Spec => DocumentedTransitions
  <1>1. TypeOK /\ Alone(t) /\ [Next]_vars =>
          [state' # state => <<state, state'>> \in
             {<<"closed", "open">>, <<"open", "half">>, <<"half", "closed">>, <<"half", "open">>}]_vars
    BY AloneMoves
  <1> QED
    BY <1>1, AloneAlways, PTL DEF Spec, DocumentedTransitions

\* A lone thread trips the circuit only after Threshold failures in a row.
THEOREM AloneEarnedTrip ==
  ASSUME NEW t, Callers = {t}
  PROVE  Spec => EarnedTrip
  <1>1. TypeOK /\ Alone(t) /\ [Next]_vars =>
          [state = "closed" /\ state' = "open" => failures >= Threshold]_vars
    BY AloneMoves
  <1> QED
    BY <1>1, AloneAlways, PTL DEF Spec, EarnedTrip

\* Between its calls a lone thread finds a closed circuit without backoff and
\* short of the threshold.
THEOREM AloneSettled ==
  ASSUME NEW t, Callers = {t}
  PROVE  Spec => []Settled
  <1>1. Alone(t) => Settled
    BY DEF Alone, Settled
  <1> QED
    BY <1>1, AloneAlways, PTL

-----------------------------------------------------------------------------
(* To one thread the breaker is atomic                                      *)

\* The recovery timeout at multiplier m.
TimeoutAt(m) == Least(Base * m, MaxTimeout)

LEMMA Scaled ==
  ASSUME NEW a \in Nat, NEW b \in Nat, NEW d \in Nat
  PROVE  /\ d * a \in Nat
         /\ a <= b => d * a <= d * b
         /\ a < b /\ d # 0 => d * a < d * b
         /\ d * (2 * a) = 2 * (d * a)
         /\ d * (a + 1) = d * a + d
  OBVIOUS

LEMMA Quotient ==
  ASSUME NEW n \in Nat, NEW d \in Nat \ {0}
  PROVE  /\ n \div d \in Nat
         /\ d * (n \div d) <= n
         /\ n < d * ((n \div d) + 1)
  OBVIOUS

\* A step of the backoff doubles the timeout, or brings it within Base of the
\* largest.
LEMMA Doubling ==
  ASSUME NEW m \in 1..MaxMultiplier
  PROVE  LET r  == TimeoutAt(m)
             r2 == TimeoutAt(Least(2 * m, MaxMultiplier))
         IN  /\ r \in Nat /\ r2 \in r..MaxTimeout
             /\ r2 = 2 * r \/ (r2 < 2 * r /\ r2 + Base > MaxTimeout)
  <1> DEFINE m2 == Least(2 * m, MaxMultiplier)
             q == MaxTimeout \div Base
  <1>1. /\ m \in Nat /\ m >= 1 /\ m <= MaxMultiplier /\ MaxMultiplier \in Nat
        /\ Base \in Nat /\ MaxTimeout \in Nat
    BY MultiplierRange, BreakerAssumption
  <1>2. m2 \in Nat /\ m2 >= m /\ m2 <= MaxMultiplier /\ (m2 = 2 * m \/ (m2 < 2 * m /\ m2 = MaxMultiplier))
    BY <1>1 DEF Least
  <1>3. CASE Base = 0
    <2>1. Base * m = 0 /\ Base * m2 = 0
      BY <1>1, <1>2, <1>3
    <2>2. TimeoutAt(m) = 0 /\ TimeoutAt(m2) = 0
      BY <1>1, <2>1 DEF TimeoutAt, Least
    <2> QED
      BY <1>1, <2>2
  <1>4. CASE Base # 0
    <2>1. q \in Nat /\ Base * q <= MaxTimeout /\ MaxTimeout < Base * (q + 1)
      BY <1>1, <1>4, Quotient
    <2>2. MaxMultiplier = IF q = 0 THEN 1 ELSE q
      BY <1>4 DEF MaxMultiplier
    <2>3. CASE q = 0
      <3>1. m = 1 /\ m2 = 1 /\ MaxTimeout < Base * 1 /\ Base * 1 = Base
        BY <1>1, <1>2, <2>1, <2>2, <2>3
      <3>2. TimeoutAt(m) = MaxTimeout /\ TimeoutAt(m2) = MaxTimeout
        BY <1>1, <3>1 DEF TimeoutAt, Least
      <3> QED
        BY <1>1, <3>1, <3>2
    <2>4. CASE q # 0
      <3>1. /\ Base * m \in Nat /\ Base * m2 \in Nat /\ Base * q \in Nat
            /\ Base * m <= Base * m2 /\ Base * m2 <= Base * q
        BY <1>1, <1>2, <2>1, <2>2, <2>4, Scaled
      <3>2. TimeoutAt(m) = Base * m /\ TimeoutAt(m2) = Base * m2
        BY <1>1, <2>1, <3>1 DEF TimeoutAt, Least
      <3>3. CASE m2 = 2 * m
        <4>1. Base * m2 = 2 * (Base * m)
          BY <1>1, <3>3, Scaled
        <4> QED
          BY <1>1, <2>1, <3>1, <3>2, <4>1
      <3>4. CASE m2 < 2 * m /\ m2 = q
        <4>1. Base * m2 < Base * (2 * m) /\ Base * (2 * m) = 2 * (Base * m)
          BY <1>1, <1>2, <1>4, <3>4, Scaled
        <4>2. Base * (q + 1) = Base * q + Base
          BY <1>1, <2>1, Scaled
        <4>3. Base * m2 + Base > MaxTimeout
          BY <1>1, <2>1, <3>1, <3>4, <4>2
        <4> QED
          BY <1>1, <2>1, <3>1, <3>2, <4>1, <4>3
      <3> QED
        BY <1>2, <2>2, <2>4, <3>3, <3>4
    <2> QED
      BY <2>3, <2>4
  <1> QED
    BY <1>3, <1>4
LEMMA RecoveryAt == RecoveryTimeout = TimeoutAt(multiplier)
  BY DEF RecoveryTimeout, TimeoutAt

LEMMA LoneIs == ASSUME NEW t, Callers = {t} PROVE Lone = t
  BY DEF Lone

\* What the thread still remembers of the timeout it waited out: the probe's
\* outcome has not changed it yet, or has just doubled it.
Waited(t) ==
  /\ pc[t] = "probe" => timeout[t] = RecoveryTimeout
  /\ state = "half" /\ pc[t] \notin {"open", "close"} => timeout[t] = RecoveryTimeout
  /\ state = "half" /\ pc[t] = "open" =>
       /\ RecoveryTimeout \in timeout[t] .. MaxTimeout
       /\ \/ RecoveryTimeout = 2 * timeout[t]
          \/ RecoveryTimeout < 2 * timeout[t] /\ RecoveryTimeout + Base > MaxTimeout

LEMMA WaitedStep ==
  ASSUME NEW t, Callers = {t}, TypeOK, Alone(t), Waited(t), Request(t) \/ Step(t)
  PROVE  Waited(t)'
  <1> USE DEF TypeOK, Goto, SetState, Steps, States, shared, Waited
  <1>1. CASE Request(t)        BY <1>1, RecoveryKept DEF Request
  <1>2. CASE AllowState(t)     BY <1>2, RecoveryKept DEF AllowState
  <1>3. CASE AllowTimeout(t)   BY <1>3, RecoveryKept DEF AllowTimeout, Alone
  <1>4. CASE AllowElapsed(t)   BY <1>4, RecoveryKept DEF AllowElapsed, Alone
  <1>5. CASE AllowRefuse(t)    BY <1>5, RecoveryKept DEF AllowRefuse
  <1>6. CASE AllowProbe(t)     BY <1>6, RecoveryKept DEF AllowProbe
  <1>7. CASE Stamp(t)          BY <1>7, RecoveryKept DEF Stamp
  <1>8. CASE Sign(t)           BY <1>8, RecoveryKept DEF Sign
  <1>9. CASE SuccessState(t)   BY <1>9, RecoveryKept DEF SuccessState
  <1>10. CASE SuccessReset(t)  BY <1>10, RecoveryKept DEF SuccessReset
  <1>11. CASE SuccessForgive(t)
    BY <1>11 DEF SuccessForgive
  <1>12. CASE SuccessClose(t)  BY <1>12 DEF SuccessClose
  <1>13. CASE FailureState(t)  BY <1>13, RecoveryKept DEF FailureState
  <1>14. CASE FailureCount(t)  BY <1>14 DEF FailureCount, Alone
  <1>15. CASE FailureBackoff(t)
    <2>1. timeout' = timeout /\ pc'[t] = "open" /\ timeout[t] = TimeoutAt(multiplier)
      BY <1>15, RecoveryAt DEF FailureBackoff, Alone
    <2>2. RecoveryTimeout' = TimeoutAt(Least(2 * multiplier, MaxMultiplier))
      BY <1>15 DEF FailureBackoff, Backoff, RecoveryTimeout, TimeoutAt
    <2> QED
      BY <2>1, <2>2, Doubling
  <1>16. CASE FailureOpen(t)   BY <1>16 DEF FailureOpen
  <1> QED
    BY <1>1, <1>2, <1>3, <1>4, <1>5, <1>6, <1>7, <1>8, <1>9, <1>10, <1>11,
       <1>12, <1>13, <1>14, <1>15, <1>16 DEF Step

LEMMA WaitedNext ==
  ASSUME NEW t, Callers = {t}
  PROVE  TypeOK /\ Alone(t) /\ Waited(t) /\ [Next]_vars => Waited(t)'
  <1> SUFFICES ASSUME TypeOK, Alone(t), Waited(t), [Next]_vars PROVE Waited(t)'
    OBVIOUS
  <1>1. CASE \E c \in Callers : Request(c) \/ Step(c)
    BY <1>1, WaitedStep
  <1>2. CASE Tick \/ GoDown \/ ComeUp \/ UNCHANGED vars
    <2>1. UNCHANGED <<state, failures, multiplier, pc, timeout>>
      BY <1>2 DEF Tick, GoDown, ComeUp, vars, shared, control
    <2> QED
      BY <2>1, RecoveryKept DEF Waited
  <1> QED
    BY <1>1, <1>2 DEF Next

\* Without backoff the timeout is the one the atomic breaker starts from.
LEMMA FirstTimeout ==
  /\ multiplier = 1 => RecoveryTimeout = Atomic!First
  /\ multiplier' = 1 => RecoveryTimeout' = Atomic!First
  <1>1. Base * 1 = Base /\ Base \in Nat /\ MaxTimeout \in Nat
    BY BreakerAssumption
  <1> QED
    BY <1>1 DEF RecoveryTimeout, Least, Atomic!First

\* A call's step is a stutter of the atomic breaker, except where its outcome
\* takes effect: the count of a failure that does not trip, the store of open,
\* the reset of the count by a success in closed, the store of closed, and the
\* store of half by a probe.
LEMMA AtomicStep ==
  ASSUME NEW t, Callers = {t}, TypeOK, Alone(t), Waited(t), Request(t) \/ Step(t)
  PROVE  Atomic!Next \/ UNCHANGED Atomic!vars
  <1>0. Lone = t
    BY LoneIs
  <1> USE <1>0 DEF Goto, SetState, shared, TypeOK
  <1>1. CASE AllowProbe(t)
    <2>1. Atomic!Probe
      BY <1>1, RecoveryKept DEF AllowProbe, Atomic!Probe, Alone, Waited
    <2> QED
      BY <2>1 DEF Atomic!Next
  <1>2. CASE SuccessReset(t) /\ state = "closed"
    <2>1. Atomic!Success
      BY <1>2, RecoveryKept, FirstTimeout DEF SuccessReset, Atomic!Success, Alone, States
    <2> QED
      BY <2>1 DEF Atomic!Next
  <1>3. CASE SuccessClose(t)
    <2>1. Atomic!Success
      BY <1>3, FirstTimeout DEF SuccessClose, Atomic!Success, Alone
    <2> QED
      BY <2>1 DEF Atomic!Next
  <1>4. CASE FailureCount(t) /\ pc'[t] = "idle"
    <2>1. Atomic!Failure
      BY <1>4, RecoveryKept, BreakerAssumption DEF FailureCount, Atomic!Failure, Alone
    <2> QED
      BY <2>1 DEF Atomic!Next
  <1>5. CASE FailureOpen(t) /\ state = "closed"
    <2>1. Atomic!Failure
      BY <1>5, RecoveryKept, BreakerAssumption
      DEF FailureOpen, Atomic!Failure, Atomic!Trip, Alone
    <2> QED
      BY <2>1 DEF Atomic!Next
  <1>6. CASE FailureOpen(t) /\ state = "half"
    <2>1. Atomic!FailedProbe
      BY <1>6, RecoveryKept DEF FailureOpen, Atomic!FailedProbe, Atomic!Trip, Waited
    <2> QED
      BY <2>1 DEF Atomic!Next
  <1>7. CASE AllowTimeout(t)
    BY <1>7, RecoveryKept DEF AllowTimeout, Alone, Atomic!vars
  <1>8. CASE SuccessReset(t) /\ state # "closed"
    BY <1>8, RecoveryKept DEF SuccessReset, Alone, Atomic!vars
  <1>9. CASE SuccessForgive(t)
    BY <1>9 DEF SuccessForgive, Alone, Atomic!vars
  <1>10. CASE FailureCount(t) /\ pc'[t] # "idle"
    BY <1>10, RecoveryKept DEF FailureCount, Alone, Atomic!vars
  <1>11. CASE FailureBackoff(t)
    BY <1>11 DEF FailureBackoff, Alone, Atomic!vars
  <1>12. CASE \/ Request(t) \/ AllowState(t) \/ AllowElapsed(t) \/ AllowRefuse(t)
              \/ Stamp(t) \/ Sign(t) \/ SuccessState(t) \/ FailureState(t)
    <2>1. UNCHANGED <<state, failures, multiplier, timeout, opened>>
      BY <1>12 DEF Request, AllowState, AllowElapsed, AllowRefuse, Stamp, Sign,
                   SuccessState, FailureState
    <2>2. pc[t] # "open" /\ pc'[t] # "open"
      BY <1>12 DEF Request, AllowState, AllowElapsed, AllowRefuse, Stamp, Sign,
                   SuccessState, FailureState, States
    <2> QED
      BY <2>1, <2>2, RecoveryKept DEF Atomic!vars
  <1> QED
    BY <1>1, <1>2, <1>3, <1>4, <1>5, <1>6, <1>7, <1>8, <1>9, <1>10, <1>11, <1>12
    DEF Step, FailureOpen, Alone

LEMMA AtomicNext ==
  ASSUME NEW t, Callers = {t}
  PROVE  TypeOK /\ Alone(t) /\ Waited(t) /\ [Next]_vars => [Atomic!Next]_(Atomic!vars)
  <1> SUFFICES ASSUME TypeOK, Alone(t), Waited(t), [Next]_vars
               PROVE  Atomic!Next \/ UNCHANGED Atomic!vars
    OBVIOUS
  <1>1. CASE \E c \in Callers : Request(c) \/ Step(c)
    BY <1>1, AtomicStep
  <1>2. CASE Tick
    <2>1. UNCHANGED <<state, failures, multiplier, pc, timeout>>
      BY <1>2 DEF Tick
    <2>2. \/ opened < MaxTimeout /\ opened' = opened + 1
          \/ opened' = opened
      BY <1>2, BreakerAssumption DEF Tick, Least, TypeOK
    <2> QED
      BY <2>1, <2>2, RecoveryKept DEF Atomic!Next, Atomic!Tick, Atomic!vars
  <1>3. CASE GoDown \/ ComeUp \/ UNCHANGED vars
    <2>1. UNCHANGED <<state, failures, multiplier, pc, timeout, opened>>
      BY <1>3 DEF GoDown, ComeUp, vars, shared, control
    <2> QED
      BY <2>1, RecoveryKept DEF Atomic!vars
  <1> QED
    BY <1>1, <1>2, <1>3 DEF Next

\* One thread's loads and stores implement the breaker of the file's header:
\* whatever the threshold and the timeouts, each outcome counts exactly once.
THEOREM AloneIsAtomic ==
  ASSUME NEW t, Callers = {t}
  PROVE  Spec => AtomicSpec
  <1>1. Init => Atomic!Init /\ Waited(t)
    BY LoneIs, FirstTimeout DEF Init, Atomic!Init, Waited
  <1>2. TypeOK /\ Alone(t) /\ Waited(t) /\ [Next]_vars => Waited(t)'
    BY WaitedNext
  <1>3. TypeOK /\ Alone(t) /\ Waited(t) /\ [Next]_vars => [Atomic!Next]_(Atomic!vars)
    BY AtomicNext
  <1> QED
    BY <1>1, <1>2, <1>3, AloneAlways, PTL DEF Spec, AtomicSpec, Atomic!Spec
-----------------------------------------------------------------------------
(* Calls come to an end                                                     *)

\* Steps a call may still take: at most those of a probe that closes the circuit.
StepsLeft(c) ==
  CASE pc[c] = "ask"        -> 11
    [] pc[c] = "timeout"    -> 10
    [] pc[c] = "elapsed"    -> 9
    [] pc[c] = "probe"      -> 8
    [] pc[c] = "stampProbe" -> 7
    [] pc[c] = "sign"       -> 6
    [] pc[c] \in {"succeeded", "failed"} -> 5
    [] pc[c] \in {"reset", "count", "backoff"} -> 4
    [] pc[c] = "forgive"    -> 3
    [] pc[c] \in {"close", "open"} -> 2
    [] pc[c] = "stamp"      -> 1
    [] pc[c] = "idle"       -> 0

\* A call under way comes closer to its end with each step of its own, and no
\* other thread moves it.
WindsDown ==
  \A c \in Callers : pc[c] # "idle" =>
    IF Step(c) THEN StepsLeft(c)' < StepsLeft(c) ELSE StepsLeft(c)' = StepsLeft(c)

LEMMA OwnStep ==
  ASSUME TypeOK, NEW c \in Callers, Step(c)
  PROVE  StepsLeft(c)' < StepsLeft(c)
  BY DEF Step, AllowState, AllowTimeout, AllowElapsed, AllowRefuse, AllowProbe, Stamp,
         Sign, SuccessState, SuccessReset, SuccessForgive, SuccessClose, FailureState,
         FailureCount, FailureBackoff, FailureOpen, Goto, TypeOK, States, StepsLeft

LEMMA NotMoved ==
  ASSUME TypeOK, [Next]_vars, NEW c \in Callers, pc[c] # "idle", ~Step(c)
  PROVE  pc'[c] = pc[c]
  <1>1. CASE Tick \/ GoDown \/ ComeUp \/ UNCHANGED vars
    BY <1>1 DEF Tick, GoDown, ComeUp, vars, control
  <1>2. ASSUME NEW d \in Callers, Request(d) \/ Step(d)
        PROVE  pc'[c] = pc[c]
    <2>1. d # c
      BY <1>2 DEF Request
    <2> QED
      BY <1>2, <2>1
      DEF Request, Step, AllowState, AllowTimeout, AllowElapsed, AllowRefuse, AllowProbe,
          Stamp, Sign, SuccessState, SuccessReset, SuccessForgive, SuccessClose,
          FailureState, FailureCount, FailureBackoff, FailureOpen, Goto, TypeOK
  <1> QED BY <1>1, <1>2 DEF Next

\* For any number of threads a call through the breaker is over in eleven steps,
\* each an atomic access of the breaker or the signature: no path loops,
\* whatever the other threads do to the words it shares.
THEOREM CallsComeToAnEnd ==
  Spec => [](\A c \in Callers : StepsLeft(c) \in 0 .. 11) /\ [][WindsDown]_vars
  <1>1. TypeOK => \A c \in Callers : StepsLeft(c) \in 0 .. 11
    BY DEF TypeOK, Steps, StepsLeft
  <1>2. TypeOK /\ [Next]_vars => [WindsDown]_vars
    BY OwnStep, NotMoved DEF WindsDown, StepsLeft
  <1> QED BY <1>1, <1>2, TypeCorrect, PTL DEF Spec
=============================================================================

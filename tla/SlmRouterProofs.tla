--------------------------- MODULE SlmRouterProofs ---------------------------
(***************************************************************************)
(* Proofs about SlmRouter: with routes and inferences beside the calls of  *)
(* the manager, its types and the limit of its budget hold as before.      *)
(***************************************************************************)
EXTENDS SlmRouter, SlmLifecycleProofs

RouterInv == IInv /\ ask \in Ask

LEMMA AskMoves ==
  ASSUME ask \in Ask, ask # NoAsk,
         NEW step \in {"available", "tags", "ps", "decide", "infer"},
         NEW listed \in BOOLEAN, NEW warm \in BOOLEAN
  PROVE  [ask EXCEPT !.at = step, !.listed = listed, !.warm = warm] \in Ask
  BY DEF Ask

LEMMA AskTypes ==
  ASSUME RouterInv, Router \/ \E m \in Models : RouteLocalOnly(m)
  PROVE  ask' \in Ask
  <1>1. NoAsk \in Ask /\ NoAsk.at = "idle"
    BY DEF Ask, NoAsk
  <1>2. CASE \E m \in Models : RouteLocalOnly(m)
    BY <1>2 DEF RouteLocalOnly, NoAsk, Ask
  <1>3. CASE Router
    <2>1. ask # NoAsk
      BY <1>1, <1>3 DEF Router, IsAvailable, ListTags, ListRunningNames, Decide, Infer
    <2>2. ask \in [at : {"available", "tags", "ps", "decide", "infer"}, model : Models,
                   listed : BOOLEAN, warm : BOOLEAN]
      BY <2>1 DEF RouterInv, Ask
    <2>3. CASE IsAvailable \/ Decide
      BY <1>1, <2>2, <2>3 DEF IsAvailable, Decide, Tell, Refuse, Ask
    <2>4. CASE ListTags
      <3>1. (ask.model \in disk) \in BOOLEAN
        OBVIOUS
      <3> QED BY <1>1, <2>2, <2>4, <3>1 DEF ListTags, Refuse, Ask
    <2>5. CASE ListRunningNames
      <3>1. PICK known \in BOOLEAN :
              ask' = [ask EXCEPT !.at = "decide", !.warm = known /\ ask.model \in loaded]
        BY <2>5 DEF ListRunningNames
      <3>2. (known /\ ask.model \in loaded) \in BOOLEAN
        OBVIOUS
      <3> QED BY <2>2, <3>1, <3>2 DEF Ask
    <2>6. CASE Infer
      BY <1>1, <2>6 DEF Infer
    <2> QED BY <1>3, <2>3, <2>4, <2>5, <2>6 DEF Router
  <1> QED BY <1>2, <1>3

LEMMA RouterInductive == RouterInv /\ [RouterNext]_routerVars => RouterInv'
  <1> SUFFICES ASSUME RouterInv, [RouterNext]_routerVars PROVE RouterInv'
    OBVIOUS
  <1>1. CASE Next /\ UNCHANGED ask
    BY <1>1, Inductive DEF RouterInv
  <1>2. CASE UNCHANGED routerVars
    <2>1. UNCHANGED vars /\ UNCHANGED ask
      BY <1>2 DEF routerVars
    <2> QED BY <2>1, Inductive DEF RouterInv
  <1>3. CASE Infer
    <2>1. ask' \in Ask
      BY <1>3, AskTypes DEF Router
    <2>2. ask.model \in Models
      BY <1>3 DEF RouterInv, Infer, Ask, NoAsk
    <2>3. /\ loaded' \subseteq Models /\ late' \subseteq Models
          /\ UNCHANGED <<used, permit, disk, pc, call>>
      BY <1>3, <2>2 DEF Infer, Answered, GivenUp, tasks, RouterInv, IInv, TypeOK
    <2>4. IInv'
      BY <2>3 DEF RouterInv, IInv, TypeOK, CallShape, Checked, UsedWithinLimit,
                  LoadsSerialized, Loading
    <2> QED BY <2>1, <2>4 DEF RouterInv
  <1>4. CASE (Router /\ ~Infer) \/ \E m \in Models : RouteLocalOnly(m)
    <2>1. ask' \in Ask
      BY <1>4, AskTypes
    <2>2. UNCHANGED vars
      BY <1>4 DEF Router, IsAvailable, ListTags, ListRunningNames, Decide, RouteLocalOnly
    <2> QED BY <2>1, <2>2, Inductive DEF RouterInv
  <1> QED BY <1>1, <1>2, <1>3, <1>4 DEF RouterNext

LEMMA RouterInitially == RouterInit => RouterInv
  BY Initially DEF RouterInit, RouterInv, Ask

LEMMA RouterInvariance == RouterSpec => []RouterInv
  BY RouterInitially, RouterInductive, PTL DEF RouterSpec

-----------------------------------------------------------------------------
(* The theorems                                                            *)

\* Types, with routes and inferences beside any calls.
THEOREM RouterTypeCorrect == RouterSpec => []RouterTypeOK
  <1>1. RouterInv => RouterTypeOK
    BY DEF RouterInv, RouterTypeOK, IInv
  <1> QED BY <1>1, RouterInvariance, PTL

\* The budget is never passed either (UsedWithinLimit): an inference loads a
\* model without charging it, and spends nothing the manager has granted.
THEOREM RouterBudgetHolds == RouterSpec => []UsedWithinLimit
  <1>1. RouterInv => UsedWithinLimit
    BY DEF RouterInv, IInv
  <1> QED BY <1>1, RouterInvariance, PTL
===============================================================================

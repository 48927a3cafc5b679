------------------------------- MODULE SlmRouter -------------------------------
(***************************************************************************)
(* ModelRouter (slm-edge-inference/src/router.rs) in front of Ollama       *)
(* (providers/ollama.rs), next to the calls of SlmLifecycle: a caller asks *)
(* for a route to a local model and then runs its inference.               *)
(*                                                                         *)
(* route reserves nothing and Ollama loads whatever model an inference     *)
(* names: the answer is about the past, and an inference on a model that   *)
(* is not resident goes around the memory budget.                          *)
(***************************************************************************)
EXTENDS SlmLifecycle

VARIABLE ask    \* the caller's request: where it is, and what it was told

routerVars == <<vars, ask>>

NoAsk == [at |-> "idle", model |-> None, listed |-> FALSE, warm |-> FALSE]
Ask == [at : {"available", "tags", "ps", "decide", "infer"}, model : Models,
        listed : BOOLEAN, warm : BOOLEAN] \cup {NoAsk}

RouterTypeOK == TypeOK /\ ask \in Ask

RouterInit == Init /\ ask = NoAsk

-----------------------------------------------------------------------------
(* route: LocalOnly.  CloudOnly answers at once and reads nothing.  Any     *)
(* request to Ollama may fail.                                             *)

Tell(step) == ask' = [ask EXCEPT !.at = step]
Refuse == ask' = NoAsk

RouteLocalOnly(m) ==
  /\ ask = NoAsk
  /\ ask' = [NoAsk EXCEPT !.at = "available", !.model = m]
  /\ UNCHANGED vars

IsAvailable ==
  /\ ask.at = "available"
  /\ Tell("tags") \/ Refuse
  /\ UNCHANGED vars

\* list_models asks for the tags, then for the running models to mark them.
ListTags ==
  /\ ask.at = "tags"
  /\ \/ ask' = [ask EXCEPT !.at = "ps", !.listed = ask.model \in disk]
     \/ Refuse
  /\ UNCHANGED vars

\* When the second request fails, no model is marked.
ListRunningNames ==
  /\ ask.at = "ps"
  /\ \E known \in BOOLEAN :
       ask' = [ask EXCEPT !.at = "decide", !.warm = known /\ ask.model \in loaded]
  /\ UNCHANGED vars

CanLoad(mb) == used + mb <= Limit

\* A prompt longer than the context window is refused like the rest.
Decide ==
  /\ ask.at = "decide"
  /\ \/ ask.listed /\ (ask.warm \/ CanLoad(Mb[ask.model])) /\ Tell("infer")
     \/ Refuse
  /\ UNCHANGED vars

\* chat: Ollama loads the model when it is not resident, or goes on loading it
\* for a request that failed.
Infer ==
  /\ ask.at = "infer"
  /\ Answered(ask.model) \/ GivenUp(ask.model)
  /\ ask' = NoAsk
  /\ UNCHANGED <<used, permit, disk, tasks>>

Router == IsAvailable \/ ListTags \/ ListRunningNames \/ Decide \/ Infer

-----------------------------------------------------------------------------
\* Without Overlap, only loads run beside a route and its inference.
InOrder ==
  Overlap \/ ask'.at = "idle" \/ \A t \in Tasks : pc'[t] # "idle" => call'[t].op = "load"

RouterNext ==
  \/ Next /\ UNCHANGED ask /\ InOrder
  \/ \E m \in Models : RouteLocalOnly(m) /\ InOrder
  \/ Router

RouterSpec == RouterInit /\ [][RouterNext]_routerVars
===============================================================================

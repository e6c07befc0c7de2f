--------------------------- MODULE RoutingPromise ---------------------------
(***************************************************************************)
(* What the router promises its callers, whatever it is built from: a      *)
(* request is decided in one step, some time between its call and the      *)
(* answer, by the one configuration that is published at that moment, and  *)
(* the answer is that decision.                                            *)
(***************************************************************************)
CONSTANTS
  Requests,         (* the requests being routed, concurrently             *)
  Configs,          (* the configurations that may be published            *)
  Decision(_, _),   (* what a configuration decides for a request          *)
  Pending           (* no decision yet                                     *)

VARIABLES
  config,     (* the configuration published last                          *)
  input,      (* the requests                                              *)
  stage,      (* idle, called, decided or answered                         *)
  decision,   (* what was decided                                          *)
  answer      (* what the caller has got                                   *)

vars == <<config, input, stage, decision, answer>>

Init ==
  /\ config \in Configs
  /\ stage    = [r \in Requests |-> "idle"]
  /\ decision = [r \in Requests |-> Pending]
  /\ answer   = [r \in Requests |-> Pending]

Publish ==
  /\ config' \in Configs
  /\ UNCHANGED <<input, stage, decision, answer>>

Move(r, from, to) == stage[r] = from /\ stage' = [stage EXCEPT ![r] = to]

Call(r) ==
  /\ Move(r, "idle", "called")
  /\ UNCHANGED <<config, input, decision, answer>>

Decide(r) ==
  /\ Move(r, "called", "decided")
  /\ decision' = [decision EXCEPT ![r] = Decision(config, input[r])]
  /\ UNCHANGED <<config, input, answer>>

Answer(r) ==
  /\ Move(r, "decided", "answered")
  /\ answer' = [answer EXCEPT ![r] = decision[r]]
  /\ UNCHANGED <<config, input, decision>>

(* What every configuration decides in the same way is answered at once.   *)
AnswerAtOnce(r) ==
  /\ Move(r, "idle", "answered")
  /\ \A cfg \in Configs : Decision(cfg, input[r]) = Decision(config, input[r])
  /\ decision' = [decision EXCEPT ![r] = Decision(config, input[r])]
  /\ answer'   = [answer EXCEPT ![r] = decision'[r]]
  /\ UNCHANGED <<config, input>>

Next ==
  \/ Publish
  \/ \E r \in Requests : Call(r) \/ Decide(r) \/ Answer(r) \/ AnswerAtOnce(r)

Spec == Init /\ [][Next]_vars
=============================================================================

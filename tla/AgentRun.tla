------------------------------- MODULE AgentRun -------------------------------
(***************************************************************************)
(* A run of the agent graph with its language model: AgentGraph leaves     *)
(* open whether the model answers, LlmRetry leaves open who asks it.  The  *)
(* node that plans (_plan_analysis_with_llm of app/agent/graph.py) and the *)
(* one that words the answer (_render_answer_with_llm of                   *)
(* graph_support.py) each wait for one call of generate_text.              *)
(***************************************************************************)
EXTENDS AgentGraph, LlmRetry

VARIABLE unanswered \* history: the nodes whose call failed

runVars == <<vars, callVars, unanswered>>

ReplyNodes == {"clarify", "reject", "safe_answer", "compose_answer"}
\* A node that asks the model if there is a key for it.
HasModel(node) ==
  /\ settings.apiKey
  /\ \/ node = "plan_analysis" /\ settings.mode # "deterministic"
     \/ node \in ReplyNodes \ {"compose_answer"}
     \/ node = "compose_answer" /\ (reported \/ summary)

RunInit == Init /\ Quiet /\ unanswered = {}

\* The planner answers small talk, lists of tasks and business queries without.
AskModel ==
  /\ HasModel(pc) /\ StartCall
  /\ UNCHANGED <<vars, unanswered>>

AwaitModel ==
  /\ Respond \/ FailAttempt
  /\ unanswered' = IF call' = "failed" THEN unanswered \cup {pc} ELSE unanswered
  /\ UNCHANGED vars

\* What the call came to is what the node acts on.
Answers ==
  \/ PlanWithModel /\ call = "answered"
  \/ /\ PlanFallback \/ PlannerRaises
     /\ call = "idle" => ~ settings.apiKey
     /\ call = "failed" <=> error' = "llm_error" \/ "planner_llm_error_fallback" \in warnings'
  \/ /\ pc \in ReplyNodes /\ Reply
     /\ call = "idle" => ~ HasModel(pc)
     /\ call = "failed" <=> "response_llm_fallback" \in warnings'

TakeAnswer ==
  /\ call # "calling" /\ Answers
  /\ IF call = "idle" THEN UNCHANGED callVars ELSE Return
  /\ UNCHANGED unanswered

\* The steps of the graph that have nothing to do with the model.
WithoutModel ==
  /\ call = "idle"
  /\ \/ MissScopeRequest \/ ResolveScope \/ PlanTasks \/ PlanPreplanned \/ PlanDeterministic
     \/ RulesRaise \/ Admit \/ Execute \/ Smalltalk
  /\ UNCHANGED <<callVars, unanswered>>

RunNext == AskModel \/ AwaitModel \/ TakeAnswer \/ WithoutModel
RunSpec == RunInit /\ [][RunNext]_runVars

-----------------------------------------------------------------------------
(* A model that could not be asked is told of in the reply, and only then:  *)
(* the warning of the planner outlives every node that follows.             *)
FailuresTold ==
  pc = "end" =>
    /\ "plan_analysis" \in unanswered <=> "planner_llm_error_fallback" \in warnings
    /\ unanswered \cap ReplyNodes # {} <=> "response_llm_fallback" \in warnings

(* What is asked of the model is asked in calls of generate_text. *)
ImplementsCall == CallSpec

(* Asking the model adds nothing to what the graph may do. *)
ImplementsGraph == Spec
=============================================================================

------------------------------ MODULE AgentGraph ------------------------------
(***************************************************************************)
(* One run of the workflow of app/agent/graph.py, a node per action.  The  *)
(* planner reads the question when it plans: which of its readings it      *)
(* comes to is free, and so is whether a model or the service answers.     *)
(*                                                                         *)
(* The early returns of run_report, calc_metrics and of the retrieval      *)
(* nodes for a missing context have no action, but for the one of          *)
(* run_comparison: ContextThere says that no run gets to them.  Of the     *)
(* warnings, those of the tools and of the calculations are left out.      *)
(***************************************************************************)
EXTENDS PlanPolicy

CONSTANTS
  Requests,   \* what a caller may ask a scope for
  Scopes,     \* what resolve_scope_tool may answer
  Settings,   \* the settings a process may run with
  ModelPlans, \* what a language model may answer that the schema accepts
  Metrics,    \* the metrics and the dimensions
  Dims        \* that the rules of the planner recognise

ASSUME GraphInputs ==
  /\ Requests \subseteq RequestType
  /\ Scopes \subseteq {s \in ScopeType : s.status # "none" /\ s.reports \in {{}, ReportType}}
  /\ Settings \subseteq SettingsType
  /\ ModelPlans \subseteq Plans
  /\ Metrics \subseteq MetricName /\ Dims \subseteq DimensionName

VARIABLES
  request,   \* AgentState.scope_request
  settings,  \* get_settings()
  scope,     \* user_scope
  tasks,     \* legacy_tasks
  plan,      \* analysis_plan
  source,    \* plan_source
  route,     \* policy_route
  report,    \* selected_report_id, which comes with filters
  status,    \* the status
  needs,     \* needs_clarification
  question,  \* whether there is a clarification_question
  reported,  \* whether tool_responses.run_report is there
  summary,   \* whether analysis_artifacts has a summary
  warnings,  \* the warnings, as a set
  calls,     \* the calls of run_report and of the fetch_ tools
  used,      \* the other tools invoked
  pc,        \* the node that runs next, "end", or "raised"
  error      \* what was raised

asked   == <<request, settings>>
planned == <<tasks, plan, source>>
decided == <<route, report>>
answer  == <<status, needs, question>>
output  == <<reported, summary, calls, used>>
vars == <<asked, scope, planned, decided, answer, output, warnings, pc, error>>

FallbackWarnings == {"planner_low_confidence_fallback", "planner_llm_error_fallback",
                     "planner_contract_or_config_fallback"}
Warnings == {"missing_scope_request", "comparison_missing_context",
             "compose_missing_tool_output", "calc_no_formulas_selected",
             "response_llm_fallback"} \cup FallbackWarnings \cup Reasons
RunNodes == {"run_total", "run_comparison", "run_ranking", "run_trend", "run_business_query"}
Nodes == PolicyRoute \cup
         {"resolve_scope", "plan_analysis", "policy_gate", "route_decision",
          "run_report", "calc_metrics", "compose_answer", "end", "raised"}
Errors == {"none", "llm_error", "contract", "bad_dates", "backend", "unsupported", "no_quotient",
           "no_items"}
CallType == [tool : ToolOperation, what : MetricName \cup ReportType \cup BusinessKind,
             dim : DimensionName \cup {"none"}, branches : SUBSET Branch]

Init ==
  /\ request \in Requests /\ settings \in Settings
  /\ scope = NoScope /\ tasks = NoTasks /\ plan = NoPlan /\ source = "none"
  /\ route = "none" /\ report = "none"
  /\ status = "running" /\ needs = FALSE /\ question = FALSE
  /\ reported = FALSE /\ summary = FALSE /\ calls = {} /\ used = {}
  /\ warnings = {} /\ pc = "resolve_scope" /\ error = "none"

Raise(e) == pc' = "raised" /\ error' = e
Go(node) == pc' = node /\ UNCHANGED error

-----------------------------------------------------------------------------
\* _resolve_scope_node without a scope request: the run goes on all the same.
MissScopeRequest ==
  /\ pc = "resolve_scope" /\ ~ request.given
  /\ status' = "denied" /\ route' = "reject"
  /\ warnings' = warnings \cup {"missing_scope_request"}
  /\ Go("plan_analysis")
  /\ UNCHANGED <<asked, scope, planned, report, needs, question, output>>

ResolveScope ==
  /\ pc = "resolve_scope" /\ request.given
  /\ scope' \in Scopes
  /\ Go("plan_analysis")
  /\ UNCHANGED <<asked, planned, decided, answer, output, warnings>>

(* A plan of the rules: a comparison is with the same metric, a trend gets *)
(* its average and its slope, and a total its calculations if there are.   *)
Reading(i, mode, m, d, w, b, k) ==
  [intent |-> i, mode |-> mode, metric |-> m, dim |-> d, dates |-> w, business |-> b,
   previous |-> IF i = "comparison" THEN m ELSE "none", ranking |-> k,
   average |-> i = "trend", slope |-> i = "trend",
   scalars |-> mode = "total" /\ (i = "comparison" \/ m # "average_check"),
   needs |-> i = "clarify", question |-> i = "clarify"]
Blank(i) == Reading(i, "none", "sales_total", "none", "none", "none", "none")
Business(i, b, w, k) == Reading(i, "none", "sales_total", "none", w, b, k)
Totals(i, w) == {Reading(i, "total", m, "none", w, "none", "none") : m \in Metrics}
Trends(w)    == {Reading("trend", "timeseries", m, "day", w, "none", "none") : m \in Metrics}
Breakdowns(i, w, k) ==
  {Reading(i, "breakdown", m, d, w, "none", k) : m \in Metrics, d \in Dims}

\* deterministic_plan_analysis, for small talk and the business queries.
Preplanned ==
  {Blank("smalltalk")}
  \cup {Business("ranking", "item_performance", w, k) :
          w \in DateRange, k \in {"top_k", "bottom_k"}}
  \cup {Business("metric_total", b, w, "none") :
          w \in DateRange, b \in {"customer_summary", "receipt_summary"}}
\* And for every other question.
ReadByRules ==
  {Blank("clarify"), Blank("unsupported")}
  \cup (UNION {Breakdowns("breakdown", w, "none") \cup Breakdowns("ranking", w, "top_k")
               \cup Breakdowns("ranking", w, "bottom_k")
               \cup Trends(w) \cup Totals("metric_total", w) : w \in DateRange})
  \cup (UNION {Totals("comparison", w) : w \in DateRange \ {"none"}})

\* What _plan_analysis_node returns.
Plan(t, p, by, told) ==
  /\ tasks' = t /\ plan' = p /\ source' = by
  /\ needs' = p.needs /\ question' = p.question
  /\ warnings' = warnings \cup told
  /\ Go("policy_gate")
  /\ UNCHANGED <<asked, scope, decided, status, output>>

FallbackAllowed == settings.mode # "llm" \/ settings.fallback

\* plan_legacy_tasks: at least two tasks, and one that is supported.
PlanTasks ==
  /\ pc = "plan_analysis"
  /\ \E t \in [reports : SUBSET {"sales_total", "order_count", "average_check"},
               others : BOOLEAN] :
       t.reports # {} /\ Plan(t, NoPlan, "deterministic", {})

PlanPreplanned ==
  /\ pc = "plan_analysis"
  /\ \E p \in Preplanned : Plan(NoTasks, p, "deterministic", {})

PlanDeterministic ==
  /\ pc = "plan_analysis" /\ settings.mode = "deterministic"
  /\ \E p \in ReadByRules : Plan(NoTasks, p, "deterministic", {})

\* A plan of the model, confident enough.
PlanWithModel ==
  /\ pc = "plan_analysis" /\ settings.mode # "deterministic" /\ settings.apiKey
  /\ \E p \in ModelPlans : Plan(NoTasks, p, "llm", {})

\* Without a key get_llm_client refuses, as a contract or configuration error.
PlanFallback ==
  /\ pc = "plan_analysis" /\ settings.mode # "deterministic" /\ FallbackAllowed
  /\ \E p \in ReadByRules, told \in FallbackWarnings :
       /\ settings.apiKey \/ told = "planner_contract_or_config_fallback"
       /\ Plan(NoTasks, p, "fallback", {told})

\* The rules are tried first in every mode: dates that are none, or inverted.
RulesRaise ==
  /\ pc = "plan_analysis" /\ Raise("bad_dates")
  /\ UNCHANGED <<asked, scope, planned, decided, answer, output, warnings>>

PlannerRaises ==
  /\ pc = "plan_analysis" /\ settings.mode # "deterministic" /\ ~ FallbackAllowed
  /\ \E e \in {"contract", "llm_error"} : (settings.apiKey \/ e = "contract") /\ Raise(e)
  /\ UNCHANGED <<asked, scope, planned, decided, answer, output, warnings>>

-----------------------------------------------------------------------------
Decided == Decide(tasks, plan, scope, request, settings)

\* Mutant of PolicyGate: the warnings are replaced and not extended.
PolicyGateAnew ==
  /\ pc = "policy_gate"
  /\ route' = Decided.route /\ report' = Decided.report
  /\ warnings' = {Decided.reason} \ {"ok"}
  /\ Go("route_decision")
  /\ UNCHANGED <<asked, scope, planned, answer, output>>

PolicyGate ==
  /\ pc = "policy_gate"
  /\ route' = Decided.route /\ report' = Decided.report
  /\ warnings' = warnings \cup ({Decided.reason} \ {"ok"})
  /\ Go("route_decision")
  /\ UNCHANGED <<asked, scope, planned, answer, output>>

RouteDecision ==
  /\ pc = "route_decision" /\ Go(route)
  /\ UNCHANGED <<asked, scope, planned, decided, answer, output, warnings>>

-----------------------------------------------------------------------------
\* Mutant of ScopedBranches: the ids are passed on as they are.
RawBranches ==
  IF request.branches # {} THEN request.branches
  ELSE IF "*" \in scope.branches THEN {} ELSE scope.branches

\* _scoped_branch_ids: an id without a number is dropped.  Empty: no filter.
ScopedBranches ==
  IF request.branches # {} THEN request.branches \cap Branch
  ELSE IF "*" \in scope.branches THEN {}
  ELSE scope.branches \cap Branch

Call(tool, what, dim, branches) ==
  [tool |-> tool, what |-> what, dim |-> dim, branches |-> branches]
\* run_smartrest_report takes a profile, a report and its dates, and no branches.
Reporting(rs) == {Call("run_report", r, "none", {}) : r \in rs}
Fetch(tool, what, dim) == {Call(tool, what, dim, ScopedBranches)}

\* A node that has asked for cs and used ts, with what it goes on to.
Asking(cs, ts) ==
  /\ calls' = calls \cup cs /\ used' = used \cup ts
  /\ UNCHANGED <<asked, scope, planned, decided, answer>>
Break(cs, ts, e) == Asking(cs, ts) /\ Raise(e) /\ UNCHANGED <<reported, summary, warnings>>
Fail(cs)   == Break(cs, {}, "backend")     \* the database gives no answer
Refuse(cs) == Break(cs, {}, "unsupported") \* LiveAnalyticsUnsupportedError
\* Or it has something to divide, and nothing to divide it by.
FailOn(cs, metric) ==
  Fail(cs) \/ (metric \in Quotients /\ Break(cs, {}, "no_quotient"))
Summarise(cs, ts) ==
  /\ Asking(cs, ts) /\ summary' = TRUE /\ Go("compose_answer")
  /\ UNCHANGED <<reported, warnings>>

PrepareLegacyReport ==
  /\ pc = "prepare_legacy_report" /\ Go("run_report")
  /\ UNCHANGED <<asked, scope, planned, decided, answer, output, warnings>>

RunReport ==
  /\ pc = "run_report"
  /\ \/ Fail(Reporting({report}))
     \/ /\ Asking(Reporting({report}), {}) /\ reported' = TRUE
        /\ Go("calc_metrics") /\ UNCHANGED <<summary, warnings>>

\* select_calculation_specs finds a formula for every report but one.
Computed(rs) == IF rs \subseteq {"average_check"} THEN {} ELSE {"compute_scalar_metrics"}

CalcMetrics ==
  /\ pc = "calc_metrics"
  /\ used' = used \cup Computed({report})
  /\ warnings' = warnings \cup
       (IF report = "average_check" THEN {"calc_no_formulas_selected"} ELSE {})
  /\ Go("compose_answer")
  /\ UNCHANGED <<asked, scope, planned, decided, answer, reported, summary, calls>>

\* The tasks one by one; the one that fails breaks the run.
RunMultiReport ==
  /\ pc = "run_multi_report"
  /\ \/ \E rs \in SUBSET tasks.reports : \E ts \in {{}, Computed(rs)} :
          rs # {} /\ Break(Reporting(rs), ts, "backend")
     \/ Summarise(Reporting(tasks.reports), Computed(tasks.reports))

Scalars == IF plan.scalars THEN {"compute_scalar_metrics"} ELSE {}

RunTotal ==
  /\ pc = "run_total"
  /\ LET read == Fetch("fetch_total_metric", plan.metric, "none")
     IN  IF Unserved("fetch_total_metric", plan.metric, "none") THEN Refuse(read)
         ELSE (FailOn(read, plan.metric) \/ Summarise(read, Scalars))

\* A comparison of the model's may come without its previous period.
ComparisonWithoutPrevious ==
  /\ pc = "run_comparison" /\ plan.previous = "none"
  /\ status' = "failed" /\ warnings' = warnings \cup {"comparison_missing_context"}
  /\ Go("compose_answer")
  /\ UNCHANGED <<asked, scope, planned, decided, needs, question, output>>

RunComparison ==
  /\ pc = "run_comparison" /\ plan.previous # "none"
  /\ LET current == Fetch("fetch_total_metric", plan.metric, "none")
         both == current \cup Fetch("fetch_total_metric", plan.previous, "none")
     IN  IF Unserved("fetch_total_metric", plan.metric, "none") THEN Refuse(current)
         ELSE \/ FailOn(current, plan.metric)
              \/ IF Unserved("fetch_total_metric", plan.previous, "none") THEN Refuse(both)
                 ELSE (FailOn(both, plan.previous) \/ Summarise(both, Scalars))

\* RankItemsRequest wants at least one item.
RunRanking ==
  /\ pc = "run_ranking"
  /\ LET read   == Fetch("fetch_breakdown", plan.metric, plan.dim)
         share  == IF plan.intent = "ranking" THEN {"attach_breakdown_share"} ELSE {}
         ranked == IF plan.intent = "ranking" THEN {plan.ranking} \ {"none"} ELSE {}
     IN  IF Unserved("fetch_breakdown", plan.metric, plan.dim) THEN Refuse(read)
         ELSE \/ FailOn(read, plan.metric)
              \/ Summarise(read, share \cup ranked)
              \/ ranked # {} /\ Break(read, share, "no_items")

\* The average and the slope each want enough points, the window being at least 2.
RunTrend ==
  /\ pc = "run_trend"
  /\ LET read == Fetch("fetch_timeseries", plan.metric, "day")
     IN  IF Unserved("fetch_timeseries", plan.metric, "day") THEN Refuse(read)
         ELSE \/ FailOn(read, plan.metric)
              \/ \E ts \in SUBSET {"moving_average", "trend_slope"} :
                   /\ "moving_average" \in ts => plan.average
                   /\ "trend_slope" \in ts => plan.slope
                   /\ "moving_average" \in ts /\ plan.slope => "trend_slope" \in ts
                   /\ Summarise(read, ts)

RunBusinessQuery ==
  /\ pc = "run_business_query"
  /\ LET read == Fetch(BusinessTool(plan.business), plan.business, "none")
     IN  Fail(read) \/ Summarise(read, {})

-----------------------------------------------------------------------------
\* _render_answer_with_llm: the words may be the model's if there is a key.
Rendered ==
  \E told \in {{}, {"response_llm_fallback"}} :
    (settings.apiKey \/ told = {}) /\ warnings' = warnings \cup told

Clarify ==
  /\ pc = "clarify" /\ status' = "clarify" /\ needs' = TRUE /\ question' = TRUE
  /\ Rendered /\ Go("end")
  /\ UNCHANGED <<asked, scope, planned, decided, output>>

Reject ==
  /\ pc = "reject"
  /\ status' = IF scope.status # "granted" THEN "denied" ELSE "rejected"
  /\ Rendered /\ Go("end")
  /\ UNCHANGED <<asked, scope, planned, decided, needs, question, output>>

SafeAnswer ==
  /\ pc = "safe_answer" /\ status' = "rejected"
  /\ Rendered /\ Go("end")
  /\ UNCHANGED <<asked, scope, planned, decided, needs, question, output>>

\* Mutant of Smalltalk: the planner's question stays.
SmalltalkAsking ==
  /\ pc = "smalltalk" /\ status' = "onboarding" /\ Go("end")
  /\ UNCHANGED <<asked, scope, planned, decided, needs, question, output, warnings>>

Smalltalk ==
  /\ pc = "smalltalk" /\ status' = "onboarding" /\ needs' = FALSE /\ question' = FALSE
  /\ Go("end")
  /\ UNCHANGED <<asked, scope, planned, decided, output, warnings>>

ComposeAnswer ==
  /\ pc = "compose_answer" /\ (reported \/ summary)
  /\ status' = "completed" /\ Rendered /\ Go("end")
  /\ UNCHANGED <<asked, scope, planned, decided, needs, question, output>>

ComposeNothing ==
  /\ pc = "compose_answer" /\ ~ reported /\ ~ summary
  /\ status' = "failed" /\ warnings' = warnings \cup {"compose_missing_tool_output"}
  /\ Go("end")
  /\ UNCHANGED <<asked, scope, planned, decided, needs, question, output>>

Understand == MissScopeRequest \/ ResolveScope \/ PlanTasks \/ PlanPreplanned
              \/ PlanDeterministic \/ PlanWithModel \/ PlanFallback \/ PlannerRaises
              \/ RulesRaise
Admit   == PolicyGate \/ RouteDecision
Execute == PrepareLegacyReport \/ RunReport \/ CalcMetrics \/ RunMultiReport \/ RunTotal
           \/ ComparisonWithoutPrevious \/ RunComparison \/ RunRanking \/ RunTrend
           \/ RunBusinessQuery
Reply   == Clarify \/ Reject \/ SafeAnswer \/ Smalltalk \/ ComposeAnswer \/ ComposeNothing

Next == Understand \/ Admit \/ Execute \/ Reply

Spec == Init /\ [][Next]_vars

-----------------------------------------------------------------------------
TypeOK ==
  /\ request \in Requests /\ settings \in Settings
  /\ scope \in Scopes \cup {NoScope} /\ tasks \in TasksType
  /\ plan \in Plans \cup {NoPlan}
  /\ source \in {"none", "deterministic", "llm", "fallback"}
  /\ route \in PolicyRoute \cup {"none"} /\ report \in ReportType \cup {"none"}
  /\ status \in {"running", "completed", "onboarding", "clarify", "rejected", "denied",
                 "failed"}
  /\ needs \in BOOLEAN /\ question \in BOOLEAN
  /\ reported \in BOOLEAN /\ summary \in BOOLEAN
  /\ warnings \subseteq Warnings /\ calls \subseteq CallType /\ used \subseteq ToolOperation
  /\ pc \in Nodes /\ error \in Errors

(* Nothing is asked of the database that the user's scope does not allow.  *)
(* For a plan, of the rules or of the model, and for a business query:     *)
(* the metric, the dimension, the report and the operation of each call,   *)
(* with the branches and the export of the request.  For a list of tasks   *)
(* the gate looks at the reports only: what a report tells may be a metric *)
(* the user would be refused if asked for it alone.  The policy lists the  *)
(* operations of a plan (operation_registry.py) and the nodes invoke       *)
(* theirs (graph.py): each one a node invokes is allowed, but for the      *)
(* scalar calculations, which the policy asks for in a comparison only.    *)
MetricOf(c) == IF c.what = "sales_by_source" THEN "sales_total" ELSE c.what
DimOf(c)    == IF c.what = "sales_by_source" THEN "source" ELSE c.dim
Permitted(c) ==
  /\ scope.status = "granted"
  /\ IF c.tool = "run_report" THEN c.what \in scope.reports ELSE c.tool \in scope.tools
  /\ tasks = NoTasks =>
       /\ MetricOf(c) \in scope.metrics \cup BusinessKind
       /\ DimOf(c) \in scope.dims \cup {"none"}
       /\ "*" \in scope.branches \/ request.branches \subseteq scope.branches
       /\ request.export \in scope.exports \cup {"none"}
WithinGrant ==
  /\ \A c \in calls : Permitted(c)
  /\ used \ {"compute_scalar_metrics"} \subseteq scope.tools

(* A user limited to numbered branches never has the live service read     *)
(* another: the ids a request may narrow them to pass the policy as        *)
(* strings, and the retrieval takes their numbers.  An empty list would    *)
(* mean every branch.                                                      *)
WithinBranches ==
  scope.branches # {} /\ scope.branches \subseteq Branch =>
    \A c \in calls : c.tool # "run_report" => c.branches # {} /\ c.branches \subseteq scope.branches

(* The policy turns away what the live service cannot serve                *)
(* (live_capabilities.py and services/live_analytics.py say it each on its *)
(* own), except for the previous period of a comparison of the model's.    *)
ServedOrPrevious ==
  error = "unsupported" =>
    /\ source = "llm" /\ pc = "raised" /\ plan.intent = "comparison"
    /\ Unserved("fetch_total_metric", plan.previous, "none")

\* What the validators of AgentState (schemas/agent.py) ask of a finished run.
StateIsValid ==
  pc = "end" =>
    /\ needs => question
    /\ status = "clarify" => needs
    /\ status = "onboarding" => ~ needs /\ ~ question

(* The warnings of a reply say what was not done as asked: each node       *)
(* returns the list anew, and none of the earlier entries may be missing   *)
(* at the end (README.md:820 for the fallback of the planner).             *)
ToldInFull ==
  pc = "end" =>
    /\ source = "fallback" => warnings \cap FallbackWarnings # {}
    /\ ~ request.given => "missing_scope_request" \in warnings
    /\ status = "completed" /\ tasks.others => "planner_partial_multi_task" \in warnings
    /\ status # "completed" => warnings \ (FallbackWarnings \cup {"response_llm_fallback"}) # {}

(* No run gets to the early returns for a missing context, which the nodes *)
(* of graph.py keep, but for the one in run_comparison.                    *)
ContextThere ==
  /\ pc \in {"run_report", "prepare_legacy_report", "run_multi_report"} \cup RunNodes =>
       request.given
  /\ pc \in {"run_report", "prepare_legacy_report"} => report # "none" /\ plan.dates # "none"
  /\ pc = "calc_metrics" => reported
  /\ pc = "run_multi_report" => tasks.reports # {}
  /\ pc = "run_business_query" => plan.business # "none"
  /\ pc \in RunNodes \ {"run_business_query"} => plan.mode # "none"
  /\ pc = "run_ranking" => plan.dim # "none"

(* The graph is a GroundedRun: it reads for entitled users only, completes *)
(* exactly when it has read, and denies exactly the others.                *)
Grounded == INSTANCE GroundedRun WITH
  entitled <- IF pc = "resolve_scope" THEN "unknown"
              ELSE IF scope.status = "granted" THEN "yes" ELSE "no",
  read     <- calls # {},
  verdict  <- IF pc = "end" THEN status ELSE IF pc = "raised" THEN "error" ELSE "none"
ImplementsGrounded == Grounded!Spec
=============================================================================

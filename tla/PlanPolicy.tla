------------------------------ MODULE PlanPolicy ------------------------------
(***************************************************************************)
(* The policy gate as a function: _policy_gate_node of app/agent/graph.py  *)
(* over planning_policy.py, planner_constraints.py and                     *)
(* operation_registry.py.  It takes a plan, the scope the user was         *)
(* granted, the request and the settings, and gives a route and a reason.  *)
(*                                                                         *)
(* A date range is "none", "short" (within planner_max_date_range_days) or *)
(* "wide"; the schemas refuse one that ends before it begins.              *)
(***************************************************************************)
EXTENDS MetricRegistry, Naturals

CONSTANTS
  Branch,     \* branch ids with a number in them, as "branch_7"
  OtherName   \* strings that may stand for a branch id and have none

ASSUME BranchNames == Branch \cap OtherName = {} /\ "*" \notin Branch \cup OtherName

AnalysisIntent == {"metric_total", "breakdown", "trend", "comparison", "ranking",
                   "smalltalk", "clarify", "unsupported"}
RetrievalMode  == {"total", "breakdown", "timeseries"}
ReportType     == {"sales_total", "order_count", "average_check", "sales_by_source"}
BusinessKind   == {"item_performance", "customer_summary", "receipt_summary"}
ExportMode     == {"csv", "xlsx", "pdf"}
DateRange      == {"none", "short", "wide"}
ToolOperation  == {"resolve_scope", "run_report", "compute_scalar_metrics",
                   "fetch_total_metric", "fetch_breakdown", "fetch_timeseries",
                   "fetch_item_performance", "fetch_customer_summary",
                   "fetch_receipt_summary", "attach_breakdown_share", "top_k",
                   "bottom_k", "moving_average", "trend_slope"}
PolicyRoute    == {"prepare_legacy_report", "run_multi_report", "run_business_query",
                   "run_total", "run_comparison", "run_ranking", "run_trend",
                   "smalltalk", "clarify", "reject", "safe_answer"}
Reasons        == {"ok", "scope_denied", "clarification_required", "smalltalk",
                   "unsupported_safe_answer", "unsupported_request", "missing_retrieval",
                   "date_range_too_wide", "tool_budget_exceeded", "branch_not_allowed",
                   "export_mode_not_allowed", "dimension_not_supported_for_metric",
                   "metric_not_allowed", "dimension_not_allowed",
                   "live_metric_semantics_unresolved",
                   "live_timeseries_dimension_not_supported",
                   "live_breakdown_metric_not_supported", "live_metric_not_supported",
                   "report_not_allowed", "unsupported_retrieval_mode", "tool_not_allowed",
                   "planner_partial_multi_task", "missing_plan", "missing_scope",
                   "access_denied"}

\* ResolveScopeRequest; without one `given` is FALSE.  No branches: no restriction.
RequestType == [given : BOOLEAN, branches : SUBSET (Branch \cup OtherName),
                export : ExportMode \cup {"none"}]
\* ResolveScopeResponse; "none" before it is resolved.
ScopeType == [status : {"none", "granted", "denied"}, reports : SUBSET ReportType,
              metrics : SUBSET MetricName, dims : SUBSET DimensionName,
              tools : SUBSET ToolOperation, exports : SUBSET ExportMode,
              branches : SUBSET (Branch \cup OtherName \cup {"*"})]
\* What the planner's settings decide.
SettingsType == [mode : {"deterministic", "hybrid", "llm"}, fallback : BOOLEAN,
                 safeTopics : BOOLEAN, maxToolCalls : 1 .. 20, apiKey : BOOLEAN]
(* AnalysisPlan: its retrieval (mode "none" without one), its business      *)
(* query, whose dates go before the retrieval's, the metric of its previous *)
(* period, and what else is read.                                           *)
PlanType == [intent : AnalysisIntent \cup {"none"},
             mode : RetrievalMode \cup {"none"}, metric : MetricName,
             dim : DimensionName \cup {"none"}, dates : DateRange,
             business : BusinessKind \cup {"none"}, previous : MetricName \cup {"none"},
             ranking : {"top_k", "bottom_k", "none"}, average : BOOLEAN, slope : BOOLEAN,
             scalars : BOOLEAN, needs : BOOLEAN, question : BOOLEAN]
(* LegacyReportTask, as a list: the reports of its supported tasks, and     *)
(* whether there are others.                                                *)
TasksType == [reports : SUBSET ReportType, others : BOOLEAN]

NoScope == [status |-> "none", reports |-> {}, metrics |-> {}, dims |-> {}, tools |-> {},
            exports |-> {}, branches |-> {}]
NoTasks == [reports |-> {}, others |-> FALSE]
NoPlan  == [intent |-> "none", mode |-> "none", metric |-> "sales_total", dim |-> "none",
            dates |-> "none", business |-> "none", previous |-> "none",
            ranking |-> "none", average |-> FALSE, slope |-> FALSE, scalars |-> FALSE,
            needs |-> FALSE, question |-> FALSE]

\* The validators of AnalysisPlan and RetrievalSpec.
ValidPlan(p) ==
  /\ p.intent # "none"
  /\ p.needs => p.question
  /\ p.intent = "clarify" => p.needs
  /\ p.intent \in {"clarify", "unsupported", "smalltalk"} \/ p.mode # "none"
       \/ p.business # "none"
  /\ p.mode = "breakdown" => p.dim # "none"
  /\ p.mode \in {"total", "none"} => p.dim = "none"
Plans == {p \in PlanType : ValidPlan(p)}

-----------------------------------------------------------------------------
Decision(route, reason) == [route |-> route, reason |-> reason, report |-> "none"]
Decisions == [route : PolicyRoute, reason : Reasons, report : ReportType \cup {"none"}]

Denied(s) == s.status # "granted"
\* Mutant of BranchesAllowed: one of the branches is enough.
BranchesOverlap(r, s) ==
  "*" \in s.branches \/ r.branches = {} \/ r.branches \cap s.branches # {}
\* _missing_branch_permissions and _is_export_mode_allowed.
BranchesAllowed(r, s) == "*" \in s.branches \/ r.branches \subseteq s.branches
ExportAllowed(r, s)   == r.export = "none" \/ r.export \in s.exports

\* _estimated_tool_calls.
EstimatedToolCalls(intent) ==
  CASE intent \in {"metric_total", "breakdown"}  -> 2
    [] intent \in {"comparison", "ranking"}      -> 3
    [] intent = "trend"                          -> 4
    [] OTHER                                     -> 1

\* runtime_operations_for_intent.
RuntimeOperations(p) ==
  CASE p.intent = "metric_total" -> {"fetch_total_metric"}
    [] p.intent = "breakdown"    -> {"fetch_breakdown"}
    [] p.intent = "comparison"   ->
         {"fetch_total_metric"} \cup (IF p.scalars THEN {"compute_scalar_metrics"} ELSE {})
    [] p.intent = "ranking"      ->
         {"fetch_breakdown", "attach_breakdown_share"} \cup ({p.ranking} \ {"none"})
    [] p.intent = "trend"        ->
         {"fetch_timeseries"} \cup (IF p.average THEN {"moving_average"} ELSE {})
                              \cup (IF p.slope THEN {"trend_slope"} ELSE {})
    [] OTHER                     -> {}

\* Mutant of RequiredMetrics: the previous period is forgotten.
CurrentMetric(p) == {p.metric}
\* evaluate_planner_constraints: every metric name is registered.
RequiredMetrics(p) == {p.metric} \cup ({p.previous} \ {"none"})

\* _map_retrieval_to_report.
ReportOf(p) ==
  IF p.mode = "total" /\ p.metric \in {"sales_total", "order_count", "average_check"}
    THEN p.metric
  ELSE IF p.mode = "breakdown" /\ p.metric = "sales_total" /\ p.dim = "source"
    THEN "sales_by_source"
  ELSE "none"

\* What each executable intent wants of the retrieval, and where it leads.
FitsMode(p) ==
  CASE p.intent \in {"breakdown", "ranking"} -> p.mode = "breakdown"
    [] p.intent = "comparison"               -> p.mode = "total"
    [] p.intent = "trend"                    -> p.mode = "timeseries"
    [] OTHER                                 -> TRUE
RouteOf(intent) ==
  CASE intent = "metric_total"              -> "run_total"
    [] intent \in {"breakdown", "ranking"}  -> "run_ranking"
    [] intent = "comparison"                -> "run_comparison"
    [] OTHER                                -> "run_trend"

\* The part of evaluate_plan_policy that no intent passes by; "ok": no objection.
Objection(p, s, r, c) ==
  IF p.mode = "none" THEN Decision("clarify", "missing_retrieval")
  ELSE IF p.dates = "wide" THEN Decision("clarify", "date_range_too_wide")
  ELSE IF EstimatedToolCalls(p.intent) > c.maxToolCalls
    THEN Decision("clarify", "tool_budget_exceeded")
  ELSE IF ~ BranchesAllowed(r, s) THEN Decision("reject", "branch_not_allowed")
  ELSE IF ~ ExportAllowed(r, s) THEN Decision("reject", "export_mode_not_allowed")
  ELSE IF p.dim # "none" /\ p.dim \notin AllowedDimensions[p.metric]
    THEN Decision("reject", "dimension_not_supported_for_metric")
  ELSE IF ~ RequiredMetrics(p) \subseteq s.metrics
    THEN Decision("reject", "metric_not_allowed")
  ELSE IF p.dim # "none" /\ p.dim \notin s.dims
    THEN Decision("reject", "dimension_not_allowed")
  ELSE Decision("reject", LiveObjection(p.mode, p.metric, p.dim))

\* Mutant of DecideExecution: the operations are looked at for totals only.
DecideByMode(p, s) ==
  IF p.intent = "metric_total" /\ p.dates # "none" /\ ReportOf(p) # "none"
    THEN IF ReportOf(p) \in s.reports
           THEN [Decision("prepare_legacy_report", "ok") EXCEPT !.report = ReportOf(p)]
           ELSE Decision("reject", "report_not_allowed")
  ELSE IF ~ FitsMode(p) THEN Decision("reject", "unsupported_retrieval_mode")
  ELSE IF p.intent = "metric_total" /\ ~ RuntimeOperations(p) \subseteq s.tools
    THEN Decision("reject", "tool_not_allowed")
  ELSE Decision(RouteOf(p.intent), "ok")

\* The part of evaluate_plan_policy that is particular to each intent.
DecideExecution(p, s) ==
  IF p.intent = "metric_total" /\ p.dates # "none" /\ ReportOf(p) # "none"
    THEN IF ReportOf(p) \in s.reports
           THEN [Decision("prepare_legacy_report", "ok") EXCEPT !.report = ReportOf(p)]
           ELSE Decision("reject", "report_not_allowed")
  ELSE IF ~ FitsMode(p) THEN Decision("reject", "unsupported_retrieval_mode")
  ELSE IF ~ RuntimeOperations(p) \subseteq s.tools THEN Decision("reject", "tool_not_allowed")
  ELSE Decision(RouteOf(p.intent), "ok")

\* evaluate_plan_policy.
DecidePlan(p, s, r, c) ==
  IF Denied(s) THEN Decision("reject", "scope_denied")
  ELSE IF p.intent = "clarify" THEN Decision("clarify", "clarification_required")
  ELSE IF p.intent = "smalltalk" THEN Decision("smalltalk", "smalltalk")
  ELSE IF p.intent = "unsupported"
    THEN IF c.safeTopics THEN Decision("safe_answer", "unsupported_safe_answer")
         ELSE Decision("reject", "unsupported_request")
  ELSE IF Objection(p, s, r, c).reason # "ok" THEN Objection(p, s, r, c)
  ELSE DecideExecution(p, s)

BusinessTool(k) ==
  CASE k = "item_performance" -> "fetch_item_performance"
    [] k = "customer_summary" -> "fetch_customer_summary"
    [] OTHER                  -> "fetch_receipt_summary"

\* evaluate_business_query_policy.
DecideBusiness(p, s, r) ==
  IF Denied(s) THEN Decision("reject", "scope_denied")
  ELSE IF p.dates = "wide" THEN Decision("clarify", "date_range_too_wide")
  ELSE IF ~ BranchesAllowed(r, s) THEN Decision("reject", "branch_not_allowed")
  ELSE IF ~ ExportAllowed(r, s) THEN Decision("reject", "export_mode_not_allowed")
  ELSE IF BusinessTool(p.business) \notin s.tools THEN Decision("reject", "tool_not_allowed")
  ELSE Decision("run_business_query", "ok")

\* Mutant of DecideTasks: a denied scope is told from a missing one only.
DecideTasksLate(t, s) ==
  IF s.status = "none" THEN Decision("reject", "missing_scope")
  ELSE Decision("run_multi_report", IF t.others THEN "planner_partial_multi_task" ELSE "ok")

\* The first branch of _policy_gate_node: several reports in one question.
DecideTasks(t, s) ==
  IF s.status = "none" THEN Decision("reject", "missing_scope")
  ELSE IF s.status = "denied" THEN Decision("reject", "access_denied")
  ELSE IF ~ t.reports \subseteq s.reports THEN Decision("reject", "report_not_allowed")
  ELSE Decision("run_multi_report", IF t.others THEN "planner_partial_multi_task" ELSE "ok")

\* _policy_gate_node.
Decide(t, p, s, r, c) ==
  IF t # NoTasks THEN DecideTasks(t, s)
  ELSE IF p.intent = "none" THEN Decision("reject", "missing_plan")
  ELSE IF p.business # "none" THEN DecideBusiness(p, s, r)
  ELSE DecidePlan(p, s, r, c)
=============================================================================

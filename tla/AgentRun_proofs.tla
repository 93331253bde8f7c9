--------------------------- MODULE AgentRun_proofs ---------------------------
(***************************************************************************)
(* The agent for any requests, scopes, settings, plans and retry policies. *)
(* Of AgentGraph: what the policy admits, that nothing is read beyond it,  *)
(* and that a run implements GroundedRun.  Of LlmRetry: what it promises   *)
(* of a call.  Of AgentRun: that both hold of a run, and what the reply of *)
(* a run says of it.                                                       *)
(***************************************************************************)
EXTENDS AgentRun, TLAPS

-----------------------------------------------------------------------------
(***************************************************************************)
(* AgentGraph                                                              *)
(***************************************************************************)

(* What the decision has found out about what it admits, route by route. *)
Cleared(d, t, p, s, r) ==
  /\ d.route # "reject" => s.status = "granted"
  /\ d.route = "prepare_legacy_report" =>
       /\ d.report # "none" /\ d.report \in s.reports /\ p.dates # "none"
       /\ d.report = ReportOf(p)
  /\ d.route = "run_multi_report" => t # NoTasks /\ t.reports \subseteq s.reports
  /\ d.route = "run_business_query" =>
       p.business # "none" /\ BusinessTool(p.business) \in s.tools
  /\ d.route \in {"prepare_legacy_report", "run_total", "run_comparison", "run_ranking",
                   "run_trend"} =>
       /\ RequiredMetrics(p) \subseteq s.metrics
       /\ p.dim # "none" => p.dim \in s.dims
  /\ d.route \in {"run_total", "run_comparison", "run_ranking", "run_trend"} =>
       /\ p.mode # "none" /\ LiveObjection(p.mode, p.metric, p.dim) = "ok"
       /\ FitsMode(p) /\ RuntimeOperations(p) \subseteq s.tools
  /\ d.route \in {"prepare_legacy_report", "run_business_query", "run_total",
                   "run_comparison", "run_ranking", "run_trend"} =>
       BranchesAllowed(r, s) /\ ExportAllowed(r, s)
  /\ d.route = "run_total"      => p.intent = "metric_total"
  /\ d.route = "run_comparison" => p.intent = "comparison"
  /\ d.route = "run_ranking"    => p.intent \in {"breakdown", "ranking"}
  /\ d.route = "run_trend"      => p.intent = "trend"

AnyPlan == Plans \cup {NoPlan}

-----------------------------------------------------------------------------
(* The policy *)

LEMMA Blanks == NoScope \in ScopeType /\ NoTasks \in TasksType /\ NoPlan \in PlanType
  BY DEF NoScope, ScopeType, NoTasks, TasksType, NoPlan, PlanType, MetricName, BaseMetrics,
         RetrievalMode, BusinessKind, DateRange, AnalysisIntent

LEMMA Objections ==
  ASSUME NEW m, NEW x, NEW d
  PROVE  LiveObjection(m, x, d) \in
           {"ok", "live_metric_semantics_unresolved",
            "live_timeseries_dimension_not_supported",
            "live_breakdown_metric_not_supported", "live_metric_not_supported"}
  BY DEF LiveObjection

LEMMA ObjectionType ==
  ASSUME NEW p, NEW s, NEW r, NEW c
  PROVE  /\ Objection(p, s, r, c) \in Decisions
         /\ Objection(p, s, r, c).route \in {"clarify", "reject"}
  BY Objections, Zenon DEF Objection, Decision, Decisions, PolicyRoute, Reasons

\* No objection: every check of the code up to the intents has passed.
LEMMA Unobjected ==
  ASSUME NEW p, NEW s, NEW r, NEW c, Objection(p, s, r, c).reason = "ok"
  PROVE  /\ BranchesAllowed(r, s) /\ ExportAllowed(r, s)
         /\ p.mode # "none" /\ RequiredMetrics(p) \subseteq s.metrics
         /\ p.dim # "none" => p.dim \in s.dims
         /\ LiveObjection(p.mode, p.metric, p.dim) = "ok"
  BY DEF Objection, Decision

LEMMA Reports ==
  ASSUME NEW p PROVE ReportOf(p) \in ReportType \cup {"none"}
  BY DEF ReportOf, ReportType

LEMMA Routes ==
  ASSUME NEW i
  PROVE  /\ RouteOf(i) \in {"run_total", "run_ranking", "run_comparison", "run_trend"}
         /\ RouteOf(i) = "run_total" => i = "metric_total"
         /\ RouteOf(i) = "run_ranking" => i \in {"breakdown", "ranking"}
         /\ RouteOf(i) = "run_comparison" => i = "comparison"
  BY DEF RouteOf

LEMMA TrendRoute ==
  ASSUME NEW p \in AnyPlan, p.intent \notin {"none", "clarify", "smalltalk", "unsupported"},
         RouteOf(p.intent) = "run_trend"
  PROVE  p.intent = "trend"
  BY DEF RouteOf, AnyPlan, Plans, PlanType, AnalysisIntent, NoPlan

LEMMA DecideExecutionSound ==
  ASSUME NEW p \in AnyPlan, NEW s \in ScopeType, NEW r, NEW t, s.status = "granted",
         BranchesAllowed(r, s), ExportAllowed(r, s),
         p.intent \notin {"none", "clarify", "smalltalk", "unsupported"},
         p.mode # "none", RequiredMetrics(p) \subseteq s.metrics,
         p.dim # "none" => p.dim \in s.dims,
         LiveObjection(p.mode, p.metric, p.dim) = "ok"
  PROVE  /\ DecideExecution(p, s) \in Decisions
         /\ Cleared(DecideExecution(p, s), t, p, s, r)
<1> DEFINE d == DecideExecution(p, s)
<1>1. CASE p.intent = "metric_total" /\ p.dates # "none" /\ ReportOf(p) # "none"
  <2>1. CASE ReportOf(p) \in s.reports
    <3>1. d = [route |-> "prepare_legacy_report", reason |-> "ok", report |-> ReportOf(p)]
      BY <1>1, <2>1 DEF DecideExecution, Decision
    <3> QED BY <1>1, <2>1, <3>1, Reports DEF Cleared, Decisions, PolicyRoute, Reasons
  <2>2. CASE ReportOf(p) \notin s.reports
    <3>1. d = [route |-> "reject", reason |-> "report_not_allowed", report |-> "none"]
      BY <1>1, <2>2 DEF DecideExecution, Decision
    <3> QED BY <3>1 DEF Cleared, Decisions, PolicyRoute, Reasons
  <2> QED BY <2>1, <2>2
<1>2. CASE ~ (p.intent = "metric_total" /\ p.dates # "none" /\ ReportOf(p) # "none")
  <2>1. CASE ~ FitsMode(p)
    <3>1. d = [route |-> "reject", reason |-> "unsupported_retrieval_mode",
               report |-> "none"]
      BY <1>2, <2>1 DEF DecideExecution, Decision
    <3> QED BY <3>1 DEF Cleared, Decisions, PolicyRoute, Reasons
  <2>2. CASE FitsMode(p) /\ ~ RuntimeOperations(p) \subseteq s.tools
    <3>1. d = [route |-> "reject", reason |-> "tool_not_allowed", report |-> "none"]
      BY <1>2, <2>2 DEF DecideExecution, Decision
    <3> QED BY <3>1 DEF Cleared, Decisions, PolicyRoute, Reasons
  <2>3. CASE FitsMode(p) /\ RuntimeOperations(p) \subseteq s.tools
    <3>1. d = [route |-> RouteOf(p.intent), reason |-> "ok", report |-> "none"]
      BY <1>2, <2>3 DEF DecideExecution, Decision
    <3>2. RouteOf(p.intent) \in {"run_total", "run_ranking", "run_comparison", "run_trend"}
      BY Routes
    <3>3. d.route = RouteOf(p.intent) /\ d \in Decisions
      BY <3>1, <3>2 DEF Decisions, PolicyRoute, Reasons
    <3>4. /\ d.route = "run_total" => p.intent = "metric_total"
          /\ d.route = "run_ranking" => p.intent \in {"breakdown", "ranking"}
          /\ d.route = "run_comparison" => p.intent = "comparison"
          /\ d.route = "run_trend" => p.intent = "trend"
      BY <3>3, Routes, TrendRoute
    <3>5. Cleared(d, t, p, s, r)
      <4> HIDE DEF d
      <4> QED BY <2>3, <3>2, <3>3, <3>4 DEF Cleared
    <3> QED BY <3>3, <3>5
  <2> QED BY <2>1, <2>2, <2>3
<1> QED BY <1>1, <1>2

LEMMA DecidePlanSound ==
  ASSUME NEW p \in AnyPlan, NEW s \in ScopeType, NEW r, NEW c, NEW t, p.intent # "none"
  PROVE  /\ DecidePlan(p, s, r, c) \in Decisions
         /\ Cleared(DecidePlan(p, s, r, c), t, p, s, r)
<1> DEFINE d == DecidePlan(p, s, r, c)
<1>1. CASE Denied(s) \/ p.intent \in {"clarify", "smalltalk", "unsupported"}
  <2>1. /\ d \in Decisions
        /\ d.route \in {"reject", "clarify", "smalltalk", "safe_answer"}
        /\ d.route # "reject" => s.status = "granted"
    BY <1>1 DEF DecidePlan, Decision, Decisions, Denied, PolicyRoute, Reasons
  <2>2. Cleared(d, t, p, s, r)
    <3> HIDE DEF d
    <3> QED BY <2>1 DEF Cleared
  <2> QED BY <2>1, <2>2
<1>2. CASE ~ Denied(s) /\ p.intent \notin {"clarify", "smalltalk", "unsupported"}
  <2>1. CASE Objection(p, s, r, c).reason # "ok"
    <3>1. d = Objection(p, s, r, c) BY <1>2, <2>1 DEF DecidePlan
    <3>2. d \in Decisions /\ d.route \in {"clarify", "reject"} BY <3>1, ObjectionType
    <3>3. Cleared(d, t, p, s, r)
      <4> HIDE DEF d
      <4> QED BY <1>2, <3>2 DEF Cleared, Denied
    <3> QED BY <3>2, <3>3
  <2>2. CASE Objection(p, s, r, c).reason = "ok"
    <3>1. d = DecideExecution(p, s) BY <1>2, <2>2 DEF DecidePlan
    <3>2. /\ BranchesAllowed(r, s) /\ ExportAllowed(r, s)
          /\ p.mode # "none" /\ RequiredMetrics(p) \subseteq s.metrics
          /\ p.dim # "none" => p.dim \in s.dims
          /\ LiveObjection(p.mode, p.metric, p.dim) = "ok"
      BY <2>2, Unobjected
    <3>3. s.status = "granted" BY <1>2 DEF Denied
    <3>4. /\ DecideExecution(p, s) \in Decisions
          /\ Cleared(DecideExecution(p, s), t, p, s, r)
      BY <1>2, <3>2, <3>3, DecideExecutionSound
    <3> QED BY <3>1, <3>4
  <2> QED BY <2>1, <2>2
<1> QED BY <1>1, <1>2

LEMMA DecideBusinessSound ==
  ASSUME NEW p \in AnyPlan, NEW s \in ScopeType, NEW r, NEW t, p.business # "none"
  PROVE  /\ DecideBusiness(p, s, r) \in Decisions
         /\ Cleared(DecideBusiness(p, s, r), t, p, s, r)
<1> DEFINE d == DecideBusiness(p, s, r)
<1>1. /\ d \in Decisions
      /\ d.route \in {"reject", "clarify", "run_business_query"}
      /\ d.route # "reject" => s.status = "granted"
      /\ d.route = "run_business_query" =>
           /\ BranchesAllowed(r, s) /\ ExportAllowed(r, s)
           /\ BusinessTool(p.business) \in s.tools
  BY DEF DecideBusiness, Decision, Decisions, Denied, PolicyRoute, Reasons
<1>2. Cleared(d, t, p, s, r)
  <2> HIDE DEF d
  <2> QED BY <1>1 DEF Cleared
<1> QED BY <1>1, <1>2

LEMMA DecideTasksSound ==
  ASSUME NEW t \in TasksType, NEW p, NEW s \in ScopeType, NEW r, t # NoTasks
  PROVE  /\ DecideTasks(t, s) \in Decisions
         /\ Cleared(DecideTasks(t, s), t, p, s, r)
<1> DEFINE d == DecideTasks(t, s)
<1>1. /\ d \in Decisions
      /\ d.route \in {"reject", "run_multi_report"}
      /\ d.route # "reject" => s.status = "granted" /\ t.reports \subseteq s.reports
  BY DEF DecideTasks, Decision, Decisions, PolicyRoute, Reasons, ScopeType
<1>2. Cleared(d, t, p, s, r)
  <2> HIDE DEF d
  <2> QED BY <1>1 DEF Cleared
<1> QED BY <1>1, <1>2

(* Whatever is decided, what it leads to has been looked at: for a list of  *)
(* tasks, that the user has the reports, and no more than that; for a plan, *)
(* the metrics of both periods, the dimension, the branches and the export, *)
(* and the report or the operations.                                        *)
THEOREM PolicySound ==
  ASSUME NEW t \in TasksType, NEW p \in AnyPlan, NEW s \in ScopeType, NEW r, NEW c
  PROVE  /\ Decide(t, p, s, r, c) \in Decisions
         /\ Cleared(Decide(t, p, s, r, c), t, p, s, r)
<1> DEFINE d == Decide(t, p, s, r, c)
<1>1. CASE t # NoTasks
  BY <1>1, DecideTasksSound DEF Decide
<1>2. CASE t = NoTasks /\ p.intent = "none"
  <2>1. d = [route |-> "reject", reason |-> "missing_plan", report |-> "none"]
    BY <1>2 DEF Decide, Decision
  <2> QED BY <2>1 DEF Cleared, Decisions, PolicyRoute, Reasons
<1>3. CASE t = NoTasks /\ p.intent # "none" /\ p.business # "none"
  BY <1>3, DecideBusinessSound DEF Decide
<1>4. CASE t = NoTasks /\ p.intent # "none" /\ p.business = "none"
  BY <1>4, DecidePlanSound DEF Decide
<1> QED BY <1>1, <1>2, <1>3, <1>4

-----------------------------------------------------------------------------
(* The inductive invariant *)

Nowhere == {"resolve_scope", "plan_analysis", "policy_gate", "raised", "end"}

ScopeInv ==
  /\ pc = "resolve_scope" => scope = NoScope
  /\ scope.status = "granted" => request.given
\* The rules compare a metric with itself.
PlanInv ==
  /\ tasks # NoTasks => tasks.reports # {}
  /\ source # "llm" /\ plan.intent = "comparison" => plan.previous = plan.metric
\* From the gate on, what was decided stands.
RouteInv ==
  /\ pc \notin Nowhere =>
       /\ route # "none"
       /\ Cleared([route |-> route, report |-> report], tasks, plan, scope, request)
  /\ pc \in PolicyRoute => pc = route
  /\ pc \in {"run_report", "calc_metrics"} => route = "prepare_legacy_report"
CallInv ==
  /\ WithinGrant /\ WithinBranches
  /\ pc \notin {"calc_metrics", "compose_answer", "end", "raised"} =>
       calls = {} /\ used = {} /\ ~ reported /\ ~ summary
  /\ pc = "calc_metrics" => reported /\ calls # {}
  /\ pc = "compose_answer" =>
       scope.status = "granted" /\ (reported \/ summary <=> calls # {})

Inv == TypeOK /\ ScopeInv /\ PlanInv /\ RouteInv /\ CallInv

Sound(p) == /\ p \in PlanType /\ ValidPlan(p)
            /\ p.intent = "comparison" => p.previous = p.metric

LEMMA RulesPlan == \A p \in Preplanned \cup ReadByRules : Sound(p)
<1> USE DEF Sound
<1>1. "sales_total" \in MetricName BY DEF MetricName, BaseMetrics
<1>2. /\ \A m \in Metrics : m \in MetricName
      /\ \A d \in Dims : d \in DimensionName /\ d # "none"
      /\ "day" \in DimensionName
  BY GraphInputs DEF DimensionName
<1>3. ASSUME NEW i \in AnalysisIntent, NEW mode \in RetrievalMode \cup {"none"},
             NEW m \in MetricName, NEW d \in DimensionName \cup {"none"},
             NEW w \in DateRange, NEW b \in BusinessKind \cup {"none"},
             NEW k \in {"top_k", "bottom_k", "none"},
             mode # "none" \/ b # "none" \/ i \in {"clarify", "unsupported", "smalltalk"},
             mode = "breakdown" => d # "none", mode \in {"total", "none"} => d = "none"
      PROVE  Sound(Reading(i, mode, m, d, w, b, k))
  <2> DEFINE r == Reading(i, mode, m, d, w, b, k)
  <2>1. r \in PlanType
    BY <1>1, <1>3 DEF Reading, PlanType
  <2>2. /\ r.intent = i /\ r.mode = mode /\ r.metric = m /\ r.dim = d /\ r.business = b
        /\ r.previous = (IF i = "comparison" THEN m ELSE "none")
    BY DEF Reading
  <2>3. r.needs = (i = "clarify") /\ r.question = (i = "clarify")
    BY DEF Reading
  <2> HIDE DEF r
  <2>4. ValidPlan(r) /\ (r.intent = "comparison" => r.previous = r.metric)
    BY <1>3, <2>2, <2>3 DEF ValidPlan, AnalysisIntent
  <2> QED BY <2>1, <2>4 DEF r
<1> HIDE DEF Sound
<1>4. \A i \in {"clarify", "unsupported", "smalltalk"} : Sound(Blank(i))
  BY <1>1, <1>3 DEF Blank, AnalysisIntent, DateRange
<1>5. \A i \in AnalysisIntent, b \in BusinessKind, w \in DateRange,
         k \in {"top_k", "bottom_k", "none"} : Sound(Business(i, b, w, k))
  BY <1>1, <1>3 DEF Business, BusinessKind
<1>6. \A i \in AnalysisIntent, w \in DateRange : \A p \in Totals(i, w) : Sound(p)
  BY <1>2, <1>3 DEF Totals, RetrievalMode
<1>7. \A w \in DateRange : \A p \in Trends(w) : Sound(p)
  BY <1>2, <1>3 DEF Trends, RetrievalMode, AnalysisIntent
<1>8. \A i \in AnalysisIntent, w \in DateRange, k \in {"top_k", "bottom_k", "none"} :
        \A p \in Breakdowns(i, w, k) : Sound(p)
  BY <1>2, <1>3 DEF Breakdowns, RetrievalMode
<1>9. ASSUME NEW p \in Preplanned PROVE Sound(p)
  BY <1>4, <1>5 DEF Preplanned, AnalysisIntent, BusinessKind
<1>10. ASSUME NEW p \in ReadByRules PROVE Sound(p)
  <2>1. CASE p \in {Blank("clarify"), Blank("unsupported")}
    BY <1>4, <2>1
  <2>2. CASE \E w \in DateRange : p \in Totals("metric_total", w) \cup Totals("comparison", w)
    BY <1>6, <2>2 DEF AnalysisIntent
  <2>3. CASE \E w \in DateRange : p \in Trends(w)
    BY <1>7, <2>3
  <2>4. CASE \E w \in DateRange :
          p \in Breakdowns("breakdown", w, "none") \cup Breakdowns("ranking", w, "top_k")
                \cup Breakdowns("ranking", w, "bottom_k")
    BY <1>8, <2>4 DEF AnalysisIntent
  <2> QED BY <1>10, <2>1, <2>2, <2>3, <2>4 DEF ReadByRules
<1> QED BY <1>9, <1>10

\* Whatever the planner comes to, the plan is a sound one.
LEMMA PlanStep ==
  ASSUME Inv, pc = "plan_analysis",
         NEW t \in TasksType, t # NoTasks => t.reports # {},
         NEW p \in AnyPlan, NEW by \in {"deterministic", "llm", "fallback"},
         by # "llm" /\ p.intent = "comparison" => p.previous = p.metric,
         NEW told \in SUBSET FallbackWarnings, Plan(t, p, by, told)
  PROVE  Inv'
<1> USE DEF Inv
<1>1. p.needs \in BOOLEAN /\ p.question \in BOOLEAN
  BY Blanks DEF AnyPlan, Plans, PlanType
<1>2. TypeOK'
  <2>1. plan' \in Plans \cup {NoPlan}
    BY DEF Plan, AnyPlan, Plans
  <2>2. warnings' \subseteq Warnings
    BY DEF Plan, TypeOK, Warnings
  <2>3. needs' \in BOOLEAN /\ question' \in BOOLEAN
    BY <1>1 DEF Plan
  <2>4. tasks' \in TasksType /\ source' \in {"none", "deterministic", "llm", "fallback"}
    BY DEF Plan
  <2>5. /\ UNCHANGED <<asked, scope, decided, status, output, error>>
        /\ pc' = "policy_gate"
    BY DEF Plan, Go
  <2> QED BY <2>1, <2>2, <2>3, <2>4, <2>5 DEF TypeOK, asked, decided, output, Nodes
<1>3. ScopeInv' /\ PlanInv' /\ RouteInv'
  BY DEF Plan, ScopeInv, PlanInv, RouteInv, Go, asked, decided, Nowhere, PolicyRoute
<1>4. CallInv'
  BY DEF Plan, CallInv, WithinGrant, WithinBranches, Permitted, Go, output
<1> QED BY <1>2, <1>3, <1>4

\* The nodes up to the gate.
LEMMA UnderstandStep == Inv /\ Understand => Inv'
<1> SUFFICES ASSUME Inv, Understand PROVE Inv'
  OBVIOUS
<1>1. Scopes \subseteq ScopeType /\ ModelPlans \subseteq AnyPlan
  BY GraphInputs DEF AnyPlan, Plans
<1>2. Preplanned \cup ReadByRules \subseteq AnyPlan
  BY RulesPlan DEF Sound, AnyPlan, Plans
<1>3. CASE MissScopeRequest
  <2> USE DEF Inv
  <2>1. TypeOK'
    BY <1>3 DEF MissScopeRequest, TypeOK, Go, asked, planned, output, Nodes, Warnings,
                PolicyRoute
  <2>2. ScopeInv' /\ PlanInv' /\ RouteInv'
    BY <1>3 DEF MissScopeRequest, ScopeInv, PlanInv, RouteInv, Go, asked, output, planned,
                Nowhere, PolicyRoute
  <2>3. CallInv'
    BY <1>3 DEF MissScopeRequest, CallInv, WithinGrant, WithinBranches, Permitted, Go, output
  <2> QED BY <2>1, <2>2, <2>3
<1>4. CASE ResolveScope
  <2> USE DEF Inv
  <2>1. TypeOK'
    BY <1>4 DEF ResolveScope, TypeOK, Go, asked, output, planned, decided, answer, Nodes
  <2>2. ScopeInv' /\ PlanInv' /\ RouteInv'
    BY <1>4 DEF ResolveScope, ScopeInv, PlanInv, RouteInv, Go, asked, output, planned,
                decided, Nowhere, PolicyRoute
  <2>3. CallInv'
    BY <1>4 DEF ResolveScope, CallInv, WithinGrant, WithinBranches, Permitted, Go, output
  <2> QED BY <2>1, <2>2, <2>3
<1>5. CASE PlanTasks
  <2>1. PICK t \in [reports : SUBSET {"sales_total", "order_count", "average_check"},
                    others : BOOLEAN] :
          t.reports # {} /\ Plan(t, NoPlan, "deterministic", {})
    BY <1>5 DEF PlanTasks
  <2>2. t \in TasksType
    BY DEF TasksType, ReportType
  <2>3. NoPlan \in AnyPlan /\ NoPlan.intent # "comparison"
    BY DEF AnyPlan, Plans, NoPlan
  <2> QED BY <1>5, <2>1, <2>2, <2>3, PlanStep DEF PlanTasks
<1>6. CASE PlanPreplanned \/ PlanDeterministic
  <2>1. PICK p \in Preplanned \cup ReadByRules : Plan(NoTasks, p, "deterministic", {})
    BY <1>6 DEF PlanPreplanned, PlanDeterministic
  <2>2. p \in AnyPlan /\ (p.intent = "comparison" => p.previous = p.metric)
    BY <1>2, RulesPlan DEF Sound
  <2> QED BY <1>6, <2>1, <2>2, Blanks, PlanStep DEF PlanPreplanned, PlanDeterministic
<1>7. CASE PlanWithModel
  <2>1. PICK p \in ModelPlans : Plan(NoTasks, p, "llm", {})
    BY <1>7 DEF PlanWithModel
  <2>2. p \in AnyPlan
    BY <1>1
  <2> QED BY <1>7, <2>1, <2>2, Blanks, PlanStep DEF PlanWithModel
<1>8. CASE PlanFallback
  <2>1. PICK p \in ReadByRules, told \in FallbackWarnings :
          Plan(NoTasks, p, "fallback", {told})
    BY <1>8 DEF PlanFallback
  <2>2. p \in AnyPlan /\ (p.intent = "comparison" => p.previous = p.metric)
    BY <1>2, RulesPlan DEF Sound
  <2> QED BY <1>8, <2>1, <2>2, Blanks, PlanStep DEF PlanFallback
<1>9. CASE PlannerRaises \/ RulesRaise
  <2> USE DEF Inv
  <2>1. TypeOK'
    BY <1>9 DEF PlannerRaises, RulesRaise, TypeOK, Raise, asked, output, planned, decided,
                answer, Nodes, Errors
  <2>2. ScopeInv' /\ PlanInv' /\ RouteInv'
    BY <1>9 DEF PlannerRaises, RulesRaise, ScopeInv, PlanInv, RouteInv, Raise, asked,
                planned, decided, Nowhere, PolicyRoute
  <2>3. CallInv'
    BY <1>9 DEF PlannerRaises, RulesRaise, CallInv, WithinGrant, WithinBranches,
                Permitted, Raise, output
  <2> QED BY <2>1, <2>2, <2>3
<1> QED BY <1>3, <1>4, <1>5, <1>6, <1>7, <1>8, <1>9 DEF Understand

\* The gate, and the branch after it.
LEMMA AdmitStep == Inv /\ Admit => Inv'
<1> SUFFICES ASSUME Inv, Admit PROVE Inv'
  OBVIOUS
<1> USE DEF Inv
<1>1. CASE PolicyGate
  <2>1. plan \in AnyPlan /\ tasks \in TasksType /\ scope \in ScopeType
    BY Blanks, GraphInputs DEF AnyPlan, Plans, TypeOK
  <2>2. Decided \in Decisions /\ Cleared(Decided, tasks, plan, scope, request)
    BY <2>1, PolicySound DEF Decided
  <2> DEFINE d == [route |-> Decided.route, report |-> Decided.report]
  <2>3. Cleared(d, tasks, plan, scope, request)
    <3>1. d.route = Decided.route /\ d.report = Decided.report OBVIOUS
    <3> HIDE DEF d
    <3> QED BY <2>2, <3>1 DEF Cleared
  <2>4. /\ route' = Decided.route /\ report' = Decided.report
        /\ warnings' = warnings \cup ({Decided.reason} \ {"ok"})
        /\ pc = "policy_gate" /\ pc' = "route_decision"
        /\ UNCHANGED <<request, settings, scope, tasks, plan, source, status, needs, question,
                      reported, summary, calls, used, error>>
    BY <1>1 DEF PolicyGate, Go, asked, planned, answer, output
  <2>5. TypeOK'
    <3>1. route' \in PolicyRoute /\ report' \in ReportType \cup {"none"}
      BY <2>2, <2>4 DEF Decisions
    <3>2. warnings' \subseteq Warnings
      BY <2>2, <2>4 DEF TypeOK, Warnings, Decisions
    <3> QED BY <2>4, <3>1, <3>2 DEF TypeOK, Nodes
  <2>6. ScopeInv' /\ PlanInv'
    BY <2>4 DEF ScopeInv, PlanInv
  <2>7. RouteInv'
    <3>1. route' # "none" BY <2>2, <2>4 DEF Decisions, PolicyRoute
    <3>2. Cleared([route |-> route, report |-> report], tasks, plan, scope, request)'
      BY <2>3, <2>4
    <3> QED BY <2>4, <3>1, <3>2 DEF RouteInv, PolicyRoute
  <2>8. CallInv'
    BY <2>4 DEF CallInv, WithinGrant, WithinBranches, Permitted
  <2> QED BY <2>5, <2>6, <2>7, <2>8
<1>2. CASE RouteDecision
  <2>1. /\ pc = "route_decision" /\ pc' = route
        /\ UNCHANGED <<request, settings, scope, tasks, plan, source, route, report, status,
                      needs, question, reported, summary, calls, used, warnings, error>>
    BY <1>2 DEF RouteDecision, Go, asked, planned, decided, answer, output
  <2>2. route \in PolicyRoute
    BY <2>1 DEF TypeOK, RouteInv, Nowhere
  <2>3. TypeOK'
    BY <2>1, <2>2 DEF TypeOK, Nodes
  <2>4. ScopeInv' /\ PlanInv'
    BY <2>1, <2>2 DEF ScopeInv, PlanInv, PolicyRoute
  <2>5. RouteInv'
    <3>1. Cleared([route |-> route, report |-> report], tasks, plan, scope, request)'
      BY <2>1 DEF RouteInv, Nowhere
    <3> QED BY <2>1, <2>2, <3>1 DEF RouteInv, PolicyRoute
  <2>6. CallInv'
    BY <2>1, <2>2 DEF CallInv, WithinGrant, WithinBranches, Permitted, PolicyRoute
  <2> QED BY <2>3, <2>4, <2>5, <2>6
<1> QED BY <1>1, <1>2 DEF Admit

-----------------------------------------------------------------------------
(* What a node asks for *)

\* A call the scope allows, and of the branches it names.
Allowed(c) ==
  /\ Permitted(c)
  /\ scope.branches # {} /\ scope.branches \subseteq Branch /\ c.tool # "run_report" =>
       c.branches # {} /\ c.branches \subseteq scope.branches

LEMMA Fetched ==
  ASSUME scope.status = "granted", BranchesAllowed(request, scope),
         ExportAllowed(request, scope),
         NEW tool \in ToolOperation \ {"run_report"},
         tool \in scope.tools, NEW what \in (MetricName \cap scope.metrics) \cup BusinessKind,
         NEW dim \in (DimensionName \cap scope.dims) \cup {"none"}
  PROVE  /\ Fetch(tool, what, dim) \subseteq CallType /\ Fetch(tool, what, dim) # {}
         /\ \A c \in Fetch(tool, what, dim) : Allowed(c)
<1>1. ScopedBranches \in SUBSET Branch
  BY DEF ScopedBranches
<1> DEFINE c == Call(tool, what, dim, ScopedBranches)
<1>2. c \in CallType
  BY <1>1 DEF Call, CallType
<1>3. scope.branches # {} /\ scope.branches \subseteq Branch =>
        ScopedBranches # {} /\ ScopedBranches \subseteq scope.branches
  BY BranchNames DEF ScopedBranches, BranchesAllowed
<1>4. what # "sales_by_source"
  BY DEF MetricName, BaseMetrics, DerivedMetrics, BusinessKind
<1>5. /\ "*" \in scope.branches \/ request.branches \subseteq scope.branches
      /\ request.export \in scope.exports \cup {"none"}
  BY DEF BranchesAllowed, ExportAllowed
<1>6. Allowed(c)
  BY <1>3, <1>4, <1>5 DEF Allowed, Permitted, MetricOf, DimOf, Call
<1> QED BY <1>2, <1>6 DEF Fetch

\* What the gate looks at when a report is the plan's.
ReportCleared(r) ==
  /\ r = ReportOf(plan) /\ r # "none" /\ plan.metric \in scope.metrics
  /\ plan.dim \in scope.dims \cup {"none"}
  /\ BranchesAllowed(request, scope) /\ ExportAllowed(request, scope)

LEMMA Reported ==
  ASSUME scope.status = "granted", NEW rs \in SUBSET (ReportType \cap scope.reports),
         tasks # NoTasks \/ \A r \in rs : ReportCleared(r)
  PROVE  /\ Reporting(rs) \subseteq CallType /\ (rs # {} => Reporting(rs) # {})
         /\ \A c \in Reporting(rs) : Allowed(c)
<1>1. ASSUME NEW r \in rs
      PROVE  Call("run_report", r, "none", {}) \in CallType
             /\ Allowed(Call("run_report", r, "none", {}))
  <2> DEFINE c == Call("run_report", r, "none", {})
  <2>1. c \in CallType /\ c.tool = "run_report" /\ c.what = r /\ c.dim = "none"
    BY DEF Call, CallType, ToolOperation
  <2> HIDE DEF c
  <2>2. CASE tasks # NoTasks
    BY <2>1, <2>2 DEF Allowed, Permitted, c
  <2>3. CASE ReportCleared(r)
    <3>1. MetricOf(c) = plan.metric /\ DimOf(c) \in {plan.dim, "none"}
      BY <2>1, <2>3 DEF ReportCleared, ReportOf, MetricOf, DimOf
    <3>2. /\ "*" \in scope.branches \/ request.branches \subseteq scope.branches
          /\ request.export \in scope.exports \cup {"none"}
      BY <2>3 DEF ReportCleared, BranchesAllowed, ExportAllowed
    <3> QED BY <2>1, <2>3, <3>1, <3>2 DEF ReportCleared, Allowed, Permitted, c
  <2> QED BY <2>2, <2>3
<1> QED BY <1>1 DEF Reporting

\* A node asks for what is permitted, and has its summary or breaks.
Ran ==
  \E cs \in SUBSET CallType, ts \in SUBSET ToolOperation :
    /\ cs # {} /\ \A c \in cs : Allowed(c)
    /\ ts \ {"compute_scalar_metrics"} \subseteq scope.tools
    /\ Summarise(cs, ts) \/ \E e \in Errors : Break(cs, ts, e)

\* What the gate has seen to when a plan of the four intents is executed.
LEMMA Cleared4 ==
  ASSUME Inv, pc \in {"run_total", "run_comparison", "run_ranking", "run_trend"}
  PROVE  /\ scope.status = "granted" /\ plan \in PlanType
         /\ BranchesAllowed(request, scope) /\ ExportAllowed(request, scope)
         /\ plan.metric \in MetricName \cap scope.metrics
         /\ plan.previous # "none" => plan.previous \in MetricName \cap scope.metrics
         /\ plan.dim \in (DimensionName \cap scope.dims) \cup {"none"}
         /\ LiveObjection(plan.mode, plan.metric, plan.dim) = "ok"
         /\ FitsMode(plan) /\ RuntimeOperations(plan) \subseteq scope.tools
         /\ pc = "run_total" => plan.intent = "metric_total"
         /\ pc = "run_comparison" => plan.intent = "comparison"
         /\ pc = "run_ranking" => plan.intent \in {"breakdown", "ranking"}
         /\ pc = "run_trend" => plan.intent = "trend"
<1> DEFINE d == [route |-> route, report |-> report]
<1>1. Cleared(d, tasks, plan, scope, request) /\ pc = route
  BY DEF Inv, RouteInv, Nowhere, PolicyRoute
<1>2. d.route = pc
  BY <1>1
<1>3. plan \in PlanType
  BY Blanks DEF Inv, TypeOK, Plans
<1>4. plan.metric \in MetricName /\ plan.previous \in MetricName \cup {"none"}
      /\ plan.dim \in DimensionName \cup {"none"}
  BY <1>3 DEF PlanType
<1> HIDE DEF d
<1> QED BY <1>1, <1>2, <1>3, <1>4 DEF Cleared, RequiredMetrics

LEMMA TotalRan == Inv /\ RunTotal => Ran
<1> SUFFICES ASSUME Inv, RunTotal PROVE Ran
  OBVIOUS
<1> DEFINE read == Fetch("fetch_total_metric", plan.metric, "none")
<1>1. pc = "run_total" BY DEF RunTotal
<1>2. "fetch_total_metric" \in scope.tools
  BY <1>1, Cleared4 DEF RuntimeOperations
<1>3. read \in SUBSET CallType /\ read # {} /\ \A c \in read : Allowed(c)
  BY <1>1, <1>2, Cleared4, Fetched DEF ToolOperation
<1>4. Scalars \in SUBSET ToolOperation /\ Scalars \ {"compute_scalar_metrics"} = {}
  BY DEF Scalars, ToolOperation
<1>5. \/ \E e \in Errors : Break(read, {}, e)
      \/ Summarise(read, Scalars)
  BY DEF RunTotal, Refuse, Fail, FailOn, Errors
<1> HIDE DEF read
<1> QED BY <1>3, <1>4, <1>5 DEF Ran

LEMMA ComparisonRan == Inv /\ RunComparison => Ran
<1> SUFFICES ASSUME Inv, RunComparison PROVE Ran
  OBVIOUS
<1> DEFINE current == Fetch("fetch_total_metric", plan.metric, "none")
           earlier == Fetch("fetch_total_metric", plan.previous, "none")
           both == current \cup earlier
<1>1. pc = "run_comparison" /\ plan.previous # "none" BY DEF RunComparison
<1>2. "fetch_total_metric" \in scope.tools
  BY <1>1, Cleared4 DEF RuntimeOperations
<1>3. current \in SUBSET CallType /\ current # {} /\ \A c \in current : Allowed(c)
  BY <1>1, <1>2, Cleared4, Fetched DEF ToolOperation
<1>4. earlier \in SUBSET CallType /\ \A c \in earlier : Allowed(c)
  BY <1>1, <1>2, Cleared4, Fetched DEF ToolOperation
<1>5. Scalars \in SUBSET ToolOperation /\ Scalars \ {"compute_scalar_metrics"} = {}
  BY DEF Scalars, ToolOperation
<1>6. \/ \E e \in Errors : Break(current, {}, e) \/ Break(both, {}, e)
      \/ Summarise(both, Scalars)
  BY DEF RunComparison, Refuse, Fail, FailOn, Errors
<1> HIDE DEF current, earlier
<1>7. both \in SUBSET CallType /\ both # {} /\ \A c \in both : Allowed(c)
  BY <1>3, <1>4
<1> HIDE DEF both
<1> QED BY <1>3, <1>5, <1>6, <1>7 DEF Ran

LEMMA RankingRan == Inv /\ RunRanking => Ran
<1> SUFFICES ASSUME Inv, RunRanking PROVE Ran
  OBVIOUS
<1> DEFINE read == Fetch("fetch_breakdown", plan.metric, plan.dim)
           share == IF plan.intent = "ranking" THEN {"attach_breakdown_share"} ELSE {}
           ranked == IF plan.intent = "ranking" THEN {plan.ranking} \ {"none"} ELSE {}
<1>1. pc = "run_ranking" BY DEF RunRanking
<1>2. "fetch_breakdown" \in scope.tools /\ share \subseteq scope.tools
      /\ ranked \subseteq scope.tools
  BY <1>1, Cleared4 DEF RuntimeOperations
<1>3. read \in SUBSET CallType /\ read # {} /\ \A c \in read : Allowed(c)
  BY <1>1, <1>2, Cleared4, Fetched DEF ToolOperation
<1>4. share \in SUBSET ToolOperation /\ ranked \in SUBSET ToolOperation
  BY <1>1, Cleared4 DEF PlanType, ToolOperation
<1>5. \/ \E e \in Errors : Break(read, {}, e) \/ Break(read, share, e)
      \/ Summarise(read, share \cup ranked)
  BY DEF RunRanking, Refuse, Fail, FailOn, Errors
<1> HIDE DEF read, share, ranked
<1> QED BY <1>2, <1>3, <1>4, <1>5 DEF Ran

LEMMA TrendRan == Inv /\ RunTrend => Ran
<1> SUFFICES ASSUME Inv, RunTrend PROVE Ran
  OBVIOUS
<1> DEFINE read == Fetch("fetch_timeseries", plan.metric, "day")
<1>1. pc = "run_trend" BY DEF RunTrend
<1>2. /\ "fetch_timeseries" \in scope.tools
      /\ plan.average => "moving_average" \in scope.tools
      /\ plan.slope => "trend_slope" \in scope.tools
  BY <1>1, Cleared4 DEF RuntimeOperations
<1>3. "day" \in DimensionName \cap scope.dims
  <2>1. plan.mode = "timeseries" BY <1>1, Cleared4 DEF FitsMode
  <2>2. plan.dim = "day" BY <1>1, <2>1, Cleared4 DEF LiveObjection
  <2> QED BY <1>1, <2>2, Cleared4
<1>4. read \in SUBSET CallType /\ read # {} /\ \A c \in read : Allowed(c)
  BY <1>1, <1>2, <1>3, Cleared4, Fetched DEF ToolOperation
<1>5. \/ \E e \in Errors : Break(read, {}, e)
      \/ \E ts \in SUBSET {"moving_average", "trend_slope"} :
           /\ "moving_average" \in ts => plan.average
           /\ "trend_slope" \in ts => plan.slope
           /\ Summarise(read, ts)
  BY DEF RunTrend, Refuse, Fail, FailOn, Errors
<1>6. \A ts \in SUBSET {"moving_average", "trend_slope"} : ts \in SUBSET ToolOperation
  BY DEF ToolOperation
<1> HIDE DEF read
<1> QED BY <1>2, <1>4, <1>5, <1>6 DEF Ran

LEMMA BusinessRan == Inv /\ RunBusinessQuery => Ran
<1> SUFFICES ASSUME Inv, RunBusinessQuery PROVE Ran
  OBVIOUS
<1> DEFINE read == Fetch(BusinessTool(plan.business), plan.business, "none")
           d == [route |-> route, report |-> report]
<1>1. pc = "run_business_query" BY DEF RunBusinessQuery
<1>2. Cleared(d, tasks, plan, scope, request) /\ d.route = "run_business_query"
  BY <1>1 DEF Inv, RouteInv, Nowhere, PolicyRoute
<1>3. /\ scope.status = "granted" /\ plan.business # "none"
      /\ BranchesAllowed(request, scope) /\ ExportAllowed(request, scope)
      /\ BusinessTool(plan.business) \in scope.tools
  <2> HIDE DEF d
  <2> QED BY <1>2 DEF Cleared
<1>4. plan.business \in BusinessKind
  BY <1>3, Blanks DEF Inv, TypeOK, Plans, PlanType
<1>5. BusinessTool(plan.business) \in ToolOperation \ {"run_report"}
  BY DEF BusinessTool, ToolOperation
<1>6. read \in SUBSET CallType /\ read # {} /\ \A c \in read : Allowed(c)
  BY <1>3, <1>4, <1>5, Fetched
<1>7. (\E e \in Errors : Break(read, {}, e)) \/ Summarise(read, {})
  BY DEF RunBusinessQuery, Fail, Errors
<1> HIDE DEF read
<1> QED BY <1>6, <1>7 DEF Ran

LEMMA MultiReportRan == Inv /\ RunMultiReport => Ran
<1> SUFFICES ASSUME Inv, RunMultiReport PROVE Ran
  OBVIOUS
<1> DEFINE d == [route |-> route, report |-> report]
<1>1. pc = "run_multi_report" BY DEF RunMultiReport
<1>2. Cleared(d, tasks, plan, scope, request) /\ d.route = "run_multi_report"
  BY <1>1 DEF Inv, RouteInv, Nowhere, PolicyRoute
<1>3. scope.status = "granted" /\ tasks # NoTasks /\ tasks.reports \subseteq scope.reports
  <2> HIDE DEF d
  <2> QED BY <1>2 DEF Cleared
<1>4. tasks.reports # {} /\ tasks.reports \subseteq ReportType
  BY <1>3 DEF Inv, PlanInv, TypeOK, TasksType
<1>5. ASSUME NEW rs \in SUBSET tasks.reports, rs # {}
      PROVE  /\ Reporting(rs) \in SUBSET CallType /\ Reporting(rs) # {}
             /\ \A c \in Reporting(rs) : Allowed(c)
  BY <1>3, <1>4, <1>5, Reported
<1>6. ASSUME NEW rs
      PROVE  Computed(rs) \in SUBSET ToolOperation
             /\ Computed(rs) \ {"compute_scalar_metrics"} = {}
  BY DEF Computed, ToolOperation
<1>7. CASE \E rs \in SUBSET tasks.reports : \E ts \in {{}, Computed(rs)} :
             rs # {} /\ Break(Reporting(rs), ts, "backend")
  <2>1. PICK rs \in SUBSET tasks.reports : \E ts \in {{}, Computed(rs)} :
          rs # {} /\ Break(Reporting(rs), ts, "backend")
    BY <1>7
  <2>2. PICK ts \in {{}, Computed(rs)} : Break(Reporting(rs), ts, "backend")
    BY <2>1
  <2>3. ts \in SUBSET ToolOperation /\ ts \ {"compute_scalar_metrics"} = {}
    BY <1>6
  <2> QED BY <1>5, <2>1, <2>2, <2>3 DEF Ran, Errors
<1>8. CASE Summarise(Reporting(tasks.reports), Computed(tasks.reports))
  BY <1>4, <1>5, <1>6, <1>8 DEF Ran
<1> QED BY <1>7, <1>8 DEF RunMultiReport

\* Asking for what is permitted leaves no more than what is permitted.
LEMMA Asks ==
  ASSUME Inv, NEW cs \in SUBSET CallType, NEW ts \in SUBSET ToolOperation,
         \A c \in cs : Allowed(c), ts \ {"compute_scalar_metrics"} \subseteq scope.tools,
         Asking(cs, ts)
  PROVE  /\ WithinGrant' /\ WithinBranches'
         /\ calls' \subseteq CallType /\ used' \subseteq ToolOperation
         /\ calls' = calls \cup cs
         /\ UNCHANGED <<request, settings, scope, tasks, plan, source, route, report,
                       status, needs, question>>
<1>1. /\ calls' = calls \cup cs /\ used' = used \cup ts
      /\ UNCHANGED <<request, settings, scope, tasks, plan, source, route, report,
                    status, needs, question>>
  BY DEF Asking, asked, planned, decided, answer
<1>2. (\A c \in calls' : Permitted(c)') /\ WithinBranches'
  BY <1>1 DEF Inv, CallInv, WithinGrant, WithinBranches, Allowed, Permitted
<1>3. (used \ {"compute_scalar_metrics"} \subseteq scope.tools)'
  BY <1>1 DEF Inv, CallInv, WithinGrant
<1> QED BY <1>1, <1>2, <1>3 DEF Inv, TypeOK, WithinGrant

LEMMA RanStep ==
  ASSUME Inv, Ran, pc \in RunNodes \cup {"run_multi_report"}
  PROVE  Inv'
<1>1. PICK cs \in SUBSET CallType, ts \in SUBSET ToolOperation :
        /\ cs # {} /\ \A c \in cs : Allowed(c)
        /\ ts \ {"compute_scalar_metrics"} \subseteq scope.tools
        /\ Summarise(cs, ts) \/ \E e \in Errors : Break(cs, ts, e)
  BY DEF Ran
<1>2. /\ WithinGrant' /\ WithinBranches'
      /\ calls' \subseteq CallType /\ used' \subseteq ToolOperation
      /\ calls' # {}
      /\ UNCHANGED <<request, settings, scope, tasks, plan, source, route, report,
                    status, needs, question>>
  BY <1>1, Asks DEF Summarise, Break
<1>3. \/ pc' = "compose_answer" /\ summary' = TRUE /\ UNCHANGED <<reported, warnings, error>>
      \/ pc' = "raised" /\ error' \in Errors /\ UNCHANGED <<reported, summary, warnings>>
  BY <1>1 DEF Summarise, Break, Raise, Go
<1>4. scope.status = "granted"
  BY <1>1 DEF Allowed, Permitted
<1>5. /\ route # "none"
      /\ Cleared([route |-> route, report |-> report], tasks, plan, scope, request)
  BY DEF Inv, RouteInv, Nowhere, RunNodes
<1>6. TypeOK'
  <2>1. pc' \in Nodes /\ error' \in Errors /\ warnings' \subseteq Warnings
        /\ reported' \in BOOLEAN /\ summary' \in BOOLEAN
    BY <1>3 DEF Inv, TypeOK, Nodes
  <2> QED BY <1>2, <2>1 DEF Inv, TypeOK
<1>7. ScopeInv' /\ PlanInv'
  BY <1>2, <1>3 DEF Inv, ScopeInv, PlanInv
<1>8. RouteInv'
  <2>1. Cleared([route |-> route, report |-> report], tasks, plan, scope, request)'
    BY <1>2, <1>5
  <2> QED BY <1>2, <1>3, <1>5, <2>1 DEF RouteInv, PolicyRoute
<1>9. CallInv'
  BY <1>2, <1>3, <1>4 DEF CallInv
<1> QED BY <1>6, <1>7, <1>8, <1>9 DEF Inv

LEMMA ReportAllowed ==
  ASSUME Inv, pc \in {"prepare_legacy_report", "run_report", "calc_metrics"}
  PROVE  /\ route = "prepare_legacy_report" /\ scope.status = "granted"
         /\ report \in ReportType \cap scope.reports /\ plan.dates # "none"
         /\ ReportCleared(report)
<1> DEFINE d == [route |-> route, report |-> report]
<1>1. Cleared(d, tasks, plan, scope, request) /\ route = "prepare_legacy_report"
  BY DEF Inv, RouteInv, Nowhere, PolicyRoute
<1>2. d.route = "prepare_legacy_report" /\ d.report = report
  BY <1>1
<1>3. report \in ReportType \cup {"none"}
  BY DEF Inv, TypeOK
<1> HIDE DEF d
<1> QED BY <1>1, <1>2, <1>3 DEF Cleared, ReportCleared, RequiredMetrics

\* The two nodes around run_report, and the comparison without a previous period.
LEMMA PassStep == Inv /\ (PrepareLegacyReport \/ CalcMetrics \/ ComparisonWithoutPrevious) => Inv'
<1> SUFFICES ASSUME Inv, PrepareLegacyReport \/ CalcMetrics \/ ComparisonWithoutPrevious
             PROVE  Inv'
  OBVIOUS
<1>1. /\ UNCHANGED <<request, settings, scope, tasks, plan, source, route, report,
                     needs, question, reported, summary, calls, error>>
      /\ \/ pc = "prepare_legacy_report" /\ pc' = "run_report"
         \/ pc = "calc_metrics" /\ pc' = "compose_answer"
         \/ pc = "run_comparison" /\ pc' = "compose_answer"
      /\ used' \in {used, used \cup {"compute_scalar_metrics"}}
      /\ pc' = "run_report" => used' = used
      /\ status' \in {status, "failed"}
      /\ warnings' \subseteq warnings \cup {"calc_no_formulas_selected",
                                          "comparison_missing_context"}
  BY DEF PrepareLegacyReport, CalcMetrics, ComparisonWithoutPrevious, Computed, Go,
         asked, planned, decided, answer, output
<1>2. TypeOK'
  <2>1. used' \subseteq ToolOperation /\ warnings' \subseteq Warnings
    BY <1>1 DEF Inv, TypeOK, ToolOperation, Warnings
  <2> QED BY <1>1, <2>1 DEF Inv, TypeOK, Nodes
<1>3. ScopeInv' /\ PlanInv'
  BY <1>1 DEF Inv, ScopeInv, PlanInv
<1>4. RouteInv'
  <2>1. route' # "none" /\ Cleared([route |-> route, report |-> report],
                                    tasks, plan, scope, request)'
    BY <1>1 DEF Inv, RouteInv, Nowhere
  <2>2. pc = "prepare_legacy_report" => route = "prepare_legacy_report"
    BY DEF Inv, RouteInv, PolicyRoute
  <2> QED BY <1>1, <2>1, <2>2 DEF RouteInv, PolicyRoute
<1>5. WithinGrant' /\ WithinBranches'
  BY <1>1 DEF Inv, CallInv, WithinGrant, WithinBranches, Permitted
<1>6. scope.status = "granted"
  BY <1>1, ReportAllowed, Cleared4
<1>7. CallInv'
  BY <1>1, <1>5, <1>6 DEF Inv, CallInv
<1> QED BY <1>2, <1>3, <1>4, <1>7 DEF Inv

LEMMA RunReportStep == Inv /\ RunReport => Inv'
<1> SUFFICES ASSUME Inv, RunReport PROVE Inv'
  OBVIOUS
<1> DEFINE cs == Reporting({report})
<1>1. pc = "run_report" /\ Asking(cs, {})
  BY DEF RunReport, Fail, Break
<1>2. scope.status = "granted" /\ report \in ReportType \cap scope.reports
      /\ ReportCleared(report) /\ route = "prepare_legacy_report"
  BY <1>1, ReportAllowed
<1>3. cs \in SUBSET CallType /\ cs # {} /\ \A c \in cs : Allowed(c)
  BY <1>2, Reported
<1>4. \/ pc' = "raised" /\ error' = "backend" /\ UNCHANGED <<reported, summary, warnings>>
      \/ pc' = "calc_metrics" /\ reported' = TRUE /\ UNCHANGED <<summary, warnings, error>>
  BY DEF RunReport, Fail, Break, Raise, Go
<1> HIDE DEF cs
<1>5. /\ WithinGrant' /\ WithinBranches'
      /\ calls' \subseteq CallType /\ used' \subseteq ToolOperation
      /\ calls' # {}
      /\ UNCHANGED <<request, settings, scope, tasks, plan, source, route, report,
                    status, needs, question>>
  BY <1>1, <1>3, Asks
<1>6. TypeOK'
  <2>1. pc' \in Nodes /\ error' \in Errors /\ warnings' \subseteq Warnings
        /\ reported' \in BOOLEAN /\ summary' \in BOOLEAN
    BY <1>4 DEF Inv, TypeOK, Nodes, Errors
  <2> QED BY <1>5, <2>1 DEF Inv, TypeOK
<1>7. ScopeInv' /\ PlanInv'
  BY <1>4, <1>5 DEF Inv, ScopeInv, PlanInv
<1>8. RouteInv'
  <2>1. route' # "none" /\ Cleared([route |-> route, report |-> report],
                                    tasks, plan, scope, request)'
    BY <1>1, <1>5 DEF Inv, RouteInv, Nowhere
  <2> QED BY <1>2, <1>4, <1>5, <2>1 DEF RouteInv, PolicyRoute
<1>9. CallInv'
  BY <1>4, <1>5 DEF CallInv
<1> QED BY <1>6, <1>7, <1>8, <1>9 DEF Inv

LEMMA ExecuteStep == Inv /\ Execute => Inv'
<1> SUFFICES ASSUME Inv, Execute PROVE Inv'
  OBVIOUS
<1>1. CASE PrepareLegacyReport \/ CalcMetrics \/ ComparisonWithoutPrevious
  BY <1>1, PassStep
<1>2. CASE RunReport
  BY <1>2, RunReportStep
<1>3. CASE RunMultiReport \/ RunTotal \/ RunComparison \/ RunRanking \/ RunTrend
           \/ RunBusinessQuery
  <2>1. Ran
    BY <1>3, MultiReportRan, TotalRan, ComparisonRan, RankingRan, TrendRan, BusinessRan
  <2>2. pc \in RunNodes \cup {"run_multi_report"}
    BY <1>3 DEF RunMultiReport, RunTotal, RunComparison, RunRanking, RunTrend,
                RunBusinessQuery, RunNodes
  <2> QED BY <2>1, <2>2, RanStep
<1> QED BY <1>1, <1>2, <1>3 DEF Execute

\* The nodes that answer end the run.
LEMMA ReplyStep == Inv /\ Reply => Inv'
<1> SUFFICES ASSUME Inv, Reply PROVE Inv'
  OBVIOUS
<1>1. /\ UNCHANGED <<request, settings, scope, tasks, plan, source, route, report,
                     reported, summary, calls, used, error>>
      /\ pc' = "end"
      /\ needs' \in {needs, TRUE, FALSE} /\ question' \in {question, TRUE, FALSE}
      /\ status' \in {"completed", "onboarding", "clarify", "rejected", "denied", "failed"}
      /\ warnings' \subseteq warnings \cup {"response_llm_fallback",
                                          "compose_missing_tool_output"}
  <2> USE DEF Go, Rendered, asked, planned, decided, output
  <2>1. CASE Clarify BY <2>1 DEF Clarify
  <2>2. CASE Reject BY <2>2 DEF Reject
  <2>3. CASE SafeAnswer BY <2>3 DEF SafeAnswer
  <2>4. CASE Smalltalk BY <2>4 DEF Smalltalk
  <2>5. CASE ComposeAnswer BY <2>5 DEF ComposeAnswer
  <2>6. CASE ComposeNothing BY <2>6 DEF ComposeNothing
  <2> QED BY <2>1, <2>2, <2>3, <2>4, <2>5, <2>6 DEF Reply
<1>2. TypeOK'
  <2>1. warnings' \subseteq Warnings BY <1>1 DEF Inv, TypeOK, Warnings
  <2>2. needs' \in BOOLEAN /\ question' \in BOOLEAN BY <1>1 DEF Inv, TypeOK
  <2> QED BY <1>1, <2>1, <2>2 DEF Inv, TypeOK, Nodes
<1>3. ScopeInv' /\ PlanInv' /\ RouteInv'
  BY <1>1 DEF Inv, ScopeInv, PlanInv, RouteInv, Nowhere, PolicyRoute
<1>4. CallInv'
  BY <1>1 DEF Inv, CallInv, WithinGrant, WithinBranches, Permitted
<1> QED BY <1>2, <1>3, <1>4 DEF Inv

\* The strengthened invariant is inductive.
THEOREM Invariance == Spec => []Inv
<1>1. Init => Inv
  <2> SUFFICES ASSUME Init PROVE Inv
    OBVIOUS
  <2>1. TypeOK
    BY Blanks DEF Init, TypeOK, Nodes, Errors
  <2>2. ScopeInv /\ PlanInv /\ RouteInv /\ CallInv
    BY DEF Init, ScopeInv, PlanInv, RouteInv, CallInv, WithinGrant, WithinBranches, NoScope,
           NoTasks, NoPlan,
           Nowhere, PolicyRoute
  <2> QED BY <2>1, <2>2 DEF Inv
<1>2. Inv /\ [Next]_vars => Inv'
  <2>1. CASE UNCHANGED vars
    <3> SUFFICES ASSUME Inv PROVE Inv'
      BY <2>1
    <3>1. UNCHANGED <<request, settings, scope, tasks, plan, source, route, report, status,
                      needs, question, reported, summary, calls, used, warnings, pc, error>>
      BY <2>1 DEF vars, asked, planned, decided, answer, output
    <3> QED BY <3>1 DEF Inv, TypeOK, ScopeInv, PlanInv, RouteInv, CallInv, WithinGrant,
                        WithinBranches, Permitted
  <2> QED BY <2>1, UnderstandStep, AdmitStep, ExecuteStep, ReplyStep DEF Next
<1> QED BY <1>1, <1>2, PTL DEF Spec

-----------------------------------------------------------------------------
(* What follows for every run *)

(* Every variable keeps its type. *)
THEOREM TypeCorrect == Spec => []TypeOK
<1>1. Inv => TypeOK BY DEF Inv
<1> QED BY <1>1, Invariance, PTL

(* Nothing is asked of the database, and no tool but the scalar            *)
(* calculations is invoked, that the user's scope does not allow.          *)
THEOREM Grant == Spec => []WithinGrant
<1>1. Inv => WithinGrant BY DEF Inv, CallInv
<1> QED BY <1>1, Invariance, PTL

(* A user limited to numbered branches never has the live service read     *)
(* another.                                                                *)
THEOREM Branches == Spec => []WithinBranches
<1>1. Inv => WithinBranches BY DEF Inv, CallInv
<1> QED BY <1>1, Invariance, PTL

(* The early returns of the nodes for a missing context are never reached. *)
THEOREM Context == Spec => []ContextThere
<1>1. Inv => ContextThere
  <2> SUFFICES ASSUME Inv PROVE ContextThere
    OBVIOUS
  <2> DEFINE d == [route |-> route, report |-> report]
             fourth == {"run_total", "run_comparison", "run_ranking", "run_trend"}
  <2>1. pc \in PolicyRoute \cup {"run_report"} => Cleared(d, tasks, plan, scope, request)
    BY DEF Inv, RouteInv, Nowhere, PolicyRoute
  <2>2. /\ pc \in PolicyRoute => d.route = pc
        /\ pc = "run_report" => d.route = "prepare_legacy_report"
        /\ d.report = report
    BY DEF Inv, RouteInv
  <2>3. pc \in fourth => plan.mode # "none"
    <3> HIDE DEF d
    <3> QED BY <2>1, <2>2 DEF Cleared, PolicyRoute
  <2>4. pc = "run_ranking" => plan.dim # "none"
    <3>1. pc = "run_ranking" => plan \in Plans /\ plan.mode = "breakdown"
      BY Cleared4 DEF FitsMode, Inv, TypeOK, NoPlan
    <3> QED BY <3>1 DEF Plans, ValidPlan
  <2>5. pc = "run_business_query" => plan.business # "none" /\ scope.status = "granted"
    <3> HIDE DEF d
    <3> QED BY <2>1, <2>2 DEF Cleared, PolicyRoute
  <2>6. pc = "run_multi_report" => tasks # NoTasks /\ scope.status = "granted"
    <3> HIDE DEF d
    <3> QED BY <2>1, <2>2 DEF Cleared, PolicyRoute
  <2>7. pc \in {"run_report", "prepare_legacy_report"} =>
          scope.status = "granted" /\ report # "none" /\ plan.dates # "none"
    BY ReportAllowed DEF ReportType
  <2>8. pc \in fourth => scope.status = "granted"
    BY Cleared4
  <2>9. scope.status = "granted" => request.given
    BY DEF Inv, ScopeInv
  <2> QED BY <2>3, <2>4, <2>5, <2>6, <2>7, <2>8, <2>9
             DEF ContextThere, RunNodes, Inv, PlanInv, CallInv
<1> QED BY <1>1, Invariance, PTL

LEMMA Served ==
  ASSUME NEW x \in MetricName, NEW m, NEW d, LiveObjection(m, x, d) = "ok"
  PROVE  /\ ~ Unserved("fetch_total_metric", x, "none")
         /\ m = "breakdown" => ~ Unserved("fetch_breakdown", x, d)
         /\ ~ Unserved("fetch_timeseries", x, "day")
<1>1. Dependencies[x] \subseteq BaseMetrics
  BY DEF Dependencies, MetricName, BaseMetrics, DerivedMetrics
<1>2. Dependencies[x] \cap LiveSemanticsUnresolved = {}
  BY DEF LiveObjection
<1>3. Dependencies[x] \subseteq LiveBaseMetrics
  BY <1>1, <1>2 DEF LiveBaseMetrics, LiveSemanticsUnresolved
<1>4. m = "breakdown" => Dependencies[x] \subseteq BreakdownMetrics(d)
  BY <1>2 DEF LiveObjection
<1> QED BY <1>3, <1>4 DEF Unserved

(* The policy turns away what the live service cannot serve, but for the   *)
(* previous period of a comparison that a model has planned.               *)
THEOREM AllServed == Spec => []ServedOrPrevious
<1>1. Init => ServedOrPrevious
  BY DEF Init, ServedOrPrevious
<1>2. Inv /\ ServedOrPrevious /\ [Next]_vars => ServedOrPrevious'
  <2> SUFFICES ASSUME Inv, ServedOrPrevious, [Next]_vars, error' = "unsupported"
               PROVE  ServedOrPrevious'
    BY DEF ServedOrPrevious
  <2>1. CASE UNCHANGED error /\ pc # "raised"
    BY <2>1 DEF ServedOrPrevious
  <2>2. CASE UNCHANGED vars
    BY <2>2 DEF ServedOrPrevious, vars, planned
  <2>3. CASE Understand
    BY <2>1, <2>3 DEF Understand, MissScopeRequest, ResolveScope, PlanTasks, PlanPreplanned,
         PlanDeterministic, PlanWithModel, PlanFallback, Plan, PlannerRaises, RulesRaise, Go,
         Raise
  <2>4. CASE Admit
    BY <2>1, <2>4 DEF Admit, PolicyGate, RouteDecision, Go
  <2>5. CASE Reply
    BY <2>1, <2>5 DEF Reply, Clarify, Reject, SafeAnswer, Smalltalk, ComposeAnswer,
         ComposeNothing, Go
  <2>6. CASE Execute
    <3>1. CASE PrepareLegacyReport \/ RunReport \/ CalcMetrics \/ RunMultiReport
               \/ ComparisonWithoutPrevious \/ RunBusinessQuery
      BY <2>1, <3>1 DEF PrepareLegacyReport, RunReport, CalcMetrics, RunMultiReport,
           ComparisonWithoutPrevious, RunBusinessQuery, Fail, Break, Summarise, Go, Raise
    <3>2. CASE RunTotal
      <4>1. pc = "run_total" BY <3>2 DEF RunTotal
      <4>2. ~ Unserved("fetch_total_metric", plan.metric, "none")
        BY <4>1, Cleared4, Served
      <4> QED BY <2>1, <3>2, <4>1, <4>2 DEF RunTotal, FailOn, Fail, Break, Summarise, Go, Raise
    <3>3. CASE RunRanking
      <4>1. pc = "run_ranking" BY <3>3 DEF RunRanking
      <4>2. plan.mode = "breakdown" BY <4>1, Cleared4 DEF FitsMode
      <4>3. ~ Unserved("fetch_breakdown", plan.metric, plan.dim)
        BY <4>1, <4>2, Cleared4, Served
      <4> QED BY <2>1, <3>3, <4>1, <4>3 DEF RunRanking, FailOn, Fail, Break, Summarise, Go,
                                           Raise
    <3>4. CASE RunTrend
      <4>1. pc = "run_trend" BY <3>4 DEF RunTrend
      <4>2. ~ Unserved("fetch_timeseries", plan.metric, "day")
        BY <4>1, Cleared4, Served
      <4> QED BY <2>1, <3>4, <4>1, <4>2 DEF RunTrend, FailOn, Fail, Break, Summarise, Go, Raise
    <3>5. CASE RunComparison
      <4>1. pc = "run_comparison" BY <3>5 DEF RunComparison
      <4>2. ~ Unserved("fetch_total_metric", plan.metric, "none")
        BY <4>1, Cleared4, Served
      <4>3. plan.intent = "comparison" BY <4>1, Cleared4
      <4>4. /\ Unserved("fetch_total_metric", plan.previous, "none")
            /\ pc' = "raised" /\ UNCHANGED <<plan, source>>
        BY <2>1, <3>5, <4>1, <4>2 DEF RunComparison, FailOn, Fail, Refuse, Break, Summarise,
             Asking, Go, Raise, planned, ServedOrPrevious
      <4>5. source = "llm"
        BY <4>2, <4>3, <4>4 DEF Inv, PlanInv
      <4> QED BY <4>3, <4>4, <4>5 DEF ServedOrPrevious
    <3> QED BY <2>6, <3>1, <3>2, <3>3, <3>4, <3>5 DEF Execute
  <2> QED BY <2>2, <2>3, <2>4, <2>5, <2>6 DEF Next
<1> QED BY <1>1, <1>2, Invariance, PTL DEF Spec

-----------------------------------------------------------------------------
(* The graph implements GroundedRun *)

LEMMA UnderstandRefines == Inv /\ Understand => [Grounded!Next]_Grounded!grounds
<1> SUFFICES ASSUME Inv, Understand PROVE [Grounded!Next]_Grounded!grounds
  OBVIOUS
<1> USE DEF Grounded!Next, Grounded!grounds
<1>1. CASE MissScopeRequest \/ ResolveScope
  <2>1. pc = "resolve_scope" /\ pc' = "plan_analysis" /\ UNCHANGED calls
    BY <1>1 DEF MissScopeRequest, ResolveScope, Go, output
  <2> QED BY <2>1 DEF Grounded!Recognise
<1>2. CASE PlanTasks \/ PlanPreplanned \/ PlanDeterministic \/ PlanWithModel \/ PlanFallback
  <2>1. pc = "plan_analysis" /\ pc' = "policy_gate" /\ UNCHANGED <<calls, scope>>
    BY <1>2 DEF PlanTasks, PlanPreplanned, PlanDeterministic, PlanWithModel, PlanFallback,
                Plan, Go, output
  <2> QED BY <2>1
<1>3. CASE PlannerRaises \/ RulesRaise
  <2>1. pc = "plan_analysis" /\ pc' = "raised" /\ UNCHANGED <<calls, scope>>
    BY <1>3 DEF PlannerRaises, RulesRaise, Raise, output
  <2> QED BY <2>1 DEF Grounded!Break
<1> QED BY <1>1, <1>2, <1>3 DEF Understand

LEMMA ExecuteRefines == Inv /\ Execute => [Grounded!Next]_Grounded!grounds
<1> SUFFICES ASSUME Inv, Execute PROVE [Grounded!Next]_Grounded!grounds
  OBVIOUS
<1> USE DEF Grounded!Next, Grounded!grounds
<1>1. CASE PrepareLegacyReport \/ CalcMetrics \/ ComparisonWithoutPrevious
  <2>1. /\ pc \in {"prepare_legacy_report", "calc_metrics", "run_comparison"}
        /\ pc' \in {"run_report", "compose_answer"} /\ UNCHANGED <<calls, scope>>
    BY <1>1 DEF PrepareLegacyReport, CalcMetrics, ComparisonWithoutPrevious, Go, output
  <2> QED BY <2>1
<1>2. CASE \/ RunReport \/ RunMultiReport \/ RunTotal \/ RunComparison \/ RunRanking
           \/ RunTrend \/ RunBusinessQuery
  <2>1. scope.status = "granted" /\ scope' = scope /\ calls' # {}
        /\ pc' \in {"calc_metrics", "compose_answer", "raised"}
    <3>1. CASE RunReport
      <4>1. pc = "run_report" BY <3>1 DEF RunReport
      <4>2. scope.status = "granted" /\ Reporting({report}) # {}
        BY <4>1, ReportAllowed, Reported
      <4> QED BY <3>1, <4>2 DEF RunReport, Fail, Break, Asking, Raise, Go
    <3>2. CASE ~ RunReport
      <4>1. Ran
        BY <1>2, <3>2, MultiReportRan, TotalRan, ComparisonRan, RankingRan, TrendRan,
           BusinessRan
      <4> QED BY <4>1 DEF Ran, Allowed, Permitted, Summarise, Break, Asking, Raise, Go
    <3> QED BY <3>1, <3>2
  <2>2. pc \notin {"resolve_scope", "end", "raised"}
    BY <1>2 DEF RunReport, RunMultiReport, RunTotal, RunComparison, RunRanking, RunTrend,
                RunBusinessQuery
  <2>3. CASE pc' = "raised"
    BY <2>1, <2>2, <2>3 DEF Grounded!Break
  <2>4. CASE pc' # "raised"
    BY <2>1, <2>2, <2>4 DEF Grounded!Read
  <2> QED BY <2>3, <2>4
<1> QED BY <1>1, <1>2 DEF Execute

LEMMA ReplyRefines == Inv /\ Reply => [Grounded!Next]_Grounded!grounds
<1> SUFFICES ASSUME Inv, Reply PROVE [Grounded!Next]_Grounded!grounds
  OBVIOUS
<1> USE DEF Grounded!Next, Grounded!grounds
<1> DEFINE d == [route |-> route, report |-> report]
<1>1. pc' = "end" /\ UNCHANGED <<calls, scope>>
  BY DEF Reply, Clarify, Reject, SafeAnswer, Smalltalk, ComposeAnswer, ComposeNothing, Go,
         output
<1>2. pc \in PolicyRoute => Cleared(d, tasks, plan, scope, request) /\ d.route = pc
  BY DEF Inv, RouteInv, Nowhere, PolicyRoute
<1>3. pc \in {"clarify", "smalltalk", "safe_answer"} => scope.status = "granted"
  <2> HIDE DEF d
  <2> QED BY <1>2 DEF Cleared, PolicyRoute
<1>4. CASE Clarify \/ SafeAnswer \/ Smalltalk
  <2>1. pc \in {"clarify", "smalltalk", "safe_answer"}
        /\ status' \in {"clarify", "rejected", "onboarding"}
    BY <1>4 DEF Clarify, SafeAnswer, Smalltalk
  <2> QED BY <1>1, <1>3, <2>1 DEF Grounded!Decline, Inv, CallInv
<1>5. CASE Reject
  <2>1. pc = "reject"
        /\ status' = IF scope.status # "granted" THEN "denied" ELSE "rejected"
    BY <1>5 DEF Reject
  <2> QED BY <1>1, <2>1 DEF Grounded!Decline, Grounded!Deny, Inv, CallInv
<1>6. CASE ComposeAnswer
  <2>1. pc = "compose_answer" /\ (reported \/ summary) /\ status' = "completed"
    BY <1>6 DEF ComposeAnswer
  <2> QED BY <1>1, <2>1 DEF Grounded!Complete, Inv, CallInv
<1>7. CASE ComposeNothing
  <2>1. pc = "compose_answer" /\ ~ reported /\ ~ summary /\ status' = "failed"
    BY <1>7 DEF ComposeNothing
  <2> QED BY <1>1, <2>1 DEF Grounded!Decline, Inv, CallInv
<1> QED BY <1>4, <1>5, <1>6, <1>7 DEF Reply

(* A run reads for an entitled user only, is completed exactly when it has *)
(* read, and denied exactly when the user is not entitled.                 *)
THEOREM Refinement == Spec => ImplementsGrounded
<1>1. Init => Grounded!Init
  BY DEF Init, Grounded!Init
<1>2. Inv /\ [Next]_vars => [Grounded!Next]_Grounded!grounds
  <2> SUFFICES ASSUME Inv, [Next]_vars PROVE [Grounded!Next]_Grounded!grounds
    OBVIOUS
  <2>1. CASE UNCHANGED vars
    BY <2>1 DEF vars, output, answer, Grounded!grounds
  <2>2. CASE Admit
    <3>1. /\ pc \in {"policy_gate", "route_decision"} /\ UNCHANGED <<calls, scope>>
          /\ pc' \notin {"resolve_scope", "end", "raised"}
      BY <2>2 DEF Admit, PolicyGate, RouteDecision, Go, output, Inv, TypeOK, RouteInv,
                  PolicyRoute, Nowhere
    <3> QED BY <3>1 DEF Grounded!grounds
  <2> QED BY <2>1, <2>2, UnderstandRefines, ExecuteRefines, ReplyRefines DEF Next
<1> QED BY <1>1, <1>2, Invariance, PTL DEF Spec, ImplementsGrounded, Grounded!Spec

-----------------------------------------------------------------------------
(***************************************************************************)
(* LlmRetry                                                                *)
(***************************************************************************)

\* While it asks, a call has failed as often as it has asked, and may ask again.
Trying == call = "calling" => attempt = creates /\ creates < MaxAttempts
Counted ==
  /\ call = "idle" => creates = 0 /\ attempt = 0
  /\ call # "calling" => attempt \in {creates, creates - 1}

RetryInv == CallTypeOK /\ Trying /\ Counted /\ HeldBriefly /\ GivesUpForCause

(* The jitter grows with the pause it is added to. *)
LEMMA JitterGrows ==
  ASSUME NEW d \in Nat, NEW m \in Nat, d <= m, NEW j \in 0 .. 100
  PROVE  /\ d + (d * j) \div 100 \in Nat
         /\ d + (d * j) \div 100 <= m + (m * j) \div 100
<1>1. d * j \in Nat /\ m * j \in Nat /\ d * j <= m * j
  <2>1. PICK k \in Nat : m = d + k  BY SMT
  <2>2. m * j = d * j + k * j  BY <2>1, SMT
  <2>3. k * j \in Nat /\ d * j \in Nat  BY SMT
  <2> QED  BY <2>2, <2>3, SMT
<1>2. \A x, y \in Nat : x <= y => x \div 100 <= y \div 100 /\ x \div 100 \in Nat  BY SMT
<1> QED  BY <1>1, <1>2, SMT

(* A pause of the loop is not longer than the longest there can be. *)
LEMMA PauseBounded ==
  ASSUME NEW n \in 1 .. MaxAttempts
  PROVE  RetryDelay(n) \in Nat /\ LongestPause \in Nat /\ RetryDelay(n) <= LongestPause
<1>1. BaseDelay(n) \in Nat
  <2>1. Multiplier ^ (n - 1) \in Nat  BY PowersAssumption
  <2> QED  BY <2>1, PolicyAssumption, SMT DEF BaseDelay
<1>2. BoundedDelay(n) \in Nat /\ BoundedDelay(n) <= MaxDelay
  BY <1>1, PolicyAssumption, SMT DEF BoundedDelay
<1>3. MaxDelay \in Nat /\ JitterPercent \in 0 .. 100  BY PolicyAssumption
<1>4. MaxDelay <= MaxDelay  BY <1>3, SMT
<1>5. RetryDelay(n) \in Nat /\ RetryDelay(n) <= LongestPause
  BY <1>2, <1>3, JitterGrows DEF RetryDelay, Jittered, LongestPause
<1>6. LongestPause \in Nat
  BY <1>3, <1>4, JitterGrows DEF Jittered, LongestPause
<1> QED  BY <1>5, <1>6

(* One more attempt allows for one more call of the service and one more    *)
(* pause.                                                                   *)
LEMMA OneMore ==
  ASSUME NEW c \in Nat, NEW a \in Nat, NEW t \in Nat, NEW p \in Nat
  PROVE  /\ (c + 1) * t = c * t + t /\ (a + 1) * p = a * p + p
         /\ c * t \in Nat /\ a * p \in Nat
  BY SMT

(* Every exception of the SDK has a category. *)
LEMMA Categorised ==
  ASSUME NEW x \in Raised
  PROVE  Normalized[x] \in Category
  BY RaisedAssumption, Zenon DEF Normalized, Category

LEMMA InitInv == Quiet => RetryInv
<1> SUFFICES ASSUME Quiet PROVE RetryInv  OBVIOUS
<1>1. LongestPause \in Nat
  BY PauseBounded, PolicyAssumption, SMT
<1> QED
  BY <1>1, PolicyAssumption, SMT
  DEF Quiet, RetryInv, CallTypeOK, Trying, Counted, HeldBriefly, GivesUpForCause

(* The invariant is inductive. *)
LEMMA StepInv == RetryInv /\ [CallNext]_callVars => RetryInv'
<1> SUFFICES ASSUME RetryInv, [CallNext]_callVars PROVE RetryInv'  OBVIOUS
<1> USE PolicyAssumption
<1>0. LongestPause \in Nat /\ CallTime \in Nat
  BY PauseBounded, SMT
<1>t. CallTypeOK /\ Trying /\ Counted /\ HeldBriefly /\ GivesUpForCause  BY DEF RetryInv
<1>1. CASE StartCall
  BY <1>1, <1>t, <1>0, SMT
  DEF StartCall, RetryInv, CallTypeOK, Trying, Counted, HeldBriefly, GivesUpForCause
<1>2. CASE Respond
  <2>1. /\ call = "calling" /\ creates' = creates + 1 /\ held' = held + CallTime
        /\ attempt' = attempt
        /\ (call' = "answered" /\ category' = category)
           \/ (call' = "failed" /\ category' = "unknown")
    BY <1>2 DEF Respond
  <2>2. attempt = creates /\ creates < MaxAttempts  BY <2>1, <1>t DEF Trying
  <2>3. HeldBriefly'
    <3>1. creates \in Nat /\ attempt \in Nat /\ held \in Nat  BY <1>t, SMT DEF CallTypeOK
    <3>2. held <= creates * CallTime + attempt * LongestPause  BY <1>t DEF HeldBriefly
    <3>3. /\ (creates + 1) * CallTime = creates * CallTime + CallTime
          /\ creates * CallTime \in Nat /\ attempt * LongestPause \in Nat
      BY <3>1, <1>0, OneMore
    <3>4. held + CallTime <= (creates + 1) * CallTime + attempt * LongestPause
      BY <3>1, <3>2, <3>3, <1>0, SMT
    <3> QED  BY <3>4, <2>1 DEF HeldBriefly, LongestPause, Jittered
  <2>4. CallTypeOK' /\ Trying' /\ Counted' /\ GivesUpForCause'
    BY <2>1, <2>2, <1>t, <1>0, SMT
    DEF CallTypeOK, Trying, Counted, GivesUpForCause, Category, Retryable
  <2> QED  BY <2>3, <2>4 DEF RetryInv
<1>3. CASE FailAttempt
  <2>1. PICK x \in Raised :
          IF GivesUp(Normalized[x])
          THEN call' = "failed" /\ category' = Normalized[x] /\ held' = held + CallTime
          ELSE /\ held' = held + CallTime + RetryDelay(attempt + 1)
               /\ UNCHANGED <<call, category>>
    BY <1>3 DEF FailAttempt
  <2>2. call = "calling" /\ creates' = creates + 1 /\ attempt' = attempt + 1
    BY <1>3 DEF FailAttempt
  <2>3. attempt = creates /\ creates < MaxAttempts  BY <2>2, <1>t DEF Trying
  <2>4. Normalized[x] \in Category  BY Categorised
  <2>5. attempt + 1 \in 1 .. MaxAttempts  BY <2>3, <1>t, SMT DEF CallTypeOK
  <2>6. /\ RetryDelay(attempt + 1) \in Nat /\ RetryDelay(attempt + 1) <= LongestPause
    BY <2>5, PauseBounded
  <2>7. /\ held' \in Nat
        /\ held' <= held + CallTime + LongestPause
    <3>1. held \in Nat  BY <1>t DEF CallTypeOK
    <3>2. held' = held + CallTime \/ held' = held + CallTime + RetryDelay(attempt + 1)
      BY <2>1
    <3> QED  BY <3>1, <3>2, <2>6, <1>0, SMT
  <2>8. HeldBriefly'
    <3>1. creates \in Nat /\ attempt \in Nat /\ held \in Nat  BY <1>t, SMT DEF CallTypeOK
    <3>2. held <= creates * CallTime + attempt * LongestPause  BY <1>t DEF HeldBriefly
    <3>3. /\ (creates + 1) * CallTime = creates * CallTime + CallTime
          /\ (attempt + 1) * LongestPause = attempt * LongestPause + LongestPause
          /\ creates * CallTime \in Nat /\ attempt * LongestPause \in Nat
      BY <3>1, <1>0, OneMore
    <3>4. held' <= (creates + 1) * CallTime + (attempt + 1) * LongestPause
      BY <3>1, <3>2, <3>3, <2>7, <1>0, SMT
    <3> QED  BY <3>4, <2>2 DEF HeldBriefly, LongestPause, Jittered
  <2>9. CASE GivesUp(Normalized[x])
    <3>1. call' = "failed" /\ category' = Normalized[x]  BY <2>1, <2>9
    <3>2. Normalized[x] \notin Retryable \/ attempt + 1 >= MaxAttempts
      BY <2>9 DEF GivesUp
    <3>3. CallTypeOK' /\ Trying' /\ Counted'
      BY <3>1, <2>2, <2>3, <2>4, <2>7, <1>t, SMT DEF CallTypeOK, Trying, Counted
    <3>4. GivesUpForCause'
      BY <3>1, <3>2, <2>2, <2>3, <1>t, SMT DEF CallTypeOK, GivesUpForCause
    <3> QED  BY <3>3, <3>4, <2>8 DEF RetryInv
  <2>10. CASE ~ GivesUp(Normalized[x])
    <3>1. UNCHANGED <<call, category>>  BY <2>1, <2>10
    <3>2. attempt + 1 < MaxAttempts  BY <2>10, <2>3, <1>t, SMT DEF GivesUp, CallTypeOK
    <3>3. CallTypeOK' /\ Trying' /\ Counted' /\ GivesUpForCause'
      BY <3>1, <3>2, <2>2, <2>3, <2>7, <1>t, SMT
      DEF CallTypeOK, Trying, Counted, GivesUpForCause
    <3> QED  BY <3>3, <2>8 DEF RetryInv
  <2> QED  BY <2>9, <2>10
<1>4. CASE Return
  BY <1>4, <1>t, <1>0, SMT
  DEF Return, RetryInv, CallTypeOK, Trying, Counted, HeldBriefly, GivesUpForCause
<1>5. CASE UNCHANGED callVars
  BY <1>5, <1>t
  DEF callVars, RetryInv, CallTypeOK, Trying, Counted, HeldBriefly, GivesUpForCause,
      LongestPause, Jittered
<1> QED  BY <1>1, <1>2, <1>3, <1>4, <1>5 DEF CallNext

(* Every variable has its type, for every policy. *)
THEOREM CallTypeCorrect == CallSpec => []CallTypeOK
<1>1. RetryInv => CallTypeOK  BY DEF RetryInv
<1> QED  BY <1>1, InitInv, StepInv, PTL DEF CallSpec

(* The attempts are bounded by the policy, and a call that gives up does so *)
(* for a refusal that is final or because it has asked often enough.        *)
THEOREM CallGivesUpForCause == CallSpec => []GivesUpForCause
<1>1. RetryInv => GivesUpForCause  BY DEF RetryInv
<1> QED  BY <1>1, InitInv, StepInv, PTL DEF CallSpec

(* However the service fails, a call holds its process no longer than its   *)
(* attempts and pauses can take.                                            *)
THEOREM CallHeldBriefly == CallSpec => []HeldBriefly
<1>1. RetryInv => HeldBriefly  BY DEF RetryInv
<1> QED  BY <1>1, InitInv, StepInv, PTL DEF CallSpec

-----------------------------------------------------------------------------
(***************************************************************************)
(* AgentRun                                                                *)
(***************************************************************************)

(* A step of a run is a step of the graph, or leaves the graph alone. *)
LEMMA RunStep == [RunNext]_runVars => [Next]_vars
<1> SUFFICES ASSUME [RunNext]_runVars PROVE [Next]_vars  OBVIOUS
<1>1. CASE AskModel  BY <1>1 DEF AskModel
<1>2. CASE AwaitModel  BY <1>2 DEF AwaitModel
<1>3. CASE TakeAnswer
  <2>1. Answers  BY <1>3 DEF TakeAnswer
  <2>2. PlanWithModel \/ PlanFallback \/ PlannerRaises \/ Reply  BY <2>1 DEF Answers
  <2> QED  BY <2>2 DEF Next, Understand
<1>4. CASE WithoutModel
  BY <1>4 DEF WithoutModel, Next, Understand, Reply
<1>5. CASE UNCHANGED runVars  BY <1>5 DEF runVars
<1> QED  BY <1>1, <1>2, <1>3, <1>4, <1>5 DEF RunNext

(* A run with a model, its attempts, its failures and its answers, is a run *)
(* of AgentGraph.                                                           *)
THEOREM RunImplementsGraph == RunSpec => ImplementsGraph
<1>1. RunInit => Init  BY DEF RunInit
<1> QED  BY <1>1, RunStep, PTL DEF RunSpec, ImplementsGraph, Spec

(* So nothing is read beyond the scope of the user, whatever the model does. *)
THEOREM RunGrant == RunSpec => []WithinGrant
BY RunImplementsGraph, Grant, PTL DEF ImplementsGraph

(* A step of a run is a step of its call, or leaves the call alone. *)
LEMMA RunStepOfCall == [RunNext]_runVars => [CallNext]_callVars
<1> SUFFICES ASSUME [RunNext]_runVars PROVE [CallNext]_callVars  OBVIOUS
<1>1. CASE AskModel  BY <1>1 DEF AskModel, CallNext
<1>2. CASE AwaitModel  BY <1>2 DEF AwaitModel, CallNext
<1>3. CASE TakeAnswer  BY <1>3 DEF TakeAnswer, CallNext
<1>4. CASE WithoutModel  BY <1>4 DEF WithoutModel
<1>5. CASE UNCHANGED runVars  BY <1>5 DEF runVars
<1> QED  BY <1>1, <1>2, <1>3, <1>4, <1>5 DEF RunNext

(* Either call of a run is a call of LlmRetry. *)
THEOREM RunImplementsCall == RunSpec => ImplementsCall
<1>1. RunInit => Quiet  BY DEF RunInit
<1> QED  BY <1>1, RunStepOfCall, PTL DEF RunSpec, ImplementsCall, CallSpec

(* So a run is not held longer than the policy of the retries allows ... *)
THEOREM RunHeldBriefly == RunSpec => []HeldBriefly
BY RunImplementsCall, CallHeldBriefly, PTL DEF ImplementsCall

(* ... and it goes without an answer only for a reason. *)
THEOREM RunGivesUpForCause == RunSpec => []GivesUpForCause
BY RunImplementsCall, CallGivesUpForCause, PTL DEF ImplementsCall

-----------------------------------------------------------------------------
(* The validators of AgentState *)

\* The planner asks only with a question, and the nodes that answer decide the rest.
StateInv ==
  /\ needs => question
  /\ pc # "end" => status \notin {"clarify", "onboarding"}
  /\ StateIsValid

LEMMA PlanAsksWithQuestion ==
  ASSUME NEW p \in AnyPlan
  PROVE  p.needs => p.question
BY DEF AnyPlan, Plans, ValidPlan, NoPlan

LEMMA PlannedIsPlan ==
  ASSUME NEW p \in ModelPlans \cup Preplanned \cup ReadByRules \cup {NoPlan}
  PROVE  p \in AnyPlan
BY RulesPlan, GraphInputs DEF Sound, AnyPlan, Plans

LEMMA PlannedValid ==
  ASSUME StateInv, NEW t, NEW p, NEW by, NEW told,
         p \in ModelPlans \cup Preplanned \cup ReadByRules \cup {NoPlan}, Plan(t, p, by, told),
         pc # "end"
  PROVE  StateInv'
<1>1. p.needs => p.question  BY PlannedIsPlan, PlanAsksWithQuestion
<1> QED  BY <1>1 DEF Plan, Go, StateInv, StateIsValid

LEMMA StateStep == StateInv /\ [Next]_vars => StateInv'
<1> SUFFICES ASSUME StateInv, [Next]_vars PROVE StateInv'  OBVIOUS
<1>1. CASE UNCHANGED vars
  BY <1>1 DEF vars, answer, StateInv, StateIsValid
<1>2. CASE PlanTasks \/ PlanPreplanned \/ PlanDeterministic \/ PlanWithModel \/ PlanFallback
  <2>1. pc = "plan_analysis"
    BY <1>2 DEF PlanTasks, PlanPreplanned, PlanDeterministic, PlanWithModel, PlanFallback
  <2>2. \E t, by, told : \E p \in ModelPlans \cup Preplanned \cup ReadByRules \cup {NoPlan} :
          Plan(t, p, by, told)
    BY <1>2 DEF PlanTasks, PlanPreplanned, PlanDeterministic, PlanWithModel, PlanFallback
  <2> QED  BY <2>1, <2>2, PlannedValid
<1>3. CASE MissScopeRequest \/ ResolveScope \/ PlannerRaises \/ RulesRaise
  BY <1>3 DEF MissScopeRequest, ResolveScope, PlannerRaises, RulesRaise, Go, Raise, answer,
              StateInv, StateIsValid
<1>4. CASE Admit
  <2>1. pc \notin {"end"} /\ UNCHANGED answer
    BY <1>4 DEF Admit, PolicyGate, RouteDecision
  <2> QED  BY <2>1 DEF answer, StateInv, StateIsValid
<1>5. CASE Execute
  <2>1. /\ pc # "end" /\ status' \in {status, "failed"} /\ needs' = needs
        /\ question' = question
    BY <1>5 DEF Execute, PrepareLegacyReport, RunReport, CalcMetrics, RunMultiReport, RunTotal,
         ComparisonWithoutPrevious, RunComparison, RunRanking, RunTrend, RunBusinessQuery,
         FailOn, Refuse, Fail, Break, Summarise, Asking, answer
  <2> QED  BY <2>1 DEF StateInv, StateIsValid
<1>6. CASE Reply
  BY <1>6 DEF Reply, Clarify, Reject, SafeAnswer, Smalltalk, ComposeAnswer, ComposeNothing,
              Go, StateInv, StateIsValid
<1> QED  BY <1>1, <1>2, <1>3, <1>4, <1>5, <1>6 DEF Next, Understand

(* No finished run is refused by the validators of AgentState: who asks     *)
(* back has a question, and small talk has none, whatever the planner said. *)
THEOREM StateValid == Spec => []StateIsValid
<1>1. Init => StateInv  BY DEF Init, StateInv, StateIsValid
<1>2. StateInv => StateIsValid  BY DEF StateInv
<1> QED  BY <1>1, <1>2, StateStep, PTL DEF Spec

-----------------------------------------------------------------------------
(* The warnings of a reply *)

\* Warnings that are no fallback of the model's.
Reasoned == warnings \ (FallbackWarnings \cup {"response_llm_fallback"}) # {}
Declines == {"clarify", "reject", "safe_answer", "smalltalk"}

\* What will have to be told is told as soon as it is known.
ToldInv ==
  /\ source = "fallback" => warnings \cap FallbackWarnings # {}
  /\ ~ request.given /\ pc # "resolve_scope" => "missing_scope_request" \in warnings
  /\ pc \in {"resolve_scope", "plan_analysis"} => tasks = NoTasks
  /\ pc \in {"resolve_scope", "plan_analysis", "policy_gate"} => route \in {"none", "reject"}
  /\ pc \in {"run_report", "calc_metrics", "compose_answer"} => route \notin Declines
  /\ route = "run_multi_report" /\ tasks.others => "planner_partial_multi_task" \in warnings
  /\ pc \notin Nowhere /\ tasks # NoTasks => route \in {"reject", "run_multi_report"}
  /\ pc \notin Nowhere /\ route \in Declines => Reasoned
  /\ ToldInFull

\* Whatever is declined is declined for a reason.
LEMMA DeclinedForReason ==
  ASSUME NEW t \in TasksType, NEW p \in AnyPlan, NEW s \in ScopeType, NEW r, NEW c,
         Decide(t, p, s, r, c).route \in Declines
  PROVE  Decide(t, p, s, r, c).reason # "ok"
<1> DEFINE d == Decide(t, p, s, r, c)
<1>1. CASE t # NoTasks
  BY <1>1 DEF Decide, DecideTasks, Decision, Declines
<1>2. CASE t = NoTasks /\ p.intent = "none"
  BY <1>2 DEF Decide, Decision
<1>3. CASE t = NoTasks /\ p.intent # "none" /\ p.business # "none"
  BY <1>3 DEF Decide, DecideBusiness, Decision, Declines
<1>4. CASE t = NoTasks /\ p.intent # "none" /\ p.business = "none"
  <2>1. d = DecidePlan(p, s, r, c)  BY <1>4 DEF Decide
  <2>2. CASE Denied(s) \/ p.intent \in {"clarify", "smalltalk", "unsupported"}
    BY <2>1, <2>2 DEF DecidePlan, Decision
  <2>3. CASE ~ Denied(s) /\ p.intent \notin {"clarify", "smalltalk", "unsupported"}
    <3>1. CASE Objection(p, s, r, c).reason # "ok"
      BY <2>1, <2>3, <3>1 DEF DecidePlan
    <3>2. CASE Objection(p, s, r, c).reason = "ok"
      <4>1. d = DecideExecution(p, s)  BY <2>1, <2>3, <3>2 DEF DecidePlan
      <4>2. RouteOf(p.intent) \notin Declines  BY Routes DEF Declines
      <4> QED  BY <4>1, <4>2 DEF DecideExecution, Decision, Declines
    <3> QED  BY <3>1, <3>2
  <2> QED  BY <2>2, <2>3
<1> QED  BY <1>1, <1>2, <1>3, <1>4

LEMMA ToldUnderstand == Inv /\ ToldInv /\ Understand => ToldInv'
<1> SUFFICES ASSUME Inv, ToldInv, Understand PROVE ToldInv'  OBVIOUS
<1> USE DEF ToldInv, ToldInFull, Nowhere, Go, Raise, Declines
<1>1. CASE MissScopeRequest
  BY <1>1 DEF MissScopeRequest, asked, planned, NoTasks
<1>2. CASE ResolveScope
  BY <1>2 DEF ResolveScope, asked, planned, decided, NoTasks
<1>3. CASE PlannerRaises \/ RulesRaise
  BY <1>3 DEF PlannerRaises, RulesRaise, asked, planned, decided, NoTasks
<1>4. ASSUME NEW t, NEW p, NEW by, NEW told, Plan(t, p, by, told), pc = "plan_analysis",
             by = "fallback" => told \cap FallbackWarnings # {}
      PROVE  ToldInv'
  <2>1. /\ route' = route /\ request' = request /\ source' = by /\ pc' = "policy_gate"
        /\ warnings' = warnings \cup told
    BY <1>4 DEF Plan, asked, decided
  <2>2. route \in {"none", "reject"}  BY <1>4
  <2> QED  BY <1>4, <2>1, <2>2
<1>5. CASE PlanFallback
  <2>1. PICK p \in ReadByRules, told \in FallbackWarnings : Plan(NoTasks, p, "fallback", {told})
    BY <1>5 DEF PlanFallback
  <2> QED  BY <1>4, <1>5, <2>1 DEF PlanFallback
<1>6. CASE PlanTasks \/ PlanPreplanned \/ PlanDeterministic \/ PlanWithModel
  <2>1. \E t, p : \E by \in {"deterministic", "llm"} : Plan(t, p, by, {})
    BY <1>6 DEF PlanTasks, PlanPreplanned, PlanDeterministic, PlanWithModel
  <2> QED
    BY <1>4, <1>6, <2>1 DEF PlanTasks, PlanPreplanned, PlanDeterministic, PlanWithModel
<1> QED  BY <1>1, <1>2, <1>3, <1>5, <1>6 DEF Understand

LEMMA ToldAdmit == Inv /\ ToldInv /\ Admit => ToldInv'
<1> SUFFICES ASSUME Inv, ToldInv, Admit PROVE ToldInv'  OBVIOUS
<1>1. CASE PolicyGate
  <2>1. plan \in AnyPlan /\ tasks \in TasksType /\ scope \in ScopeType
    BY Blanks, GraphInputs DEF AnyPlan, Plans, TypeOK, Inv
  <2>2. Decided \in Decisions  BY <2>1, PolicySound DEF Decided
  <2>3. Decided.route \in Declines => Decided.reason # "ok"
    BY <2>1, DeclinedForReason DEF Decided
  <2>4. tasks # NoTasks => Decided.route \in {"reject", "run_multi_report"}
    BY DEF Decided, Decide, DecideTasks, Decision
  <2>5. Decided.route = "run_multi_report" /\ tasks.others =>
          Decided.reason = "planner_partial_multi_task"
    <3>1. tasks = NoTasks => ~ tasks.others  BY DEF NoTasks
    <3> QED  BY <3>1 DEF Decided, Decide, DecideTasks, Decision
  <2>6. /\ route' = Decided.route /\ warnings' = warnings \cup ({Decided.reason} \ {"ok"})
        /\ pc = "policy_gate" /\ pc' = "route_decision"
        /\ UNCHANGED <<request, tasks, source>>
    BY <1>1 DEF PolicyGate, Go, asked, planned
  <2>7. \A w \in Reasons : w \notin FallbackWarnings \cup {"response_llm_fallback"}
    BY DEF Reasons, FallbackWarnings
  <2>8. Decided.route \in Declines => Reasoned'
    BY <2>2, <2>3, <2>6, <2>7 DEF Reasoned, Decisions
  <2> QED  BY <2>4, <2>5, <2>6, <2>8 DEF ToldInv, ToldInFull, Nowhere
<1>2. CASE RouteDecision
  <2>1. /\ pc = "route_decision" /\ pc' = route
        /\ UNCHANGED <<request, tasks, source, route, warnings>>
    BY <1>2 DEF RouteDecision, Go, asked, planned, decided
  <2>2. route \in PolicyRoute  BY <2>1 DEF Inv, TypeOK, RouteInv, Nowhere
  <2> QED  BY <2>1, <2>2 DEF ToldInv, ToldInFull, Nowhere, Reasoned, PolicyRoute, Declines
<1> QED  BY <1>1, <1>2 DEF Admit

LEMMA ToldExecute == Inv /\ ToldInv /\ Execute => ToldInv'
<1> SUFFICES ASSUME Inv, ToldInv, Execute PROVE ToldInv'  OBVIOUS
<1>1. /\ pc \notin Nowhere /\ UNCHANGED <<request, tasks, source, route>>
      /\ pc' \notin {"resolve_scope", "plan_analysis", "policy_gate", "end"}
      /\ warnings \subseteq warnings'
  BY DEF Execute, PrepareLegacyReport, RunReport, CalcMetrics, RunMultiReport, RunTotal,
         ComparisonWithoutPrevious, RunComparison, RunRanking, RunTrend, RunBusinessQuery,
         FailOn, Refuse, Fail, Break, Summarise, Asking, Go, Raise, Nowhere, asked, planned,
         decided, output
<1>2. Reasoned => Reasoned'  BY <1>1 DEF Reasoned
<1>3. route \notin Declines
  <2>1. pc \in (PolicyRoute \ Declines) \cup {"run_report", "calc_metrics"}
    BY DEF Execute, PrepareLegacyReport, RunReport, CalcMetrics, RunMultiReport, RunTotal,
           ComparisonWithoutPrevious, RunComparison, RunRanking, RunTrend, RunBusinessQuery,
           PolicyRoute, Declines
  <2> QED  BY <2>1 DEF Inv, RouteInv, ToldInv
<1> QED  BY <1>1, <1>2, <1>3 DEF ToldInv, ToldInFull, Nowhere

\* A node that declines is the route of the decision.
LEMMA DeclinesOnItsRoute ==
  ASSUME Inv, ToldInv, pc \in Declines
  PROVE  Reasoned
BY DEF Inv, RouteInv, ToldInv, Declines, PolicyRoute, Nowhere

LEMMA ToldReply == Inv /\ ToldInv /\ Reply => ToldInv'
<1> SUFFICES ASSUME Inv, ToldInv, Reply PROVE ToldInv'  OBVIOUS
<1>1. /\ pc \notin Nowhere /\ pc' = "end" /\ UNCHANGED <<request, tasks, source, route>>
      /\ warnings \subseteq warnings'
  BY DEF Reply, Clarify, Reject, SafeAnswer, Smalltalk, ComposeAnswer, ComposeNothing,
         Rendered, Go, Nowhere, asked, planned, decided
<1>2. status' # "completed" => Reasoned'
  <2>1. CASE pc \in Declines
    BY <1>1, <2>1, DeclinesOnItsRoute DEF Reasoned
  <2>2. CASE ComposeNothing
    BY <2>2 DEF ComposeNothing, Reasoned, FallbackWarnings
  <2>3. CASE ComposeAnswer
    BY <2>3 DEF ComposeAnswer
  <2> QED
    BY <2>1, <2>2, <2>3 DEF Reply, Clarify, Reject, SafeAnswer, Smalltalk, Declines
<1>3. status' = "completed" /\ tasks.others => route = "run_multi_report"
  <2> SUFFICES ASSUME status' = "completed", tasks.others PROVE route = "run_multi_report"
    OBVIOUS
  <2>1. pc = "compose_answer" /\ (reported \/ summary)
    BY DEF Reply, Clarify, Reject, SafeAnswer, Smalltalk, ComposeAnswer, ComposeNothing
  <2>2. tasks # NoTasks  BY DEF NoTasks
  <2>3. route \in {"reject", "run_multi_report"}  BY <1>1, <2>2 DEF ToldInv
  <2> QED  BY <2>1, <2>3 DEF ToldInv, Declines
<1> QED  BY <1>1, <1>2, <1>3 DEF ToldInv, ToldInFull, Reasoned, Nowhere

(* The reply of a run says what was not done as it was asked: that the      *)
(* rules have planned in the place of the model, that the scope was never   *)
(* asked for, that some of the tasks were left out, and why it was declined.*)
(* No node loses a warning of an earlier one.                               *)
THEOREM AllTold == Spec => []ToldInFull
<1>1. Init => ToldInv  BY DEF Init, ToldInv, ToldInFull, Nowhere
<1>2. Inv /\ ToldInv /\ [Next]_vars => ToldInv'
  <2>1. ToldInv /\ UNCHANGED vars => ToldInv'
    BY DEF ToldInv, ToldInFull, Reasoned, vars, asked, planned, decided, answer
  <2> QED  BY <2>1, ToldUnderstand, ToldAdmit, ToldExecute, ToldReply DEF Next
<1>3. ToldInv => ToldInFull  BY DEF ToldInv
<1> QED  BY <1>1, <1>2, <1>3, Invariance, PTL DEF Spec

-----------------------------------------------------------------------------
(* The failures of the model *)

\* A node is visited once: what became of its call is what is remembered of it,
\* until its warning takes over.
FailureInv ==
  /\ call # "idle" => HasModel(pc)
  /\ pc # "raised" => error = "none"
  /\ pc = "resolve_scope" => unanswered = {}
  /\ pc = "plan_analysis" =>
       /\ unanswered \subseteq {"plan_analysis"}
       /\ "plan_analysis" \in unanswered <=> call = "failed"
  /\ pc \in {"resolve_scope", "plan_analysis"} =>
       warnings \cap {"planner_llm_error_fallback", "response_llm_fallback"} = {}
  /\ pc \notin {"resolve_scope", "plan_analysis", "raised", "end"} =>
       /\ "plan_analysis" \in unanswered <=> "planner_llm_error_fallback" \in warnings
       /\ unanswered \cap ReplyNodes # {} <=> call = "failed"
       /\ "response_llm_fallback" \notin warnings
  /\ FailuresTold

\* A model is asked by the planner and by the nodes that answer only.
LEMMA ModelNodes ==
  ASSUME NEW n, HasModel(n)
  PROVE  n \in {"plan_analysis"} \cup ReplyNodes
BY DEF HasModel, ReplyNodes

LEMMA FailureAsk == FailureInv /\ AskModel => FailureInv'
BY DEF AskModel, StartCall, FailureInv, HasModel, FailuresTold, vars, asked, answer, output

LEMMA FailureAwait == FailureInv /\ AwaitModel => FailureInv'
<1> SUFFICES ASSUME FailureInv, AwaitModel PROVE FailureInv'  OBVIOUS
<1>1. call = "calling" /\ UNCHANGED <<pc, error, warnings, settings, reported, summary>>
  BY DEF AwaitModel, Respond, FailAttempt, vars, asked, answer, output
<1>2. pc \in {"plan_analysis"} \cup ReplyNodes  BY <1>1, ModelNodes DEF FailureInv
<1>3. unanswered' = IF call' = "failed" THEN unanswered \cup {pc} ELSE unanswered
  BY DEF AwaitModel
<1>4. HasModel(pc)' = HasModel(pc)  BY <1>1 DEF HasModel
<1> QED  BY <1>1, <1>2, <1>3, <1>4 DEF FailureInv, FailuresTold, ReplyNodes

LEMMA FailureTake == Inv /\ FailureInv /\ TakeAnswer => FailureInv'
<1> SUFFICES ASSUME Inv, FailureInv, TakeAnswer PROVE FailureInv'  OBVIOUS
<1>1. call' = "idle" /\ unanswered' = unanswered
  BY DEF TakeAnswer, Return, callVars
<1>2. CASE PlanWithModel /\ call = "answered"
  BY <1>1, <1>2 DEF PlanWithModel, Plan, Go, FailureInv, FailuresTold, ReplyNodes
<1>3. CASE /\ PlanFallback \/ PlannerRaises
           /\ call = "failed" <=>
                error' = "llm_error" \/ "planner_llm_error_fallback" \in warnings'
  <2>1. CASE PlannerRaises
    BY <1>1, <2>1 DEF PlannerRaises, Raise, FailureInv, FailuresTold
  <2>2. CASE PlanFallback
    <3>1. /\ pc = "plan_analysis" /\ pc' = "policy_gate" /\ error' = error
          /\ "response_llm_fallback" \notin warnings'
      BY <2>2 DEF PlanFallback, Plan, Go, FailureInv, FallbackWarnings
    <3> QED  BY <1>1, <1>3, <3>1 DEF FailureInv, FailuresTold, ReplyNodes
  <2> QED  BY <1>3, <2>1, <2>2
<1>4. CASE pc \in ReplyNodes /\ Reply
           /\ (call = "failed" <=> "response_llm_fallback" \in warnings')
  <2>1. /\ pc' = "end" /\ error' = error
        /\ "planner_llm_error_fallback" \in warnings' <=> "planner_llm_error_fallback" \in warnings
    BY <1>4 DEF Reply, Clarify, Reject, SafeAnswer, Smalltalk, ComposeAnswer, ComposeNothing,
                Rendered, Go
  <2> QED  BY <1>1, <1>4, <2>1 DEF FailureInv, FailuresTold, ReplyNodes
<1> QED  BY <1>2, <1>3, <1>4 DEF TakeAnswer, Answers

LEMMA FailureWithout == Inv /\ FailureInv /\ WithoutModel => FailureInv'
<1> SUFFICES ASSUME Inv, FailureInv, WithoutModel PROVE FailureInv'  OBVIOUS
<1>1. call = "idle" /\ call' = "idle" /\ unanswered' = unanswered
  BY DEF WithoutModel, callVars
<1>2. CASE MissScopeRequest \/ ResolveScope
  BY <1>1, <1>2 DEF MissScopeRequest, ResolveScope, Go, FailureInv, FailuresTold
<1>3. CASE PlanTasks \/ PlanPreplanned \/ PlanDeterministic
  <2>1. pc = "plan_analysis" /\ pc' = "policy_gate" /\ error' = error /\ warnings' = warnings
    BY <1>3 DEF PlanTasks, PlanPreplanned, PlanDeterministic, Plan, Go
  <2> QED  BY <1>1, <2>1 DEF FailureInv, FailuresTold, ReplyNodes
<1>4. CASE Admit
  <2>1. /\ pc \in {"policy_gate", "route_decision"}
        /\ pc' \notin {"resolve_scope", "plan_analysis", "raised", "end"} /\ error' = error
        /\ \A w \in FallbackWarnings \cup {"response_llm_fallback"} :
             w \in warnings' <=> w \in warnings
    <3>1. CASE PolicyGate
      <4>1. plan \in AnyPlan /\ tasks \in TasksType /\ scope \in ScopeType
        BY Blanks, GraphInputs DEF AnyPlan, Plans, TypeOK, Inv
      <4>2. Decided.reason \in Reasons  BY <4>1, PolicySound DEF Decided, Decisions
      <4>3. \A w \in Reasons : w \notin FallbackWarnings \cup {"response_llm_fallback"}
        BY DEF Reasons, FallbackWarnings
      <4> QED  BY <3>1, <4>2, <4>3 DEF PolicyGate, Go
    <3>2. CASE RouteDecision
      <4>1. route \in PolicyRoute  BY <3>2 DEF RouteDecision, Inv, TypeOK, RouteInv, Nowhere
      <4> QED  BY <3>2, <4>1 DEF RouteDecision, Go, PolicyRoute
    <3> QED  BY <1>4, <3>1, <3>2 DEF Admit
  <2> QED  BY <1>1, <2>1 DEF FailureInv, FailuresTold, FallbackWarnings
<1>5. CASE Execute
  <2>1. /\ pc \notin {"resolve_scope", "plan_analysis", "raised", "end"}
        /\ \/ pc' = "raised"
           \/ pc' \notin {"resolve_scope", "plan_analysis", "raised", "end"} /\ error' = error
        /\ \A w \in FallbackWarnings \cup {"response_llm_fallback"} :
             w \in warnings' <=> w \in warnings
    BY <1>5 DEF Execute, PrepareLegacyReport, RunReport, CalcMetrics, RunMultiReport, RunTotal,
         ComparisonWithoutPrevious, RunComparison, RunRanking, RunTrend, RunBusinessQuery,
         FailOn, Refuse, Fail, Break, Summarise, Go, Raise, FallbackWarnings
  <2> QED  BY <1>1, <2>1 DEF FailureInv, FailuresTold, FallbackWarnings
<1>6. CASE Smalltalk
  BY <1>1, <1>6 DEF Smalltalk, Go, FailureInv, FailuresTold
<1>7. CASE RulesRaise
  BY <1>1, <1>7 DEF RulesRaise, Raise, FailureInv, FailuresTold
<1> QED  BY <1>2, <1>3, <1>4, <1>5, <1>6, <1>7 DEF WithoutModel

(* A reply tells of a model that could not be asked, of the planner's as of *)
(* the one that words the answer, and of no other.                          *)
THEOREM RunFailuresTold == RunSpec => []FailuresTold
<1>1. RunInit => FailureInv
  BY DEF RunInit, Init, Quiet, FailureInv, FailuresTold
<1>2. Inv /\ FailureInv /\ [RunNext]_runVars => FailureInv'
  <2>1. FailureInv /\ UNCHANGED runVars => FailureInv'
    BY DEF FailureInv, FailuresTold, HasModel, runVars, callVars, vars, asked, answer, output
  <2> QED  BY <2>1, FailureAsk, FailureAwait, FailureTake, FailureWithout DEF RunNext
<1>3. FailureInv => FailuresTold  BY DEF FailureInv
<1>4. RunSpec => []Inv  BY RunImplementsGraph, Invariance, PTL DEF ImplementsGraph
<1> QED  BY <1>1, <1>2, <1>3, <1>4, PTL DEF RunSpec
==============================================================================

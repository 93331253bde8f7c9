----------------------------- MODULE MCAgentRun -----------------------------
(***************************************************************************)
(* Instances of AgentRun for TLC: four metrics, of which the live        *)
(* service serves the first two with every dimension they are registered   *)
(* for, the discount not by category, and the refund not at all.           *)
(***************************************************************************)
EXTENDS AgentRun

CONSTANTS b7, b8, north

SomeMetrics == {"sales_total", "average_check", "discount_amount", "refund_amount"}
SomeDims    == {"day", "source", "category"}

\* None; for what the user has; narrowed; with a name without a number; exported.
SomeRequests ==
  {[given |-> TRUE, branches |-> bs, export |-> "none"] : bs \in {{}, {b7}, {b7, b8}, {b7, north}}}
  \cup {[given |-> TRUE, branches |-> {}, export |-> "csv"],
        [given |-> FALSE, branches |-> {}, export |-> "none"]}
PlainRequests == {r \in SomeRequests : r.given /\ r.export = "none"}

Open == [status |-> "granted", reports |-> ReportType, metrics |-> MetricName,
         dims |-> DimensionName, tools |-> ToolOperation, exports |-> {"csv"},
         branches |-> {"*"}]
SomeScopes ==
  {Open, [NoScope EXCEPT !.status = "denied"],
   [Open EXCEPT !.metrics = {"sales_total"}, !.dims = {"day"}, !.branches = {}],
   [Open EXCEPT !.tools = {"fetch_total_metric", "fetch_breakdown"}, !.branches = {b7, b8},
                !.exports = {}],
   [Open EXCEPT !.branches = {b8}],
   [Open EXCEPT !.branches = {b7, north}]}

SomeSettings ==
  {[mode |-> "hybrid", fallback |-> FALSE, safeTopics |-> TRUE, maxToolCalls |-> 4,
    apiKey |-> TRUE],
   [mode |-> "llm", fallback |-> FALSE, safeTopics |-> FALSE, maxToolCalls |-> 4,
    apiKey |-> TRUE],
   [mode |-> "llm", fallback |-> TRUE, safeTopics |-> TRUE, maxToolCalls |-> 3,
    apiKey |-> FALSE],
   [mode |-> "deterministic", fallback |-> FALSE, safeTopics |-> FALSE, maxToolCalls |-> 4,
    apiKey |-> FALSE]}
ByRules == {c \in SomeSettings : c.mode = "deterministic"}

\* The fields that no node reads for an intent keep one value.
Of(i) == [NoPlan EXCEPT !.intent = i]
Retrieving(i) == {[Of(i) EXCEPT !.mode = m, !.metric = x, !.dim = d, !.dates = w] :
  m \in RetrievalMode, x \in SomeMetrics, d \in SomeDims \cup {"none"}, w \in {"none", "short"}}
Questions == {[Of(i) EXCEPT !.needs = n, !.question = q] :
  i \in {"clarify", "unsupported", "smalltalk"}, n \in BOOLEAN, q \in BOOLEAN}
BusinessPlans == {[Of(i) EXCEPT !.business = b, !.needs = n, !.question = n] :
  i \in AnalysisIntent, b \in {"customer_summary", "item_performance"}, n \in BOOLEAN}
SomeModelPlans == {p \in
  Questions \cup BusinessPlans \cup Retrieving("metric_total") \cup Retrieving("breakdown")
  \cup {[p EXCEPT !.average = a, !.slope = s] :
          p \in Retrieving("trend"), a \in BOOLEAN, s \in BOOLEAN}
  \cup {[p EXCEPT !.previous = v, !.scalars = s] :
          p \in Retrieving("comparison"), v \in SomeMetrics \cup {"none"}, s \in BOOLEAN}
  \cup {[p EXCEPT !.ranking = k] : p \in Retrieving("ranking"), k \in {"top_k", "none"}} :
  ValidPlan(p)}
=============================================================================

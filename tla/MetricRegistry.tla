---------------------------- MODULE MetricRegistry ----------------------------
(***************************************************************************)
(* What may be asked and what can be served: the canonical registry of     *)
(* app/agent/metric_registry.py, what live_capabilities.py says the live   *)
(* service supports, and what services/live_analytics.py itself refuses.   *)
(* The last two are kept apart in the code, and are here.                  *)
(***************************************************************************)

DimensionName == {"branch", "source", "day", "hour", "weekday", "payment_method",
                  "category", "cashier"}
Plain == {"branch", "source", "day", "hour", "weekday"}

BaseMetrics == {"sales_total", "order_count", "quantity_sold", "completed_order_count",
                "discounted_order_count", "canceled_order_count", "refund_amount",
                "discount_amount", "delivery_order_count", "dine_in_order_count"}

DerivedMetrics == {"gross_sales_total", "average_check", "items_per_order", "refund_rate",
                   "discount_share", "discounted_order_share"}

MetricName == BaseMetrics \cup DerivedMetrics

\* _METRICS: what a metric is computed from; a base metric, from itself.
Dependencies == [m \in MetricName |->
  CASE m = "gross_sales_total"      -> {"sales_total", "discount_amount"}
    [] m = "average_check"          -> {"sales_total", "completed_order_count"}
    [] m = "items_per_order"        -> {"quantity_sold", "completed_order_count"}
    [] m = "refund_rate"            -> {"refund_amount", "sales_total"}
    [] m = "discount_share"         -> {"discount_amount", "sales_total"}
    [] m = "discounted_order_share" -> {"discounted_order_count", "completed_order_count"}
    [] OTHER                        -> {m}]

\* RatioFormulaAst: a quotient of the two dependencies.
Quotients == DerivedMetrics \ {"gross_sales_total"}

\* _METRICS, allowed_dimension_ids.
AllowedDimensions == [m \in MetricName |->
  CASE m \in {"sales_total", "average_check"} -> Plain \cup {"category", "payment_method"}
    [] m \in {"gross_sales_total", "delivery_order_count"} -> Plain
    [] m \in {"order_count", "completed_order_count"} ->
         Plain \cup {"category", "payment_method", "cashier"}
    [] m \in {"quantity_sold", "items_per_order"} -> Plain \cup {"category", "cashier"}
    [] m \in {"discounted_order_count", "canceled_order_count", "discounted_order_share"} ->
         Plain \cup {"cashier"}
    [] m = "refund_amount"       -> Plain \cup {"payment_method"}
    [] m = "discount_amount"     -> Plain \cup {"category"}
    [] m = "dine_in_order_count" -> (Plain \ {"source"}) \cup {"cashier"}
    [] m = "refund_rate"         -> (Plain \ {"hour"}) \cup {"payment_method"}
    [] m = "discount_share"      -> (Plain \ {"hour"}) \cup {"category"}]

LiveBaseMetrics == BaseMetrics \ {"canceled_order_count", "refund_amount"}

\* LIVE_SPECIALIZED_BREAKDOWN_METRIC_IDS; LIVE_BASE_METRIC_IDS for the others.
BreakdownMetrics(d) ==
  CASE d = "payment_method" -> {"sales_total", "order_count", "completed_order_count"}
    [] d = "category" ->
         {"sales_total", "order_count", "completed_order_count", "quantity_sold"}
    [] OTHER -> LiveBaseMetrics

LiveSemanticsUnresolved == {"canceled_order_count", "refund_amount", "refund_rate"}

\* Mutant of LiveObjection: the dependencies of a breakdown are not looked at.
TotalObjection(mode, m, d) ==
  IF Dependencies[m] \cap LiveSemanticsUnresolved # {}
    THEN "live_metric_semantics_unresolved"
  ELSE IF mode = "timeseries"
    THEN IF d = "day" THEN "ok" ELSE "live_timeseries_dimension_not_supported"
  ELSE IF Dependencies[m] \subseteq LiveBaseMetrics THEN "ok" ELSE "live_metric_not_supported"

\* evaluate_live_retrieval_capability: the reason code.
LiveObjection(mode, m, d) ==
  IF Dependencies[m] \cap LiveSemanticsUnresolved # {}
    THEN "live_metric_semantics_unresolved"
  ELSE IF mode = "timeseries"
    THEN IF d = "day" THEN "ok" ELSE "live_timeseries_dimension_not_supported"
  ELSE IF mode = "breakdown"
    THEN IF Dependencies[m] \subseteq BreakdownMetrics(d) THEN "ok"
         ELSE "live_breakdown_metric_not_supported"
  ELSE IF Dependencies[m] \subseteq LiveBaseMetrics THEN "ok" ELSE "live_metric_not_supported"

(* LiveAnalyticsUnsupportedError of _required_base_metrics, of              *)
(* _validate_specialized_metric_support and of get_timeseries.              *)
Unserved(tool, m, d) ==
  \/ ~ Dependencies[m] \subseteq LiveBaseMetrics
  \/ tool = "fetch_breakdown" /\ d \in {"payment_method", "category"}
       /\ ~ Dependencies[m] \subseteq BreakdownMetrics(d)
  \/ tool = "fetch_timeseries" /\ d # "day"
=============================================================================

----------------------------- MODULE OrderFigures -----------------------------
(***************************************************************************)
(* What one statement of the live services answers over the orders it     *)
(* sees, and what is computed from such answers without reading again:     *)
(* services/live_analytics.py, smartrest_query_support.py,                 *)
(* live_business_tools.py, reports/smartrest_backend.py, calc_tools.py and *)
(* the tools.  A nullable column is the set of its value, empty for NULL.  *)
(* An exact figure is a fraction <<n, d>>, a figure as told the number of  *)
(* its hundredths.  A bucket is a number that sorts as its label does.     *)
(***************************************************************************)
EXTENDS MetricRegistry, Integers, Sequences, FiniteSetsExt, SequencesExt

CONSTANT FullyNamed    \* the menu items with a name in each of the three languages

Unknown == 99          \* the bucket of NULL: "branch_unknown", "category_"
Everything == 0        \* the only bucket of a statement that groups by nothing

Coalesced(column) == IF column = {} THEN 0 ELSE CHOOSE v \in column : TRUE

\* A row of "orders", with its contents and its payments.
Nullable(column, Type) == column \subseteq Type /\ \A v, w \in column : v = w
IsRow(o) ==
  /\ Nullable(o.day, Int) /\ Nullable(o.branch, Int) /\ Nullable(o.delivery, BOOLEAN)
  /\ Nullable(o.final, Int) /\ Nullable(o.total, Int) /\ Nullable(o.discount, Int)
  /\ Nullable(o.client, o.client)
  /\ o.items \in Seq([item : Int, category : Int, gross : Int, quantity : Int])
  /\ o.payments \in Seq([method : Int, amount : Int])

-----------------------------------------------------------------------------
(* Figures *)

Whole(n)     == <<n, 1>>
Plus(x, y)   == IF x[2] = y[2] THEN <<x[1] + y[1], x[2]>>
                ELSE <<x[1] * y[2] + y[1] * x[2], x[2] * y[2]>>
Over(x, y)   == IF x[2] = y[2] THEN <<x[1], y[1]>> ELSE <<x[1] * y[2], x[2] * y[1]>>
SumOf(f)     == FoldFunction(Plus, Whole(0), f)
Same(x, y)   == x[1] * y[2] = y[1] * x[2]
Hundredths(h) == <<h, 100>>

\* The nearest integer of n / d, half away from zero.
RoundHalfUp(n, d) ==
  IF n >= 0 THEN (2 * n + d) \div (2 * d) ELSE - ((d - 2 * n) \div (2 * d))

\* quantize_decimal, at its default precision.
Quantized(x) == IF x[2] > 0 THEN RoundHalfUp(100 * x[1], x[2])
                            ELSE RoundHalfUp(-100 * x[1], -x[2])

\* ORDER BY and sorted(): the members of a set, each once.
InOrder(S, Precedes(_, _)) == CHOOSE q \in SetToSeqs(S) : IsSorted(q, Precedes)

-----------------------------------------------------------------------------
(* Statements *)

\* sales_total_expression, of one order.
SalesOf(o) == IF o.final \ {0} # {} THEN Coalesced(o.final) ELSE Coalesced(o.total)

\* apply_order_filters; a comparison with NULL keeps no row.
Passes(o, scope, period) ==
  /\ o.profile = scope.profile
  /\ period # {} => o.day # {} /\ o.day \subseteq period
  /\ scope.branches # {} => o.branch # {} /\ o.branch \subseteq scope.branches
  /\ scope.source # "any" => o.delivery = {scope.source = "takeaway"}

Chosen(orders, scope, period) == {i \in DOMAIN orders : Passes(orders[i], scope, period)}

SourceBucket(o) == IF o.delivery = {TRUE} THEN 2 ELSE 1

\* _dimension_expression and the two specialised ones: hour, weekday and
\* cashier go the way of the branch.
BucketsOf(o, d) ==
  CASE d = "source"         -> {SourceBucket(o)}
    [] d = "day"            -> {IF o.day = {} THEN Unknown ELSE Coalesced(o.day)}
    [] d = "branch"         -> {IF o.branch = {} THEN Unknown ELSE Coalesced(o.branch)}
    [] d = "category"       -> {o.items[l].category : l \in DOMAIN o.items}
    [] d = "payment_method" -> {o.payments[l].method : l \in DOMAIN o.payments}
    [] OTHER                -> {Everything}

ItemRows(orders, S) == UNION {{i} \X DOMAIN orders[i].items : i \in S}
ItemOf(orders, r) == orders[r[1]].items[r[2]]

QuantitySold(orders, rows) ==
  SumFunction([r \in rows |-> ItemOf(orders, r).quantity])

\* _base_metric_expression over the orders S, _quantity_sold_expression over their items.
Aggregate(orders, m, S) ==
  CASE m = "sales_total" -> SumFunction([i \in S |-> SalesOf(orders[i])])
    [] m \in {"order_count", "completed_order_count"} -> Cardinality(S)
    [] m = "discount_amount" -> SumFunction([i \in S |-> Coalesced(orders[i].discount)])
    [] m = "discounted_order_count" -> Cardinality({i \in S : Coalesced(orders[i].discount) > 0})
    [] m = "delivery_order_count" -> Cardinality({i \in S : orders[i].delivery = {TRUE}})
    [] m = "dine_in_order_count" -> Cardinality({i \in S : orders[i].delivery # {TRUE}})
    [] m = "quantity_sold" -> QuantitySold(orders, ItemRows(orders, S))

GrossOf(o) == SumFunction([l \in DOMAIN o.items |-> o.items[l].gross])

\* Mutant of AllocatedSales: every line gets the sales of its whole order.
SalesOfOrder(o, line) == Whole(SalesOf(o))

\* allocated_sales: the sales of an order, shared out by what its lines cost.
AllocatedSales(o, line) ==
  IF GrossOf(o) = 0 THEN Whole(0) ELSE <<SalesOf(o) * line.gross, GrossOf(o)>>

\* _category_grouped_statement.
CategoryFigure(orders, m, S, b) ==
  LET rows == {r \in ItemRows(orders, S) : ItemOf(orders, r).category = b} IN
  CASE m = "sales_total" ->
         SumOf([r \in rows |-> AllocatedSales(orders[r[1]], ItemOf(orders, r))])
    [] m = "quantity_sold" -> Whole(QuantitySold(orders, rows))
    [] OTHER -> Whole(Cardinality({r[1] : r \in rows}))

\* _payment_method_grouped_statement.
PaymentFigure(orders, m, S, b) ==
  LET paid(o) == {l \in DOMAIN o.payments : o.payments[l].method = b}
      rows == UNION {{i} \X paid(orders[i]) : i \in S}
  IN  IF m = "sales_total"
        THEN Whole(SumFunction([r \in rows |-> orders[r[1]].payments[r[2]].amount]))
        ELSE Whole(Cardinality({r[1] : r \in rows}))

(* The rows of one statement: _metric_total_statement, which always answers *)
(* one, _metric_grouped_statement and the specialised statements, which     *)
(* answer a row for every bucket that something falls into.                 *)
Statement(orders, m, d, S) ==
  LET joined == IF m = "quantity_sold" THEN {i \in S : orders[i].items # <<>>} ELSE S
      Buckets == UNION {BucketsOf(orders[i], d) : i \in joined}
      In(b)   == {i \in joined : b \in BucketsOf(orders[i], d)}
  IN  CASE d = "none"           -> [b \in {Everything} |-> Whole(Aggregate(orders, m, S))]
        [] d = "category"       -> [b \in Buckets |-> CategoryFigure(orders, m, S, b)]
        [] d = "payment_method" -> [b \in Buckets |-> PaymentFigure(orders, m, S, b)]
        [] OTHER                -> [b \in Buckets |-> Whole(Aggregate(orders, m, In(b)))]

-----------------------------------------------------------------------------
(* From the rows of the statements to the figures of the metric *)

\* The dependencies of a metric as the registry orders them.
Operands(m) ==
  CASE m = "gross_sales_total"      -> <<"sales_total", "discount_amount">>
    [] m = "average_check"          -> <<"sales_total", "completed_order_count">>
    [] m = "items_per_order"        -> <<"quantity_sold", "completed_order_count">>
    [] m = "discount_share"         -> <<"discount_amount", "sales_total">>
    [] m = "discounted_order_share" -> <<"discounted_order_count", "completed_order_count">>
    [] OTHER                        -> <<m>>

\* Mutant of ReadOrder: what a quotient is divided by is read first.
DivisorFirst(m) == Reverse(Operands(m))

\* _aggregate_base_metrics and its grouped forms: one statement per dependency.
ReadOrder(m) == Operands(m)

\* _merge_grouped_metric_values: zero where a statement has no such row.
Merged(reads) == UNION {DOMAIN reads[j] : j \in DOMAIN reads}
Cell(reads, m, x, b) ==
  LET rows == reads[CHOOSE j \in DOMAIN ReadOrder(m) : ReadOrder(m)[j] = x]
  IN  IF b \in DOMAIN rows THEN rows[b] ELSE Whole(0)

\* _materialize_metric_value and evaluate_formula_ast: {} for the error raised.
Formula(m, x, y) ==
  CASE m \in BaseMetrics -> {x}
    [] m = "gross_sales_total" -> {Plus(x, y)}
    [] OTHER -> IF y[1] # 0 THEN {Over(x, y)}
                ELSE IF x[1] = 0 THEN {Whole(0)} ELSE {}

\* The metric in every bucket of what its statements have read.
Figures(m, reads) ==
  [b \in Merged(reads) |-> LET of == Operands(m)
                           IN  Formula(m, Cell(reads, m, of[1], b),
                                       Cell(reads, m, of[Len(of)], b))]

NoQuotient(m, reads) == LET f == Figures(m, reads) IN \E b \in DOMAIN f : f[b] = {}

\* The figures, where none is missing.
Exact(m, reads) == LET f == Figures(m, reads) IN [b \in DOMAIN f |-> CHOOSE v \in f[b] : TRUE]
Told(m, reads)  == LET x == Exact(m, reads) IN [b \in DOMAIN x |-> Quantized(x[b])]

-----------------------------------------------------------------------------
(* The tools *)

\* attach_breakdown_share_tool: {} for a total of zero.
Share(value, total) == IF total = 0 THEN {} ELSE {Quantized(<<100 * value, total>>)}

(* sort_items_tool, top_k_tool and bottom_k_tool: the buckets that are told. *)
(* Both tools sort by the direction of the ranking.  The mode of a plan only *)
(* chooses the tool: with top_k and asc it is the lowest that are told.      *)
Ranked(told, direction, k) ==
  LET Above(a, b) == told[a] > told[b] \/ (told[a] = told[b] /\ a > b)
      order == InOrder(DOMAIN told, LAMBDA a, b : IF direction = "desc" THEN Above(a, b)
                                                  ELSE Above(b, a))
  IN  SubSeq(order, 1, IF k < Len(order) THEN k ELSE Len(order))

\* Mutant of Days: the range stops before its last day.
DaysBefore(told, period) ==
  InOrder(IF period = {} THEN DOMAIN told ELSE period \ {Max(period)}, <)

\* The buckets of a series: _daterange, or the days that have a row.
Days(told, period) == InOrder(IF period = {} THEN DOMAIN told ELSE period, <)

\* get_timeseries: the metric of nothing is zero, a quotient too.
Series(told, period) ==
  [i \in DOMAIN Days(told, period) |->
     LET day == Days(told, period)[i] IN IF day \in DOMAIN told THEN told[day] ELSE 0]

SumOfWindow(points, i, w) == SumFunction([j \in (i - w + 1) .. i |-> points[j]])

\* moving_average_tool, from the point on which the window is full.
MovingAverage(points, w) ==
  [i \in w .. Len(points) |-> RoundHalfUp(SumOfWindow(points, i, w), w)]

\* latest_ma of _run_trend_node: the last average that is not zero, if any.
LatestAverage(points, w) ==
  LET average == MovingAverage(points, w)
      some == {i \in DOMAIN average : average[i] # 0}
  IN  IF some = {} THEN {} ELSE {average[Max(some)]}

\* linear_regression_slope and trend_slope_tool: in ten-thousandths a day.
Slope(points) ==
  LET n  == Len(points)
      X  == (n * (n - 1)) \div 2
      XX == SumFunction([i \in 1..n |-> (i - 1) * (i - 1)])
      Y  == SumFunction(points)
      XY == SumFunction([i \in 1..n |-> (i - 1) * points[i]])
  IN  RoundHalfUp(100 * (n * XY - X * Y), n * XX - X * X)

Direction(slope) == IF slope > 0 THEN "up" ELSE IF slope < 0 THEN "down" ELSE "flat"

(* compute_metrics_tool, of one specification whose two operands are given, *)
(* {} for one that is not among the base metrics.  Averages are left out:   *)
(* neither the rules nor the policy of the reports select one.              *)
Calculated(formula, x, y) ==
  LET a == Coalesced(x)
      b == Coalesced(y)
      minus == Plus(a, <<-b[1], b[2]>>)
      value == CASE formula = "delta"          -> minus
                 [] formula = "percent_change" -> Over(<<100 * minus[1], minus[2]>>, b)
                 [] formula = "share_percent"  -> Over(<<100 * a[1], a[2]>>, b)
                 [] formula \in {"per_day_rate", "ratio"} -> Over(a, b)
  IN  IF x = {} \/ y = {} THEN [value |-> {}, warning |-> {"missing_operand"}]
      ELSE IF formula # "delta" /\ b[1] = 0 THEN [value |-> {}, warning |-> {"division_by_zero"}]
      ELSE [value |-> {Quantized(value)}, warning |-> {}]

\* _resolve_operand: {} for a key that is not among the base metrics.
Operand(metrics, key) == IF key \in DOMAIN metrics THEN {metrics[key]} ELSE {}

\* compute_metrics_tool, of the calculations of a plan.
Computed(calculations, metrics) ==
  [c \in calculations |-> Calculated(c.formula, Operand(metrics, c.of), Operand(metrics, c.by))]

-----------------------------------------------------------------------------
(* The services of one statement *)

\* run_smartrest_report takes a source for the report by source only.
Reported(report, scope) == report = "sales_by_source" \/ scope.source = "any"

\* run_smartrest_report: of the whole profile, whatever the branches.
ReportRows(orders, report, scope, period) ==
  LET of == [scope EXCEPT !.branches = {}]
      S == Chosen(orders, of, period)
      sales == Aggregate(orders, "sales_total", S)
      rows == Statement(orders, "sales_total", "source", S)
      asked == CASE of.source = "any" -> {1, 2} [] of.source = "takeaway" -> {2} [] OTHER -> {1}
  IN  CASE report = "sales_total" -> [b \in {Everything} |-> Whole(sales)]
        [] report = "order_count" -> [b \in {Everything} |-> Whole(Cardinality(S))]
        [] report = "average_check" ->
             [b \in {Everything} |-> IF S = {} THEN Whole(0) ELSE <<sales, Cardinality(S)>>]
        [] report = "sales_by_source" ->
             [b \in asked |-> IF b \in DOMAIN rows THEN rows[b] ELSE Whole(0)]

\* select_calculation_specs over map_report_response_to_base_metrics: the
\* derived figures of a report, by bucket.
ReportCalculations(report, rows, period) ==
  LET formula == CASE report = "sales_by_source" -> "share_percent"
                   [] report \in {"sales_total", "order_count"} -> "per_day_rate"
                   [] OTHER -> "none"
      by == IF formula = "share_percent" THEN SumOf(rows) ELSE Whole(Cardinality(period))
  IN  IF formula = "none" THEN << >>
      ELSE [b \in DOMAIN rows |-> Calculated(formula, {rows[b]}, {by})]

\* _item_metric_expression.
ItemFigure(orders, metric, rows) ==
  CASE metric = "item_revenue" -> SumFunction([r \in rows |-> ItemOf(orders, r).gross])
    [] metric = "quantity_sold" -> QuantitySold(orders, rows)
    [] metric = "distinct_orders" -> Cardinality({r[1] : r \in rows})

(* The filters of get_item_performance, of what the names in a query match. *)
(* One that leaves items out also loses every item with a name missing: NOT *)
(* over an OR with NULL in it keeps no row.                                 *)
ItemsKept(find, exclude, n) ==
  /\ find # {} => n \in find
  /\ exclude # {} => n \in FullyNamed \ exclude

\* get_item_performance, each item with its figure; ties by the item, NULL last.
ItemPerformance(orders, S, metric, mode, limit, find, exclude) ==
  LET rows == {r \in ItemRows(orders, S) : ItemsKept(find, exclude, ItemOf(orders, r).item)}
      value == [n \in {ItemOf(orders, r).item : r \in rows} |->
                  ItemFigure(orders, metric, {r \in rows : ItemOf(orders, r).item = n})]
      Before(m, n) == \/ IF mode = "top_k" THEN value[m] > value[n] ELSE value[m] < value[n]
                      \/ value[m] = value[n] /\ m < n
      order == InOrder(DOMAIN value, Before)
      told == SubSeq(order, 1, IF limit < Len(order) THEN limit ELSE Len(order))
  IN  [i \in DOMAIN told |-> <<told[i], value[told[i]]>>]

\* get_customer_summary.
CustomerSummary(orders, S) ==
  LET identified == {i \in S : orders[i].client # {}}
      clients == UNION {orders[i].client : i \in S}
  IN  [unique_clients |-> Cardinality(clients),
       identified_order_count |-> Cardinality(identified),
       total_order_count |-> Cardinality(S),
       average_orders |-> IF clients = {} THEN 0
                          ELSE Quantized(<<Cardinality(identified), Cardinality(clients)>>)]
=============================================================================

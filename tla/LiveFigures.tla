----------------------------- MODULE LiveFigures ------------------------------
(***************************************************************************)
(* A question read from the database, statement by statement, by the nodes *)
(* of app/agent/graph.py that retrieve figures.  Every statement sees what *)
(* is committed when it runs: between two of them a sync may insert orders *)
(* and update the ones that are there.                                     *)
(***************************************************************************)
EXTENDS OrderFigures

CONSTANTS OrderId, Row,   \* the rows an order may have
          Question,       \* what may be asked
          MaxWrites       \* rows written while a question is read

ASSUME OrdersAssumption ==
  IsFiniteSet(OrderId) /\ MaxWrites \in Nat /\ \A o \in Row : IsRow(o)

VARIABLES orders,    \* the rows of "orders" with their contents and payments
          asked,     \* the question being answered
          reads,     \* the rows that its statements answered, in order
          written,   \* how many rows have been written since
          moved,     \* one of them was there and went elsewhere (history)
          told       \* how the node ended

vars == <<orders, asked, reads, written, moved, told>>

NoAnswer == [outcome |-> "none"]
Raised(reason) == [outcome |-> reason]
Served(answer) == [outcome |-> "served", answer |-> answer]

Retrieval(q) == q.kind \in {"total", "comparison", "breakdown", "ranking", "trend"}
Grouped(q) == q.kind \in {"breakdown", "ranking"}

\* What the schemas, the registry and the capabilities let through.
ASSUME QuestionsAssumption ==
  \A q \in Question :
    /\ Retrieval(q) \/ q.kind \in {"report", "items", "customers"}
    /\ Retrieval(q) => q.metric \in MetricName /\ Dependencies[q.metric] \subseteq LiveBaseMetrics
    /\ Grouped(q) => /\ q.dim \in {"source", "day", "branch", "category", "payment_method"}
                     /\ Dependencies[q.metric] \subseteq BreakdownMetrics(q.dim)
    /\ q.kind = "report" =>
         q.metric \in {"sales_total", "order_count", "average_check", "sales_by_source"}
    /\ IsFiniteSet(q.period) /\ q.period \subseteq Int
    /\ q.scope \in [profile : Int, branches : SUBSET Int,
                    source : {"any", "takeaway", "in_store"}]
    /\ q.mode \in {"top_k", "bottom_k"} /\ q.direction \in {"desc", "asc"} /\ q.k \in Nat
    /\ \A c \in q.calculations :
         c.formula \in {"delta", "percent_change", "share_percent", "per_day_rate", "ratio"}

\* The period before, as long as the period: _build_previous_period.
Previous(period) == {d - Cardinality(period) : d \in period}

(* The statements of a node: those of its retrieval, and for a comparison   *)
(* those of the period before.  A report, the items and the customers are   *)
(* one statement each, here by the name of what it serves.                  *)
StatementsFor(m, d, period) ==
  [j \in DOMAIN ReadOrder(m) |-> [of |-> ReadOrder(m)[j], by |-> d, period |-> period]]

Statements(q) ==
  CASE q.kind = "total" -> StatementsFor(q.metric, "none", q.period)
    [] q.kind = "comparison" -> StatementsFor(q.metric, "none", q.period)
                                  \o StatementsFor(q.metric, "none", Previous(q.period))
    [] Grouped(q) -> StatementsFor(q.metric, q.dim, q.period)
    [] q.kind = "trend" -> StatementsFor(q.metric, "day", q.period)
    [] OTHER -> <<[of |-> q.metric, by |-> q.kind, period |-> q.period]>>

Answered(q, s) ==
  LET S == Chosen(orders, q.scope, s.period) IN
  CASE s.by = "report" -> ReportRows(orders, s.of, q.scope, s.period)
    [] s.by = "items" -> ItemPerformance(orders, S, s.of, q.mode, q.k, q.find, q.exclude)
    [] s.by = "customers" -> CustomerSummary(orders, S)
    [] OTHER -> Statement(orders, s.of, s.by, S)

\* What has been read of the period asked for, and of the one before it.
Asked(q)  == SubSeq(reads, 1, Len(ReadOrder(q.metric)))
Before(q) == SubSeq(reads, Len(ReadOrder(q.metric)) + 1, Len(reads))

\* The first total is computed before the second is read.
TotalFails(q) ==
  /\ q.kind = "comparison"
  /\ Len(reads) = Len(ReadOrder(q.metric))
  /\ NoQuotient(q.metric, reads)

\* A source asked of a report that takes none: a ValueError, before any session.
Refused(q) == q.kind = "report" /\ ~ Reported(q.metric, q.scope)

-----------------------------------------------------------------------------
Empty == << >>

Init ==
  /\ orders \in UNION {[S -> Row] : S \in SUBSET OrderId}
  /\ asked \in Question
  /\ reads = Empty
  /\ written = 0
  /\ moved = FALSE
  /\ told = NoAnswer

\* Where an order counts: whether it passes, and what it falls into.
Place(q, o) ==
  <<[s \in {q.period, Previous(q.period)} |-> Passes(o, q.scope, s)],
    BucketsOf(o, IF q.kind = "trend" THEN "day" ELSE q.dim)>>

\* A row copied by a sync, new or changed at the source.
SyncWrite(i, row) ==
  /\ told = NoAnswer
  /\ written < MaxWrites
  /\ i \in DOMAIN orders => row # orders[i]
  /\ orders' = [j \in DOMAIN orders \cup {i} |-> IF j = i THEN row ELSE orders[j]]
  /\ written' = written + 1
  /\ moved' = (moved \/ (i \in DOMAIN orders /\ Place(asked, row) # Place(asked, orders[i])))
  /\ UNCHANGED <<asked, reads, told>>

Execute ==
  /\ told = NoAnswer
  /\ Len(reads) < Len(Statements(asked))
  /\ ~ TotalFails(asked) /\ ~ Refused(asked)
  /\ reads' = Append(reads, Answered(asked, Statements(asked)[Len(reads) + 1]))
  /\ UNCHANGED <<orders, asked, written, moved, told>>

Finished == Len(reads) = Len(Statements(asked)) /\ told = NoAnswer

Tell(answer) ==
  /\ told' = answer
  /\ UNCHANGED <<orders, asked, reads, written, moved>>

FailReport ==
  /\ told = NoAnswer
  /\ Refused(asked)
  /\ Tell(Raised("no_source_filter"))

\* LiveAnalyticsUnsupportedError: a quotient, or a day that is NULL.
FailQuotient ==
  /\ told = NoAnswer
  /\ Retrieval(asked)
  /\ \/ TotalFails(asked)
     \/ Finished /\ NoQuotient(asked.metric, Asked(asked))
     \/ Finished /\ asked.kind = "comparison" /\ NoQuotient(asked.metric, Before(asked))
  /\ Tell(Raised("no_quotient"))

ByDay(q) == q.kind = "trend" \/ q.dim = "day"

FailDay ==
  /\ Finished
  /\ Retrieval(asked) /\ ByDay(asked)
  /\ ~ NoQuotient(asked.metric, reads)
  /\ Unknown \in Merged(reads)
  /\ Tell(Raised("no_day"))

\* The figures can be told.
Readable ==
  /\ Finished
  /\ ~ NoQuotient(asked.metric, Asked(asked))
  /\ ByDay(asked) => Unknown \notin Merged(reads)

\* _build_total_base_metrics_payload: no day_count for an open period.
TotalMetrics(value) ==
  LET m == asked.metric
      days == IF asked.period = {} THEN {} ELSE {"day_count"}
  IN  [key \in {m} \cup Dependencies[m] \cup days |->
         CASE key = m           -> Hundredths(value)
           [] key = "day_count" -> Whole(Cardinality(asked.period))
           [] OTHER             -> Hundredths(Quantized(Cell(reads, m, key, Everything)))]

\* materialize_previous_period_metrics: a day_count of zero for an open period.
ComparisonMetrics(value, previous) ==
  [key \in {asked.metric, "previous", "day_count"} |->
     CASE key = asked.metric -> Hundredths(value)
       [] key = "previous"   -> Hundredths(previous)
       [] OTHER              -> Whole(Cardinality(asked.period))]

\* calc_warnings.
Warnings(derived) == UNION {derived[c].warning : c \in DOMAIN derived}

TellTotal ==
  /\ asked.kind = "total" /\ Readable
  /\ LET value == Told(asked.metric, reads)[Everything]
         derived == Computed(asked.calculations, TotalMetrics(value))
     IN  Tell(Served([value |-> value, derived |-> derived, warnings |-> Warnings(derived)]))

TellComparison ==
  /\ asked.kind = "comparison" /\ Readable
  /\ ~ NoQuotient(asked.metric, Before(asked))
  /\ LET value == Told(asked.metric, Asked(asked))[Everything]
         previous == Told(asked.metric, Before(asked))[Everything]
         derived == Computed(asked.calculations, ComparisonMetrics(value, previous))
     IN  Tell(Served([value |-> value, previous |-> previous,
                      derived |-> derived, warnings |-> Warnings(derived)]))

TotalValue == Quantized(SumOf(Exact(asked.metric, reads)))

TellBreakdown ==
  /\ asked.kind = "breakdown" /\ Readable
  /\ Tell(Served([items |-> Told(asked.metric, reads), total |-> TotalValue]))

\* RankItemsRequest, items of min_length=1.
FailRanking ==
  /\ asked.kind = "ranking" /\ Readable
  /\ Merged(reads) = {}
  /\ Tell(Raised("nothing_to_rank"))

TellRanking ==
  /\ asked.kind = "ranking" /\ Readable
  /\ Merged(reads) # {}
  /\ LET items == Told(asked.metric, reads)
     IN  Tell(Served([items |-> items, total |-> TotalValue,
                      ranked |-> Ranked(items, asked.direction, asked.k),
                      share |-> [b \in DOMAIN items |-> Share(items[b], TotalValue)]]))

Window == 3   \* moving_average_window of the plans

TellTrend ==
  /\ asked.kind = "trend" /\ Readable
  /\ LET figures == Told(asked.metric, reads)
         points == Series(figures, asked.period)
     IN  Tell(Served([days |-> Days(figures, asked.period), points |-> points,
                      latest |-> IF Len(points) < Window THEN {} ELSE LatestAverage(points, Window),
                      slope |-> IF Len(points) < 2 THEN {} ELSE {Slope(points)}]))

TellReport ==
  /\ asked.kind = "report" /\ Finished
  /\ LET rows == reads[1]
     IN  Tell(Served([items |-> [b \in DOMAIN rows |-> Quantized(rows[b])],
                      derived |-> ReportCalculations(asked.metric, rows, asked.period)]))

TellBusiness ==
  /\ asked.kind \in {"items", "customers"} /\ Finished
  /\ Tell(Served([rows |-> reads[1]]))

Next ==
  \/ \E i \in OrderId, row \in Row : SyncWrite(i, row)
  \/ Execute
  \/ FailReport \/ FailQuotient \/ FailDay \/ FailRanking
  \/ TellTotal \/ TellComparison \/ TellBreakdown \/ TellRanking \/ TellTrend
  \/ TellReport \/ TellBusiness

Spec == Init /\ [][Next]_vars

-----------------------------------------------------------------------------
(* Properties *)

(* The statements of a quotient are not one snapshot, but what it divides   *)
(* is read before what it is divided by: orders that arrive in between      *)
(* cannot leave it without a divisor, nor make a part greater than the      *)
(* whole.  Only orders that change their bucket or leave the period can,    *)
(* and orders given away, whose discount is a share of no sales             *)
(* (live_analytics.py:208-250 and :445).                                    *)
QuotientsServed ==
  /\ told.outcome = "no_quotient" => moved \/ asked.metric = "discount_share"
  /\ told.outcome = "served" /\ Retrieval(asked) /\ asked.metric = "discounted_order_share" =>
       \/ moved
       \/ asked.kind \in {"total", "comparison"} /\ told.answer.value <= 100
       \/ /\ asked.kind \in {"breakdown", "ranking"}
          /\ \A b \in DOMAIN told.answer.items : told.answer.items[b] <= 100
       \/ asked.kind = "trend" /\ \A i \in DOMAIN told.answer.points : told.answer.points[i] <= 100

(* What two services answer on the same orders agrees, whichever way they   *)
(* read them: a total is the sum of its breakdown by any dimension that has *)
(* every order once; the sales of the categories are those of the orders    *)
(* whose lines cost something; a source taken as a filter is the bucket of  *)
(* that name, but for orders without a mark (query_support.py:39-52); a     *)
(* report is the total of the whole profile; the items sold, and the orders *)
(* of the customers, are those counted in the totals.                       *)
FiguresAgree ==
  reads = Empty =>
    LET scope == asked.scope
        S == Chosen(orders, scope, asked.period)
        wide == [scope EXCEPT !.branches = {}, !.source = "any"]
        all == Chosen(orders, wide, asked.period)
        total(m) == Aggregate(orders, m, S)
        by(m, d, T) == Statement(orders, m, d, T)
        reported(r) == ReportRows(orders, r, [scope EXCEPT !.source = "any"], asked.period)
        items == {ItemOf(orders, r).item : r \in ItemRows(orders, S)}
        sold == ItemPerformance(orders, S, "quantity_sold", "top_k", Cardinality(items), {}, {})
        customers == CustomerSummary(orders, S)
    IN  /\ \A m \in LiveBaseMetrics, d \in {"source", "day", "branch"} :
             Same(SumOf(by(m, d, S)), Whole(total(m)))
        /\ Same(SumOf(by("sales_total", "category", S)),
                Whole(Aggregate(orders, "sales_total", {i \in S : GrossOf(orders[i]) # 0})))
        /\ Same(SumOf(by("quantity_sold", "category", S)), Whole(total("quantity_sold")))
        /\ scope.source = "in_store" =>
             LET unfiltered == [scope EXCEPT !.source = "any"]
                 T == {i \in Chosen(orders, unfiltered, asked.period) : orders[i].delivery # {}}
                 rows == by("sales_total", "source", T)
             IN  IF 1 \in DOMAIN rows THEN Same(rows[1], Whole(total("sales_total"))) ELSE S = {}
        /\ Same(reported("sales_total")[Everything], Whole(Aggregate(orders, "sales_total", all)))
        /\ Same(SumOf(reported("sales_by_source")), reported("sales_total")[Everything])
        /\ SumFunction([i \in DOMAIN sold |-> sold[i][2]]) = total("quantity_sold")
        /\ customers.total_order_count = total("order_count")
        /\ customers.unique_clients <= customers.identified_order_count

NeverFalls(points) == IsSorted(points, <=)

\* Of a series.
TrendWhole(answer) ==
  /\ ToSet(answer.days) = IF asked.period = {} THEN DOMAIN Told(asked.metric, reads)
                          ELSE asked.period
  /\ asked.metric \in BaseMetrics =>
       SumFunction(answer.points) = SumFunction(Told(asked.metric, reads))
  /\ NeverFalls(answer.points) => \A s \in answer.slope : Direction(s) # "down"

\* Of a ranking.
RankingWhole(answer) ==
  LET in == ToSet(answer.ranked)
      n == Cardinality(DOMAIN answer.share)
      shares == [b \in DOMAIN answer.share |-> Coalesced(answer.share[b])]
  IN  /\ Cardinality(in) = IF n < asked.k THEN n ELSE asked.k
      /\ \A b \in in, c \in DOMAIN answer.items \ in :
           IF asked.direction = "desc" THEN answer.items[b] >= answer.items[c]
           ELSE answer.items[b] <= answer.items[c]
      /\ answer.total # 0 /\ asked.metric \in BaseMetrics /\ asked.dim # "category" =>
           2 * (SumFunction(shares) - 10000) \in -n .. n

\* n is the integer nearest to x / d, or one of the two.
Nearest(n, x, d) == 2 * (n * d - x) \in IF d > 0 THEN -d .. d ELSE d .. -d

\* A rate a day, and the change from a figure to another, as they are told.
RateWhole(is, v, days) ==
  IF days = 0 THEN is.value = {} ELSE \E r \in is.value : Nearest(r, v, days)

ChangeWhole(is, formula, v, previous) ==
  /\ formula = "delta" => is.value = {v - previous}
  /\ formula = "percent_change" =>
       IF previous = 0 THEN is.warning = {"division_by_zero"}
       ELSE \E r \in is.value : Nearest(r, 10000 * (v - previous), previous)

\* Of the calculations of a plan, against the figures of the same answer.
CalculationsWhole(answer) ==
  \A c \in asked.calculations :
    LET is == answer.derived[c]
        rate == c.formula = "per_day_rate" /\ c.of = asked.metric /\ c.by = "day_count"
        change == asked.kind = "comparison" /\ c.of = asked.metric /\ c.by = "previous"
    IN  /\ is.value = {} <=> is.warning # {}
        /\ is.warning \subseteq answer.warnings
        /\ asked.kind = "total" /\ c.by = "previous" => is.warning = {"missing_operand"}
        /\ rate => RateWhole(is, answer.value, Cardinality(asked.period))
        /\ change => ChangeWhole(is, c.formula, answer.value, answer.previous)

\* Of a report by source.
ReportWhole(answer) ==
  LET shares == [b \in DOMAIN answer.derived |-> Coalesced(answer.derived[b].value)]
  IN  SumFunction(answer.items) # 0 => SumFunction(shares) - 10000 \in {-1, 0, 1}

(* A figure computed from others tells the whole of what it stands for.  A  *)
(* series has each day of its period once and, when a metric can be added   *)
(* up, the total of the days it covers; a series that never falls is not    *)
(* said to fall.  No bucket left out of a ranking is better than one in it, *)
(* by the direction of the plan (a model may ask for the lowest by the name *)
(* of top_k), and shares add up to 100 but for what rounding moves.  What a *)
(* plan has calculated is there or there is a warning that it is not; and   *)
(* the delta, the percentage and the rate a day are those of the figures    *)
(* told with them, to the nearest hundredth (calc_tools.py:82-117).         *)
AnswersWhole ==
  told.outcome = "served" =>
    /\ asked.kind = "trend" => TrendWhole(told.answer)
    /\ asked.kind = "ranking" => RankingWhole(told.answer)
    /\ asked.kind \in {"total", "comparison"} => CalculationsWhole(told.answer)
    /\ asked.kind = "report" /\ asked.metric = "sales_by_source" => ReportWhole(told.answer)
=============================================================================

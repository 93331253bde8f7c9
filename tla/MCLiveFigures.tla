---------------------------- MODULE MCLiveFigures ----------------------------
(* An instance of LiveFigures for TLC: three orders, of six that differ where *)
(* the statements look, read for one of the questions while one is written. *)
EXTENDS LiveFigures, TLC

Line(n, c, g, q) == [item |-> n, category |-> c, gross |-> g, quantity |-> q]
Paid(m, a) == [method |-> m, amount |-> a]
\* Day 2, taken away, with nothing in final_total; the second item has no group.
Sold == [profile |-> 1, day |-> {2}, branch |-> {1}, delivery |-> {TRUE}, final |-> {0},
         total |-> {10}, discount |-> {}, client |-> {1},
         items |-> <<Line(1, 1, 6, 2), Line(2, Unknown, 3, 1)>>, payments |-> <<Paid(2, 10)>>]
Taken == [Sold EXCEPT !.delivery = {FALSE}, !.client = {2}]
\* Day 3, no mark of delivery, a discount, and paid in two ways.
Marked == [Sold EXCEPT !.day = {3}, !.branch = {2}, !.delivery = {}, !.final = {7},
                       !.discount = {2}, !.client = {}, !.items = <<Line(1, 1, 8, 1)>>,
                       !.payments = <<Paid(1, 4), Paid(2, 3)>>]
\* Day 4, given away: a discount and no sales; its only line costs nothing.
Given == [Marked EXCEPT !.day = {4}, !.delivery = {FALSE}, !.final = {}, !.total = {0},
                        !.items = <<Line(3, 2, 0, 1)>>, !.payments = << >>]
\* Of no day and no branch, with no lines; and an order of another profile.
Undated == [Sold EXCEPT !.day = {}, !.branch = {}, !.items = << >>]
Foreign == [Sold EXCEPT !.profile = 2]
MCRow == {Sold, Taken, Marked, Given, Undated, Foreign}

MCFullyNamed == {1, 3}

\* Orders are told apart by their rows only.
Orders == Permutations(OrderId)

Profile(b, s) == [profile |-> 1, branches |-> b, source |-> s]
Ask(k, m, d, p) ==
  [kind |-> k, metric |-> m, dim |-> d, period |-> p, scope |-> Profile({}, "any"),
   mode |-> "top_k", direction |-> "desc", k |-> 1, calculations |-> {},
   find |-> {}, exclude |-> {}]
\* What the rules have calculated, and what a model may: nothing, or too much.
Calculation(f, x, y) == [formula |-> f, of |-> x, by |-> y]
PerDay(m) == {Calculation("per_day_rate", m, "day_count")}
Change(m) == {Calculation(f, m, "previous") : f \in {"delta", "percent_change"}}
Having(q, c) == [q EXCEPT !.calculations = c]
Within(q, b, s) == [q EXCEPT !.scope = Profile(b, s)]

MCQuestion ==
  {Ask("total", "average_check", "none", 2..4)}
  \cup {Having(Ask("total", m, "none", 2..4), PerDay(m)) :
          m \in {"discount_share", "discounted_order_share", "items_per_order"}}
  \cup {Having(Ask("total", "gross_sales_total", "none", {}),
               PerDay("gross_sales_total") \cup Change("gross_sales_total")
                 \cup {Calculation("share_percent", "discount_amount", "sales_total")}),
        Within(Ask("total", "discounted_order_share", "none", 2..4), {2}, "in_store")}
  \cup {Having(Ask("comparison", "sales_total", "none", 3..4),
               PerDay("sales_total") \cup Change("sales_total")),
        Having(Ask("comparison", "average_check", "none", 3..4), Change("average_check")),
        Having(Ask("comparison", "order_count", "none", {}),
               PerDay("order_count") \cup Change("order_count")),
        Ask("comparison", "discount_share", "none", 3..4)}
  \cup {Ask("breakdown", "discounted_order_share", d, p) :
          d \in {"source", "branch", "day"}, p \in {{}, 2..4}}
  \cup {Ask("breakdown", "average_check", d, 2..4) : d \in {"category", "payment_method"}}
  \cup {[Ask("ranking", "sales_total", d, 2..4) EXCEPT !.direction = a] :
          d \in {"source", "branch", "category"}, a \in {"desc", "asc"}}
  \cup {Ask("trend", m, "day", p) :
          m \in {"sales_total", "discounted_order_share"}, p \in {{}, 2..4}}
  \cup {Ask("report", m, "none", 2..4) :
          m \in {"sales_total", "order_count", "average_check", "sales_by_source"}}
  \cup {Within(Ask("report", "sales_by_source", "none", 2..4), {1}, "takeaway"),
        Within(Ask("report", "sales_total", "none", 2..4), {}, "in_store"),
        Within(Ask("customers", "customers", "none", 2..4), {}, "takeaway"),
        Ask("items", "item_revenue", "none", 2..4),
        [Ask("items", "distinct_orders", "none", 2..4) EXCEPT !.find = {1, 2}],
        [Ask("items", "quantity_sold", "none", 2..4) EXCEPT !.exclude = {3}, !.mode = "bottom_k"]}
=============================================================================

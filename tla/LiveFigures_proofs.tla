------------------------- MODULE LiveFigures_proofs --------------------------
(***************************************************************************)
(* Proofs about LiveFigures: its types, and that its quotients have their  *)
(* divisor, its figures agree and its answers are whole, for any orders,   *)
(* any question and any number of rows written while it is read.           *)
(***************************************************************************)
EXTENDS LiveFigures, OrderFigures_proofs

-----------------------------------------------------------------------------
(* What is read for a question *)

Divided == {"average_check", "items_per_order", "discounted_order_share"}

\* What a metric depends on, in the order in which it is read.
LEMMA OperandsOf ==
  ASSUME NEW m \in MetricName, Dependencies[m] \subseteq LiveBaseMetrics
  PROVE  /\ Operands(m) \in Seq(Dependencies[m])
         /\ Len(Operands(m)) \in {1, 2}
         /\ m \in BaseMetrics => Operands(m) = <<m>>
         /\ m \in DerivedMetrics => Len(Operands(m)) = 2 /\ Operands(m)[1] # Operands(m)[2]
         /\ m \in Divided => Operands(m)[2] = Divisor /\ Operands(m)[1] # Divisor
         /\ m = "discounted_order_share" => Operands(m)[1] = Part
<1>1. m # "refund_rate"  BY LiveMetrics DEF Dependencies
<1>2. CASE m \in BaseMetrics
  <2>1. Operands(m) = <<m>> /\ Dependencies[m] = {m}
    BY <1>2 DEF Operands, Dependencies, BaseMetrics
  <2>2. m \notin DerivedMetrics /\ m \notin Divided
    BY <1>2 DEF BaseMetrics, DerivedMetrics, Divided
  <2>3. <<m>> \in Seq({m}) /\ Len(<<m>>) = 1  OBVIOUS
  <2> QED  BY <2>1, <2>2, <2>3 DEF Divided
<1>3. CASE m \in DerivedMetrics
  <2>1. m \notin BaseMetrics  BY <1>3 DEF BaseMetrics, DerivedMetrics
  <2>2. m \in {"gross_sales_total", "average_check", "items_per_order", "discount_share",
               "discounted_order_share"}
    BY <1>1, <1>3 DEF DerivedMetrics
  <2>3. PICK x, y : Operands(m) = <<x, y>> /\ x # y /\ Dependencies[m] = {x, y}
    BY <2>2 DEF Operands, Dependencies
  <2>4. <<x, y>> \in Seq({x, y}) /\ Len(<<x, y>>) = 2  OBVIOUS
  <2>5. /\ m \in Divided => Operands(m)[2] = Divisor /\ Operands(m)[1] # Divisor
        /\ m = "discounted_order_share" => Operands(m)[1] = Part
    BY <2>2 DEF Operands, Divided, Divisor, Part
  <2> QED  BY <2>1, <2>3, <2>4, <2>5
<1> QED  BY <1>2, <1>3 DEF MetricName

ByOf(q) ==
  CASE q.kind \in {"total", "comparison"} -> "none"
    [] Grouped(q) -> q.dim
    [] OTHER -> "day"

PeriodOf(q, j) == IF j <= Len(ReadOrder(q.metric)) THEN q.period ELSE Previous(q.period)

\* What the schemas let a question ask.
LEMMA QuestionOf ==
  ASSUME NEW q \in Question, Retrieval(q)
  PROVE  /\ q.metric \in MetricName /\ Dependencies[q.metric] \subseteq LiveBaseMetrics
         /\ ByOf(q) \in Dims
         /\ \A m \in Dependencies[q.metric] : Served1(m, ByOf(q))
<1>1. q.metric \in MetricName /\ Dependencies[q.metric] \subseteq LiveBaseMetrics
  BY QuestionsAssumption
<1>2. CASE Grouped(q)
  <2>1. /\ q.dim \in {"source", "day", "branch", "category", "payment_method"}
        /\ Dependencies[q.metric] \subseteq BreakdownMetrics(q.dim)
    BY <1>2, QuestionsAssumption
  <2>2. ByOf(q) = q.dim  BY <1>2 DEF ByOf, Grouped
  <2> QED  BY <1>1, <2>1, <2>2 DEF Dims, Single, Served1
<1>3. CASE ~ Grouped(q)
  <2>1. ByOf(q) \in {"none", "day"}  BY <1>3 DEF ByOf
  <2> QED  BY <1>1, <2>1 DEF Dims, Single, Served1
<1> QED  BY <1>2, <1>3

\* The statements of a comparison.
LEMMA ComparisonReads ==
  ASSUME NEW q, q.kind = "comparison"
  PROVE  Statements(q) = StatementsFor(q.metric, "none", q.period)
                           \o StatementsFor(q.metric, "none", Previous(q.period))
<1> DEFINE a == StatementsFor(q.metric, "none", q.period)
           b == StatementsFor(q.metric, "none", Previous(q.period))
           c == StatementsFor(q.metric, q.dim, q.period)
           e == StatementsFor(q.metric, "day", q.period)
<1>1. Statements(q) = CASE q.kind = "total" -> a
                        [] q.kind = "comparison" -> a \o b
                        [] Grouped(q) -> c
                        [] q.kind = "trend" -> e
                        [] OTHER -> <<[of |-> q.metric, by |-> q.kind, period |-> q.period]>>
  BY DEF Statements
<1>2. q.kind # "total" /\ q.kind # "trend" /\ ~ Grouped(q)  BY DEF Grouped
<1> DEFINE g == a \o b
<1> HIDE DEF a, b, c, e, g
<1>3. Statements(q) = g  BY <1>1, <1>2 DEF g
<1> QED  BY <1>3 DEF g, a, b

\* The statements of a retrieval, by their place.
LEMMA StatementsOf ==
  ASSUME NEW q \in Question, Retrieval(q)
  PROVE  LET n == Len(ReadOrder(q.metric))
             s == Statements(q)
         IN  /\ n \in {1, 2}
             /\ Len(s) = IF q.kind = "comparison" THEN 2 * n ELSE n
             /\ \A j \in 1..Len(s) :
                  /\ s[j].of = ReadOrder(q.metric)[IF j <= n THEN j ELSE j - n]
                  /\ s[j].of \in Dependencies[q.metric]
                  /\ s[j].by = ByOf(q)
                  /\ s[j].period = PeriodOf(q, j)
<1> DEFINE m == q.metric
           n == Len(ReadOrder(m))
           d == ByOf(q)
           X == [of : Dependencies[m], by : {d}, period : {q.period, Previous(q.period)}]
           A == StatementsFor(m, d, q.period)
           B == StatementsFor(m, d, Previous(q.period))
<1>1. ReadOrder(m) \in Seq(Dependencies[m]) /\ n \in {1, 2}
  BY QuestionOf, OperandsOf DEF ReadOrder
<1>2. \A p \in {q.period, Previous(q.period)} :
        LET s == StatementsFor(m, d, p)
        IN  /\ s \in Seq(X) /\ Len(s) = n
            /\ \A j \in 1..n : s[j] = [of |-> ReadOrder(m)[j], by |-> d, period |-> p]
  <2> SUFFICES ASSUME NEW p \in {q.period, Previous(q.period)}
               PROVE  LET s == StatementsFor(m, d, p)
                      IN  /\ s \in Seq(X) /\ Len(s) = n
                          /\ \A j \in 1..n : s[j] = [of |-> ReadOrder(m)[j], by |-> d,
                                                     period |-> p]
    OBVIOUS
  <2> DEFINE s == StatementsFor(m, d, p)
             R == ReadOrder(m)
             k == Len(R)
  <2>1. s = [j \in DOMAIN R |-> [of |-> R[j], by |-> d, period |-> p]]
    BY DEF StatementsFor
  <2>2. DOMAIN R = 1..k /\ k \in Nat /\ \A j \in 1..k : R[j] \in Dependencies[m]
    BY <1>1
  <2> HIDE DEF R, s, k
  <2>3. s = [j \in 1..k |-> [of |-> R[j], by |-> d, period |-> p]]
    BY <2>1, <2>2
  <2>4. \A j \in 1..k : s[j] = [of |-> R[j], by |-> d, period |-> p]  BY <2>3
  <2>5. \A j \in 1..k : s[j] \in X
    <3> HIDE DEF d
    <3> SUFFICES ASSUME NEW j \in 1..k PROVE s[j] \in X  OBVIOUS
    <3>1. R[j] \in Dependencies[m] /\ s[j] = [of |-> R[j], by |-> d, period |-> p]
      BY <2>2, <2>4
    <3> QED  BY <3>1
  <2> HIDE DEF X
  <2>6. s \in [1..k -> X]  BY <2>3, <2>5
  <2>7. s \in Seq(X) /\ Len(s) = k  BY <2>2, <2>6
  <2> QED  BY <2>4, <2>7 DEF s, R, k
<1>3. /\ A \in Seq(X) /\ Len(A) = n /\ B \in Seq(X) /\ Len(B) = n
      /\ \A j \in 1..n : A[j] = [of |-> ReadOrder(m)[j], by |-> d, period |-> q.period]
      /\ \A j \in 1..n : B[j] = [of |-> ReadOrder(m)[j], by |-> d,
                                 period |-> Previous(q.period)]
  BY <1>2
<1>4. \A j \in 1..n : ReadOrder(m)[j] \in Dependencies[m]  BY <1>1
<1>5. CASE q.kind = "comparison"
  <2>1. Statements(q) = A \o B
    <3>1. d = "none"  BY <1>5 DEF ByOf, Grouped
    <3>2. A = StatementsFor(m, "none", q.period)
          /\ B = StatementsFor(m, "none", Previous(q.period))
      BY <3>1
    <3> HIDE DEF A, B
    <3>3. Statements(q) = StatementsFor(m, "none", q.period)
                            \o StatementsFor(m, "none", Previous(q.period))
      BY <1>5, ComparisonReads, Zenon
    <3> QED  BY <3>2, <3>3, Zenon
  <2> HIDE DEF A, B, n, X, d
  <2>2. Len(A \o B) = n + n
    <3>1. A \in Seq(X) /\ B \in Seq(X) /\ Len(A) = n /\ Len(B) = n  BY <1>3
    <3> QED  BY <3>1
  <2>3. \A j \in 1..(n + n) : (A \o B)[j] = IF j <= n THEN A[j] ELSE B[j - n]
    BY <1>1, <1>3
  <2> DEFINE s == Statements(q)
  <2>4. Len(s) = 2 * n  BY <1>1, <2>1, <2>2
  <2>5. ASSUME NEW j \in 1..Len(s), j <= n
        PROVE  /\ s[j].of = ReadOrder(m)[j] /\ s[j].by = d /\ s[j].period = q.period
               /\ s[j].of \in Dependencies[m]
    <3>1. j \in 1..n /\ j \in 1..(n + n)  BY <1>1, <2>4, <2>5
    <3>2. s[j] = A[j]  BY <2>1, <2>3, <2>5, <3>1
    <3> QED  BY <1>3, <1>4, <3>1, <3>2
  <2>6. ASSUME NEW j \in 1..Len(s), ~ j <= n
        PROVE  /\ s[j].of = ReadOrder(m)[j - n] /\ s[j].by = d
               /\ s[j].period = Previous(q.period)
               /\ s[j].of \in Dependencies[m]
    <3>1. j - n \in 1..n /\ j \in 1..(n + n)  BY <1>1, <2>4, <2>6
    <3>2. s[j] = B[j - n]  BY <2>1, <2>3, <2>6, <3>1
    <3> QED  BY <1>3, <1>4, <3>1, <3>2
  <2> HIDE DEF s
  <2> QED  BY <1>1, <1>5, <2>4, <2>5, <2>6 DEF PeriodOf, n, d, s
<1>6. CASE q.kind # "comparison"
  <2>1. Statements(q) = A
    BY <1>6 DEF Statements, ByOf, Retrieval, Grouped
  <2> HIDE DEF A, B, X, d
  <2>2. \A j \in 1..Len(Statements(q)) :
          /\ j \in 1..n /\ j <= n
          /\ Statements(q)[j] = [of |-> ReadOrder(m)[j], by |-> d, period |-> q.period]
    BY <1>1, <1>3, <2>1
  <2>3. Len(Statements(q)) = n  BY <1>3, <2>1
  <2> DEFINE s == Statements(q)
             R == ReadOrder(m)
             p == q.period
  <2>4. ASSUME NEW j \in 1..Len(s)
        PROVE  /\ j <= n
               /\ s[j].of = R[j] /\ s[j].of \in Dependencies[m]
               /\ s[j].by = d /\ s[j].period = p
    <3> DEFINE t == s[j]
    <3>1. /\ j \in 1..n /\ j <= n
          /\ t = [of |-> R[j], by |-> d, period |-> p]
      BY <2>2
    <3>2. R[j] \in Dependencies[m]  BY <1>4, <3>1
    <3> HIDE DEF t, R, p
    <3>3. t.of = R[j] /\ t.by = d /\ t.period = p  BY <3>1
    <3> QED  BY <3>1, <3>2, <3>3 DEF t
  <2> HIDE DEF s
  <2> QED  BY <1>1, <1>6, <2>3, <2>4 DEF PeriodOf, d, s
<1> QED  BY <1>5, <1>6

\* What each of them reads.
LEMMA ReadBy ==
  ASSUME NEW q \in Question, Retrieval(q), NEW j \in 1..Len(Statements(q))
  PROVE  /\ Statements(q)[j].by = ByOf(q)
         /\ Statements(q)[j].of \in Dependencies[q.metric]
         /\ Statements(q)[j].period = PeriodOf(q, j)
<1> DEFINE n == Len(ReadOrder(q.metric))
           s == Statements(q)
<1>1. \A i \in 1..Len(s) :
        /\ s[i].of = ReadOrder(q.metric)[IF i <= n THEN i ELSE i - n]
        /\ s[i].of \in Dependencies[q.metric]
        /\ s[i].by = ByOf(q)
        /\ s[i].period = PeriodOf(q, i)
  BY StatementsOf, Zenon
<1> HIDE DEF n, s
<1>2. j \in 1..Len(s)  BY DEF s
<1>3. /\ s[j].by = ByOf(q) /\ s[j].of \in Dependencies[q.metric]
      /\ s[j].period = PeriodOf(q, j)
  BY <1>1, <1>2
<1> QED  BY <1>3 DEF s

-----------------------------------------------------------------------------
(* Types *)

SeqLike(s) == s \in Seq({s[j] : j \in DOMAIN s})

\* A sequence with one more element.
LEMMA AppendLike ==
  ASSUME NEW s, SeqLike(s), NEW e
  PROVE  /\ Len(s) \in Nat
         /\ SeqLike(Append(s, e))
         /\ Len(Append(s, e)) = Len(s) + 1
         /\ \A j \in 1..Len(s) : Append(s, e)[j] = s[j]
         /\ Append(s, e)[Len(s) + 1] = e
<1> DEFINE X == {s[j] : j \in DOMAIN s} \cup {e}
           t == Append(s, e)
           n == Len(s)
<1>1. s \in Seq(X) /\ e \in X
  <2>1. s \in [1..Len(s) -> {s[j] : j \in DOMAIN s}] /\ Len(s) \in Nat  BY DEF SeqLike
  <2>2. s \in [1..Len(s) -> X]  BY <2>1
  <2> HIDE DEF X
  <2>3. s \in Seq(X)  BY <2>1, <2>2
  <2> QED  BY <2>3 DEF X
<1> HIDE DEF X
<1>2. /\ t \in Seq(X) /\ Len(t) = n + 1 /\ n \in Nat
      /\ \A j \in 1..n : t[j] = s[j]
      /\ t[n + 1] = e
  BY <1>1
<1>3. t \in [1..Len(t) -> {t[j] : j \in DOMAIN t}] /\ Len(t) \in Nat
  <2> HIDE DEF t
  <2>1. DOMAIN t = 1..Len(t) /\ t = [j \in 1..Len(t) |-> t[j]] /\ Len(t) \in Nat
    BY <1>2
  <2> QED  BY <2>1
<1>4. SeqLike(t)
  <2> HIDE DEF t
  <2> QED  BY <1>3 DEF SeqLike
<1> QED  BY <1>2, <1>4

ReadOK(q, s, r) ==
  /\ Retrieval(q) => /\ IsRows(r)
                     /\ (s.by = "category" /\ s.of = "sales_total") \/ WholeRows(r)
                     /\ s.by = "none" => DOMAIN r = {Everything}
                     /\ s.by = "day" /\ s.period # {} => DOMAIN r \subseteq s.period
  /\ q.kind = "report" /\ q.metric = "sales_by_source" =>
       WholeRows(r) /\ DOMAIN r \subseteq {1, 2}

Tables == UNION {[S -> Row] : S \in SUBSET OrderId}

TypeOK ==
  /\ orders \in Tables
  /\ asked \in Question
  /\ SeqLike(reads) /\ Len(reads) <= Len(Statements(asked))
  /\ \A j \in 1..Len(reads) : ReadOK(asked, Statements(asked)[j], reads[j])
  /\ written \in Nat
  /\ moved \in BOOLEAN

\* The database has rows of orders, finitely many.
LEMMA OrdersOK ==
  ASSUME NEW os \in Tables
  PROVE  IsOrders(os)
<1>1. PICK S \in SUBSET OrderId : os \in [S -> Row]  BY DEF Tables
<1>2. IsFiniteSet(S)  BY OrdersAssumption, FS_Subset
<1>3. DOMAIN os = S /\ \A i \in S : os[i] \in Row  BY <1>1
<1> QED  BY <1>2, <1>3, OrdersAssumption DEF IsOrders

\* A day that is bucketed is a day of the period.
LEMMA DayBuckets ==
  ASSUME NEW os, NEW scope, NEW period, period # {}
  PROVE  BucketsIn(os, Chosen(os, scope, period), "day") \subseteq period
<1> SUFFICES ASSUME NEW i \in Chosen(os, scope, period)
             PROVE  BucketsOf(os[i], "day") \subseteq period
  BY DEF BucketsIn
<1>1. os[i].day # {} /\ os[i].day \subseteq period  BY DEF Chosen, Passes
<1>2. Coalesced(os[i].day) \in os[i].day
  <2>1. \E v \in os[i].day : TRUE  BY <1>1
  <2> QED  BY <1>1, <2>1 DEF Coalesced
<1>3. BucketsOf(os[i], "day") = {Coalesced(os[i].day)}  BY <1>1 DEF BucketsOf
<1> QED  BY <1>1, <1>2, <1>3

\* More orders fall into no fewer buckets.
LEMMA BucketsMore ==
  ASSUME NEW os, NEW S, NEW T \in SUBSET S, NEW d
  PROVE  BucketsIn(os, T, d) \subseteq BucketsIn(os, S, d)
BY DEF BucketsIn

\* Of the whole profile, by source.
LEMMA BySource ==
  ASSUME NEW os, IsOrders(os), NEW scope, NEW period
  PROVE  LET r == ReportRows(os, "sales_by_source", scope, period)
         IN  WholeRows(r) /\ DOMAIN r \subseteq {1, 2}
<1> DEFINE r == ReportRows(os, "sales_by_source", scope, period)
           of == [scope EXCEPT !.branches = {}]
           S == Chosen(os, of, period)
           rows == Statement(os, "sales_total", "source", S)
           A == CASE of.source = "any" -> {1, 2} [] of.source = "takeaway" -> {2} [] OTHER -> {1}
<1>1. r = [b \in A |-> IF b \in DOMAIN rows THEN rows[b] ELSE Whole(0)]
  BY DEF ReportRows
<1>2. A \subseteq {1, 2}
  <2> DEFINE x == of.source
  <2> HIDE DEF x
  <2>1. A = CASE x = "any" -> {1, 2} [] x = "takeaway" -> {2} [] OTHER -> {1}  BY DEF x
  <2> QED  BY <2>1
<1>3. WholeRows(rows)
  <2>1. S \in SUBSET DOMAIN os  BY ChosenIn
  <2>2. Served1("sales_total", "source")  BY LiveMetrics DEF Served1
  <2>3. "source" \in Dims  BY DEF Dims, Single
  <2> HIDE DEF S
  <2> QED  BY <2>1, <2>2, <2>3, StatementType
<1> HIDE DEF A, rows, r
<1>4. IsFiniteSet(A) /\ A \subseteq Int
  <2>1. IsFiniteSet({1} \cup {2})  BY FS_Singleton, FS_AddElement
  <2>2. A \in SUBSET ({1} \cup {2})  BY <1>2
  <2>3. IsFiniteSet(A)  BY <2>1, <2>2, FS_Subset
  <2> QED  BY <2>2, <2>3
<1>5. \A b \in A : r[b] \in Frac /\ r[b][1] \in Int /\ r[b] = Whole(r[b][1])
  <2> SUFFICES ASSUME NEW b \in A
               PROVE  r[b] \in Frac /\ r[b][1] \in Int /\ r[b] = Whole(r[b][1])
    OBVIOUS
  <2>1. CASE b \in DOMAIN rows
    <3>1. rows[b] \in Frac /\ rows[b][1] \in Int /\ rows[b] = Whole(rows[b][1])
      BY <1>3, <2>1 DEF WholeRows, IsRows
    <3>2. r[b] = rows[b]  BY <1>1, <2>1
    <3> QED  BY <3>1, <3>2
  <2>2. CASE b \notin DOMAIN rows
    <3>1. r[b] = Whole(0)  BY <1>1, <2>2
    <3> QED  BY <3>1, WholeType
  <2> QED  BY <2>1, <2>2
<1>6. r = [b \in A |-> r[b]]  BY <1>1
<1>7. IsRows(r) /\ DOMAIN r = A  BY <1>4, <1>5, <1>6, RowsFrom
<1> QED  BY <1>2, <1>5, <1>7 DEF WholeRows, r

\* A question has finitely many statements.
LEMMA StatementsLength ==
  ASSUME NEW q \in Question
  PROVE  Len(Statements(q)) \in Nat
<1>1. CASE Retrieval(q)  BY <1>1, StatementsOf
<1>2. CASE ~ Retrieval(q)
  <2>1. Statements(q) = <<[of |-> q.metric, by |-> q.kind, period |-> q.period]>>
    BY <1>2 DEF Statements, Retrieval, Grouped
  <2> QED  BY <2>1
<1> QED  BY <1>1, <1>2

\* What a statement answers has its type.
LEMMA AnsweredOK ==
  ASSUME TypeOK, NEW j \in 1..Len(Statements(asked))
  PROVE  ReadOK(asked, Statements(asked)[j], Answered(asked, Statements(asked)[j]))
<1> DEFINE s == Statements(asked)[j]
           r == Answered(asked, s)
           S == Chosen(orders, asked.scope, s.period)
<1>1. IsOrders(orders) /\ S \in SUBSET DOMAIN orders  BY OrdersOK, ChosenIn DEF TypeOK
<1>2. ASSUME Retrieval(asked)
      PROVE  /\ IsRows(r)
             /\ (s.by = "category" /\ s.of = "sales_total") \/ WholeRows(r)
             /\ s.by = "none" => DOMAIN r = {Everything}
             /\ s.by = "day" /\ s.period # {} => DOMAIN r \subseteq s.period
  <2>1. s.by \in Dims /\ Served1(s.of, s.by)
    BY <1>2, StatementsOf, QuestionOf DEF TypeOK
  <2>2. s.by \notin {"report", "items", "customers"}  BY <2>1 DEF Dims, Single
  <2>3. r = Statement(orders, s.of, s.by, S)  BY <2>2 DEF Answered
  <2> DEFINE J == Joined(orders, s.of, S)
  <2>4. /\ IsRows(r)
        /\ (s.by = "category" /\ s.of = "sales_total") \/ WholeRows(r)
        /\ DOMAIN r = IF s.by = "none" THEN {Everything} ELSE BucketsIn(orders, J, s.by)
    <3> HIDE DEF s, S
    <3> DEFINE t == Statement(orders, s.of, s.by, S)
    <3>1. /\ IsRows(t)
          /\ (s.by = "category" /\ s.of = "sales_total") \/ WholeRows(t)
          /\ DOMAIN t = IF s.by = "none" THEN {Everything} ELSE BucketsIn(orders, J, s.by)
      BY <1>1, <2>1, StatementType
    <3> HIDE DEF t, r, J
    <3>2. r = t  BY <2>3 DEF t
    <3> QED  BY <3>1, <3>2
  <2>5. ASSUME s.by = "day", s.period # {} PROVE DOMAIN r \subseteq s.period
    <3>1. J \in SUBSET S  BY JoinedIn
    <3>2. BucketsIn(orders, S, "day") \subseteq s.period  BY <2>5, DayBuckets
    <3>3. BucketsIn(orders, J, "day") \subseteq BucketsIn(orders, S, "day")
      BY <3>1, BucketsMore
    <3>4. DOMAIN r = BucketsIn(orders, J, "day")  BY <2>4, <2>5
    <3> HIDE DEF r, J, S, s
    <3> QED  BY <3>2, <3>3, <3>4
  <2> QED  BY <2>4, <2>5
<1>3. ASSUME asked.kind = "report", asked.metric = "sales_by_source"
      PROVE  WholeRows(r) /\ DOMAIN r \subseteq {1, 2}
  <2>1. Statements(asked) = <<[of |-> asked.metric, by |-> asked.kind,
                               period |-> asked.period]>>
    BY <1>3 DEF Statements, Grouped
  <2>2. s = [of |-> asked.metric, by |-> asked.kind, period |-> asked.period]
    BY <2>1
  <2>3. s.by = "report" /\ s.of = "sales_by_source"  BY <1>3, <2>2
  <2>4. r = ReportRows(orders, "sales_by_source", asked.scope, s.period)
    BY <2>3 DEF Answered
  <2> QED  BY <1>1, <2>4, BySource
<1> QED  BY <1>2, <1>3 DEF ReadOK

(* The type invariant of the retrieval nodes: what has been read are the   *)
(* rows of the first statements of the question, one for every bucket that *)
(* the grouped statements answer (live_analytics.py:199-325).              *)
THEOREM LiveTypes == Spec => []TypeOK
<1>1. Init => TypeOK
  <2> SUFFICES ASSUME Init PROVE TypeOK  OBVIOUS
  <2>1. reads = << >> /\ SeqLike(reads) /\ Len(reads) = 0  BY DEF Init, Empty, SeqLike
  <2>2. asked \in Question  BY DEF Init
  <2>3. Len(Statements(asked)) \in Nat  BY <2>2, StatementsLength
  <2>4. orders \in Tables  BY DEF Init, Tables
  <2>5. written \in Nat /\ moved \in BOOLEAN  BY DEF Init
  <2> QED  BY <2>1, <2>2, <2>3, <2>4, <2>5 DEF TypeOK
<1>2. TypeOK /\ [Next]_vars => TypeOK'
  <2> SUFFICES ASSUME TypeOK, [Next]_vars PROVE TypeOK'  OBVIOUS
  <2>1. ASSUME NEW i \in OrderId, NEW row \in Row, SyncWrite(i, row) PROVE TypeOK'
    <3>1. PICK S \in SUBSET OrderId : orders \in [S -> Row]  BY DEF TypeOK, Tables
    <3>2. orders' \in [S \cup {i} -> Row]  BY <2>1, <3>1 DEF SyncWrite
    <3>3. orders' \in Tables  BY <3>2 DEF Tables
    <3>4. UNCHANGED <<asked, reads>> /\ written' = written + 1
          /\ moved' = (moved \/ (i \in DOMAIN orders
                                   /\ Place(asked, row) # Place(asked, orders[i])))
      BY <2>1 DEF SyncWrite
    <3> QED  BY <3>3, <3>4 DEF TypeOK
  <2>2. CASE Execute
    <3> DEFINE n == Len(reads)
               e == Answered(asked, Statements(asked)[n + 1])
    <3>1. /\ n < Len(Statements(asked)) /\ reads' = Append(reads, e)
          /\ UNCHANGED <<orders, asked, written, moved>>
      BY <2>2 DEF Execute
    <3>2. /\ n \in Nat /\ SeqLike(reads') /\ Len(reads') = n + 1
          /\ \A j \in 1..n : reads'[j] = reads[j]
          /\ reads'[n + 1] = e
      BY <3>1, AppendLike DEF TypeOK
    <3>3. ReadOK(asked, Statements(asked)[n + 1], e)
      <4>1. Len(Statements(asked)) \in Nat  BY StatementsLength DEF TypeOK
      <4>2. n + 1 \in 1..Len(Statements(asked))  BY <3>1, <3>2, <4>1
      <4> QED  BY <4>2, AnsweredOK
    <3>4. \A j \in 1..(n + 1) : ReadOK(asked, Statements(asked)[j], reads'[j])
      BY <3>2, <3>3 DEF TypeOK
    <3> QED  BY <3>1, <3>2, <3>4 DEF TypeOK
  <2>3. ASSUME UNCHANGED <<orders, asked, reads, written, moved>> PROVE TypeOK'
    BY <2>3 DEF TypeOK, ReadOK
  <2> QED
    BY <2>1, <2>2, <2>3 DEF Next, vars, Tell, FailReport, FailQuotient, FailDay, FailRanking,
      TellTotal,
      TellComparison, TellBreakdown, TellRanking, TellTrend, TellReport, TellBusiness
<1> QED  BY <1>1, <1>2, PTL DEF Spec

-----------------------------------------------------------------------------
(* QuotientsServed *)

At(r, b) == IF b \in DOMAIN r THEN r[b] ELSE Whole(0)
Behind(s, b) == In(orders, Chosen(orders, asked.scope, s.period), s.by, b)
Shared(q) == q.metric = "discounted_order_share"

\* What is divided has orders behind it, as of now.
Backed(s, r) ==
  \A b \in Int :
    /\ At(r, b)[1] # 0 => Behind(s, b) # {}
    /\ Shared(asked) => \E n \in Nat : At(r, b) = Whole(n) /\ n <= Cardinality(Behind(s, b))

\* What is divided by counts them.
Covered(q, r, t) ==
  \A b \in Int :
    /\ At(r, b)[1] # 0 => At(t, b)[1] # 0
    /\ Shared(q) => \E n, k \in Nat : At(r, b) = Whole(n) /\ At(t, b) = Whole(k) /\ n <= k

Quotient(q) == Retrieval(q) /\ q.metric \in Divided

Fed ==
  Quotient(asked) /\ ~ moved =>
    \A j \in {1, 3} : /\ Len(reads) = j => Backed(Statements(asked)[j], reads[j])
                      /\ Len(reads) > j => Covered(asked, reads[j], reads[j + 1])

\* The share of discounted orders is never read by what an order has many of.
LEMMA SharedSingle ==
  ASSUME NEW d \in Dims, Served1(Part, d)
  PROVE  d \in Single
<1>1. d # "category"
  BY DEF Served1, BreakdownMetrics, Part
<1>2. d # "payment_method"
  BY DEF Served1, BreakdownMetrics, Part
<1> QED  BY <1>1, <1>2 DEF Dims

\* A quotient is read in pairs, of the same bucket and period.
LEMMA QuotientReads ==
  ASSUME NEW q \in Question, Quotient(q)
  PROVE  LET s == Statements(q)
         IN  /\ Len(ReadOrder(q.metric)) = 2
             /\ Len(s) = IF q.kind = "comparison" THEN 4 ELSE 2
             /\ \A j \in {1, 3} : j \in 1..Len(s) =>
                  /\ j + 1 \in 1..Len(s)
                  /\ Served1(s[j].of, s[j].by) /\ s[j].by \in Dims
                  /\ s[j + 1].of = Divisor
                  /\ s[j + 1].by = s[j].by /\ s[j + 1].period = s[j].period
                  /\ Shared(q) => s[j].of = Part /\ s[j].by \in Single
<1> DEFINE s == Statements(q)
           R == ReadOrder(q.metric)
           m == q.metric
<1>1. /\ m \in MetricName /\ Dependencies[m] \subseteq LiveBaseMetrics
      /\ ByOf(q) \in Dims /\ \A x \in Dependencies[m] : Served1(x, ByOf(q))
  BY QuestionOf DEF Quotient
<1>2. R \in Seq(Dependencies[m]) /\ Len(R) = 2 /\ R[2] = Divisor
      /\ (Shared(q) => R[1] = Part)
  <2>1. m \in Divided  BY DEF Quotient
  <2>2. m \in DerivedMetrics  BY <2>1 DEF Divided, DerivedMetrics
  <2> QED  BY <1>1, <2>1, <2>2, OperandsOf DEF ReadOrder, Shared
<1>3. /\ Len(s) = IF q.kind = "comparison" THEN 4 ELSE 2
      /\ \A j \in 1..Len(s) :
           /\ s[j].of = R[IF j <= 2 THEN j ELSE j - 2]
           /\ s[j].of \in Dependencies[m]
           /\ s[j].by = ByOf(q)
           /\ s[j].period = PeriodOf(q, j)
  <2> DEFINE n == Len(R)
  <2>1. Retrieval(q)  BY DEF Quotient
  <2>2. /\ Len(s) = IF q.kind = "comparison" THEN 2 * n ELSE n
        /\ \A j \in 1..Len(s) :
             /\ s[j].of = R[IF j <= n THEN j ELSE j - n]
             /\ s[j].of \in Dependencies[m]
             /\ s[j].by = ByOf(q)
             /\ s[j].period = PeriodOf(q, j)
    BY <2>1, StatementsOf, Zenon
  <2>3. n = 2  BY <1>2
  <2> HIDE DEF n, s, R, m
  <2>4. Len(s) = IF q.kind = "comparison" THEN 4 ELSE 2  BY <2>2, <2>3
  <2> QED  BY <2>2, <2>3, <2>4
<1>4. Served1(Part, ByOf(q)) => ByOf(q) \in Single
  <2> DEFINE d == ByOf(q)
  <2>1. d \in Dims  BY <1>1
  <2> HIDE DEF d
  <2>2. Served1(Part, d) => d \in Single  BY <2>1, SharedSingle
  <2> QED  BY <2>2 DEF d
<1>5. Len(R) = 2  BY <1>2
<1> HIDE DEF s, R
<1>6. ASSUME NEW j \in {1, 3}, j \in 1..Len(s)
      PROVE  /\ j + 1 \in 1..Len(s)
             /\ Served1(s[j].of, s[j].by) /\ s[j].by \in Dims
             /\ s[j + 1].of = Divisor
             /\ s[j + 1].by = s[j].by /\ s[j + 1].period = s[j].period
             /\ Shared(q) => s[j].of = Part /\ s[j].by \in Single
  <2>1. j + 1 \in 1..Len(s)  BY <1>3, <1>6
  <2>2. s[j].of = R[1] /\ s[j + 1].of = R[2]  BY <1>3, <1>6, <2>1
  <2>3. s[j].by = ByOf(q) /\ s[j + 1].by = ByOf(q) /\ s[j].of \in Dependencies[m]
    BY <1>3, <1>6, <2>1
  <2>4. s[j].period = s[j + 1].period
    <3>1. PeriodOf(q, j) = PeriodOf(q, j + 1)  BY <1>5 DEF PeriodOf, R
    <3> QED  BY <1>3, <1>6, <2>1, <3>1
  <2>5. Served1(s[j].of, s[j].by)  BY <1>1, <2>3
  <2>6. Shared(q) => s[j].of = Part /\ s[j].by \in Single
    BY <1>2, <1>4, <2>2, <2>3, <2>5
  <2> QED  BY <1>1, <1>2, <2>1, <2>2, <2>3, <2>4, <2>5, <2>6
<1> QED  BY <1>3, <1>5, <1>6 DEF s, R

\* As it is when it is read.
LEMMA BackedWhenRead ==
  ASSUME TypeOK, Quotient(asked), NEW j \in {1, 3}, j \in 1..Len(Statements(asked))
  PROVE  Backed(Statements(asked)[j], Answered(asked, Statements(asked)[j]))
<1> DEFINE s == Statements(asked)[j]
           S == Chosen(orders, asked.scope, s.period)
           r == Answered(asked, s)
<1>1. IsOrders(orders) /\ S \in SUBSET DOMAIN orders  BY OrdersOK, ChosenIn DEF TypeOK
<1>2. /\ Served1(s.of, s.by) /\ s.by \in Dims
      /\ Shared(asked) => s.of = Part /\ s.by \in Single
  BY QuotientReads DEF TypeOK
<1>3. r = Statement(orders, s.of, s.by, S)  BY <1>2 DEF Answered, Dims, Single
<1> SUFFICES ASSUME NEW b \in Int
             PROVE  /\ At(r, b)[1] # 0 => In(orders, S, s.by, b) # {}
                    /\ Shared(asked) =>
                         \E n \in Nat : /\ At(r, b) = Whole(n)
                                        /\ n <= Cardinality(In(orders, S, s.by, b))
  BY DEF Backed, Behind
<1> HIDE DEF s, S, r
<1>4. b \notin DOMAIN r => At(r, b) = Whole(0) /\ At(r, b)[1] = 0  BY DEF At, Whole
<1>5. b \in DOMAIN r => At(r, b) = r[b]  BY DEF At
<1>6. At(r, b)[1] # 0 => In(orders, S, s.by, b) # {}
  BY <1>1, <1>2, <1>3, <1>4, <1>5, Backing
<1>7. ASSUME Shared(asked)
      PROVE  \E n \in Nat : At(r, b) = Whole(n) /\ n <= Cardinality(In(orders, S, s.by, b))
  <2>1. Cardinality(In(orders, S, s.by, b)) \in Nat
    BY <1>1, <1>2, <1>7, Parts
  <2>2. b \in DOMAIN r => \E n \in Nat : /\ r[b] = Whole(n)
                                         /\ n <= Cardinality(In(orders, S, s.by, b))
    BY <1>1, <1>2, <1>3, <1>7, Parts
  <2> QED  BY <1>4, <1>5, <2>1, <2>2
<1> QED  BY <1>6, <1>7

\* A divisor read later covers what it divides.
LEMMA CoveredWhenRead ==
  ASSUME TypeOK, Quotient(asked), NEW j \in {1, 3}, j \in 1..Len(Statements(asked)),
         NEW r, Backed(Statements(asked)[j], r)
  PROVE  Covered(asked, r, Answered(asked, Statements(asked)[j + 1]))
<1> DEFINE s == Statements(asked)[j]
           u == Statements(asked)[j + 1]
           S == Chosen(orders, asked.scope, s.period)
           t == Answered(asked, u)
           T(b) == In(orders, S, s.by, b)
<1>1. IsOrders(orders) /\ S \in SUBSET DOMAIN orders  BY OrdersOK, ChosenIn DEF TypeOK
<1>2. /\ s.by \in Dims /\ u.of = Divisor /\ u.by = s.by /\ u.period = s.period
      /\ Shared(asked) => s.by \in Single
  BY QuotientReads DEF TypeOK
<1>3. t = Statement(orders, Divisor, s.by, S)  BY <1>2 DEF Answered, Dims, Single
<1>4. Backed(s, r)  OBVIOUS
<1> SUFFICES ASSUME NEW b \in Int
             PROVE  /\ At(r, b)[1] # 0 => At(t, b)[1] # 0
                    /\ Shared(asked) => \E n, k \in Nat : /\ At(r, b) = Whole(n)
                                                          /\ At(t, b) = Whole(k) /\ n <= k
  BY DEF Covered
<1>5. /\ At(r, b)[1] # 0 => T(b) # {}
      /\ Shared(asked) => \E n \in Nat : At(r, b) = Whole(n) /\ n <= Cardinality(T(b))
  BY <1>4 DEF Backed, Behind
<1> HIDE DEF s, u, S, t
<1>6. T(b) # {} => b \in DOMAIN t /\ t[b][1] # 0
  BY <1>1, <1>2, <1>3, Counting
<1>7. At(r, b)[1] # 0 => At(t, b)[1] # 0  BY <1>5, <1>6 DEF At
<1>8. ASSUME Shared(asked)
      PROVE  At(t, b) = Whole(Cardinality(T(b))) /\ Cardinality(T(b)) \in Nat
  <2>1. /\ Cardinality(T(b)) \in Nat
        /\ b \in DOMAIN t => t[b] = Whole(Cardinality(T(b)))
    BY <1>1, <1>2, <1>3, <1>8, Parts
  <2>2. b \notin DOMAIN t => Cardinality(T(b)) = 0
    BY <1>6, FS_EmptySet
  <2> QED  BY <2>1, <2>2 DEF At
<1> QED  BY <1>5, <1>7, <1>8

-----------------------------------------------------------------------------

\* Orders are added to what has been counted, as long as none has moved.
LEMMA BehindGrows ==
  ASSUME TypeOK, NEW i \in OrderId, NEW row \in Row, SyncWrite(i, row), ~ moved',
         Quotient(asked), NEW j \in 1..Len(Statements(asked)), NEW b
  PROVE  LET s == Statements(asked)[j]
         IN  /\ Behind(s, b) \subseteq Behind(s, b)'
             /\ IsFiniteSet(Behind(s, b)')
<1> DEFINE s == Statements(asked)[j]
           d == s.by
           p == s.period
           scope == asked.scope
<1>1. /\ asked' = asked /\ orders' = [x \in DOMAIN orders \cup {i} |->
                                        IF x = i THEN row ELSE orders[x]]
      /\ i \in DOMAIN orders => Place(asked, row) = Place(asked, orders[i])
  BY DEF SyncWrite
<1>2. d = ByOf(asked) /\ p \in {asked.period, Previous(asked.period)}
  BY StatementsOf DEF TypeOK, Quotient, PeriodOf
<1>3. ASSUME i \in DOMAIN orders
      PROVE  /\ Passes(row, scope, p) <=> Passes(orders[i], scope, p)
             /\ BucketsOf(row, d) = BucketsOf(orders[i], d)
  <2> DEFINE e == IF asked.kind = "trend" THEN "day" ELSE asked.dim
             P(o) == [x \in {asked.period, Previous(asked.period)} |-> Passes(o, scope, x)]
  <2>1. \A o : Place(asked, o) = <<P(o), BucketsOf(o, e)>>  BY DEF Place
  <2>2. P(row) = P(orders[i]) /\ BucketsOf(row, e) = BucketsOf(orders[i], e)
    BY <1>1, <1>3, <2>1
  <2>3. P(row)[p] = P(orders[i])[p]  BY <2>2
  <2>4. Passes(row, scope, p) <=> Passes(orders[i], scope, p)
    BY <1>2, <2>3
  <2>5. CASE d = "none"  BY <2>4, <2>5 DEF BucketsOf
  <2>6. CASE d # "none"
    <3>1. d = e
      BY <1>2, <2>6 DEF ByOf, Quotient, Retrieval, Grouped
    <3> QED  BY <2>2, <2>4, <3>1
  <2> QED  BY <2>5, <2>6
<1> DEFINE C == Chosen(orders, scope, p)
           D == Chosen(orders', scope, p)
<1>7. s' = s /\ scope' = scope
  BY <1>1 DEF Statements, StatementsFor
<1>4. Behind(s, b) = In(orders, C, d, b) /\ Behind(s, b)' = In(orders', D, d, b)
  <2>1. Behind(s, b)' = In(orders', Chosen(orders', asked.scope', s'.period), s'.by, b)
    BY DEF Behind
  <2> HIDE DEF s
  <2> QED  BY <1>7, <2>1, Zenon DEF Behind
<1> HIDE DEF s
<1> HIDE DEF d, p, scope
<1>5. ASSUME NEW x \in In(orders, C, d, b) PROVE x \in In(orders', D, d, b)
  <2>1. x \in DOMAIN orders /\ Passes(orders[x], scope, p) /\ b \in BucketsOf(orders[x], d)
    BY DEF In, Chosen
  <2>2. x \in DOMAIN orders' /\ orders'[x] = IF x = i THEN row ELSE orders[x]
    BY <1>1, <2>1
  <2>3. Passes(orders'[x], scope, p) /\ b \in BucketsOf(orders'[x], d)
    BY <1>3, <2>1, <2>2
  <2> QED  BY <2>2, <2>3 DEF In, Chosen
<1>6. IsFiniteSet(In(orders', D, d, b))
  <2>1. DOMAIN orders' = DOMAIN orders \cup {i} /\ IsFiniteSet(DOMAIN orders)
    BY <1>1, OrdersOK DEF TypeOK, IsOrders
  <2>2. IsFiniteSet(DOMAIN orders \cup {i})  BY <2>1, FS_AddElement
  <2>3. In(orders', D, d, b) \in SUBSET (DOMAIN orders \cup {i})
    BY <2>1 DEF In, Chosen
  <2> QED  BY <2>2, <2>3, FS_Subset
<1> QED  BY <1>4, <1>5, <1>6 DEF s

\* Every step keeps the divisors that have been read.
LEMMA FedStep ==
  ASSUME TypeOK, Fed, [Next]_vars
  PROVE  Fed'
<1>1. ASSUME NEW i \in OrderId, NEW row \in Row, SyncWrite(i, row) PROVE Fed'
  <2> SUFFICES ASSUME Quotient(asked)', ~ moved', NEW j \in {1, 3}
               PROVE  /\ Len(reads') = j => Backed(Statements(asked)[j], reads[j])'
                      /\ Len(reads') > j => Covered(asked, reads[j], reads[j + 1])'
    BY DEF Fed
  <2>1. UNCHANGED <<asked, reads>> /\ ~ moved  BY <1>1 DEF SyncWrite
  <2>2. Quotient(asked)  BY <2>1 DEF Quotient
  <2>3. /\ Len(reads) = j => Backed(Statements(asked)[j], reads[j])
        /\ Len(reads) > j => Covered(asked, reads[j], reads[j + 1])
    BY <2>1, <2>2 DEF Fed
  <2>4. Covered(asked, reads[j], reads[j + 1])' = Covered(asked, reads[j], reads[j + 1])
    BY <2>1 DEF Covered
  <2>5. ASSUME Len(reads) = j PROVE Backed(Statements(asked)[j], reads[j])'
    <3> DEFINE s == Statements(asked)[j]
               r == reads[j]
    <3>1. j \in 1..Len(Statements(asked))
      BY <2>5, StatementsLength DEF TypeOK
    <3>2. Backed(s, r)  BY <2>3, <2>5
    <3>3. s' = s /\ r' = r /\ Shared(asked)' = Shared(asked)
      BY <2>1 DEF Statements, StatementsFor, Shared
    <3>4. ASSUME NEW b \in Int
          PROVE  /\ (At(r, b)[1] # 0 => Behind(s, b) # {})'
                 /\ (Shared(asked) => \E n \in Nat : /\ At(r, b) = Whole(n)
                                                     /\ n <= Cardinality(Behind(s, b)))'
      <4> DEFINE B == Behind(s, b)
                 C == Behind(s, b)'
      <4>1. B \subseteq C /\ IsFiniteSet(C)  BY <1>1, <2>2, <3>1, BehindGrows
      <4>2. Cardinality(B) \in Nat /\ Cardinality(C) \in Nat
            /\ Cardinality(B) <= Cardinality(C)
        BY <4>1, FS_Subset, FS_CardinalityType
      <4>3. /\ At(r, b)[1] # 0 => B # {}
            /\ Shared(asked) => \E n \in Nat : At(r, b) = Whole(n) /\ n <= Cardinality(B)
        BY <3>2 DEF Backed
      <4>4. At(r, b)' = At(r, b)  BY <3>3 DEF At
      <4> HIDE DEF B, C, s, r
      <4>5. /\ At(r, b)[1] # 0 => C # {}
            /\ Shared(asked) => \E n \in Nat : At(r, b) = Whole(n) /\ n <= Cardinality(C)
        BY <4>1, <4>2, <4>3
      <4> QED  BY <3>3, <4>4, <4>5 DEF C
    <3> QED  BY <3>4 DEF Backed
  <2> QED  BY <2>1, <2>3, <2>4, <2>5
<1>2. CASE Execute
  <2> DEFINE n == Len(reads)
             e == Answered(asked, Statements(asked)[n + 1])
  <2>1. /\ n < Len(Statements(asked)) /\ reads' = Append(reads, e)
        /\ UNCHANGED <<orders, asked, written, moved>>
    BY <1>2 DEF Execute
  <2>2. /\ n \in Nat /\ Len(reads') = n + 1
        /\ \A j \in 1..n : reads'[j] = reads[j]
        /\ reads'[n + 1] = e
    BY <2>1, AppendLike DEF TypeOK
  <2>3. n + 1 \in 1..Len(Statements(asked))
    BY <2>1, <2>2, StatementsLength DEF TypeOK
  <2> SUFFICES ASSUME Quotient(asked), ~ moved, NEW j \in {1, 3}
               PROVE  /\ Len(reads') = j => Backed(Statements(asked)[j], reads'[j])
                      /\ Len(reads') > j => Covered(asked, reads'[j], reads'[j + 1])
    BY <2>1 DEF Fed, Quotient, Backed, Covered, Behind, Shared, At
  <2>4. /\ Len(reads) = j => Backed(Statements(asked)[j], reads[j])
        /\ Len(reads) > j => Covered(asked, reads[j], reads[j + 1])
    BY DEF Fed
  <2> HIDE DEF e
  <2>5. ASSUME n + 1 = j PROVE Backed(Statements(asked)[j], reads'[j])
    BY <2>2, <2>3, <2>5, BackedWhenRead DEF e
  <2>6. ASSUME n = j PROVE Covered(asked, reads'[j], reads'[j + 1])
    <3>1. j \in 1..Len(Statements(asked)) /\ j \in 1..n
      BY <2>2, <2>3, <2>6
    <3>2. Backed(Statements(asked)[j], reads[j])  BY <2>4, <2>6
    <3>3. Covered(asked, reads[j], Answered(asked, Statements(asked)[j + 1]))
      BY <3>1, <3>2, CoveredWhenRead
    <3> QED  BY <2>2, <2>6, <3>1, <3>3 DEF e
  <2>7. ASSUME n > j PROVE Covered(asked, reads'[j], reads'[j + 1])
    <3>1. j \in 1..n /\ j + 1 \in 1..n  BY <2>2, <2>7
    <3> QED  BY <2>2, <2>4, <2>7, <3>1
  <2> QED  BY <2>2, <2>5, <2>6, <2>7
<1>3. ASSUME UNCHANGED <<orders, asked, reads, moved>> PROVE Fed'
  <2>1. /\ Quotient(asked)' = Quotient(asked) /\ moved' = moved /\ reads' = reads
        /\ Statements(asked)' = Statements(asked)
    BY <1>3 DEF Quotient, Statements, StatementsFor
  <2>2. \A s, r : Backed(s, r)' = Backed(s, r)
    BY <1>3 DEF Backed, Behind, Shared, At
  <2>3. \A r, t : Covered(asked, r, t)' = Covered(asked, r, t)
    BY <1>3 DEF Covered, Shared, At
  <2> QED  BY <2>1, <2>2, <2>3 DEF Fed
<1> QED
  BY <1>1, <1>2, <1>3 DEF Next, vars, Tell, FailReport, FailQuotient, FailDay, FailRanking,
      TellTotal,
    TellComparison, TellBreakdown, TellRanking, TellTrend, TellReport, TellBusiness

-----------------------------------------------------------------------------
(* What is told of what has been read *)

\* The first elements of a sequence.
LEMMA FirstPart ==
  ASSUME NEW s, SeqLike(s), NEW n \in Nat, n <= Len(s)
  PROVE  /\ DOMAIN SubSeq(s, 1, n) = 1..n /\ Len(SubSeq(s, 1, n)) = n
         /\ \A i \in 1..n : SubSeq(s, 1, n)[i] = s[i]
         /\ n = Len(s) => SubSeq(s, 1, n) = s
<1> DEFINE X == {s[j] : j \in DOMAIN s}
<1>1. s \in Seq(X)  BY DEF SeqLike
<1> HIDE DEF X
<1>2. /\ Len(SubSeq(s, 1, n)) = n /\ DOMAIN SubSeq(s, 1, n) = 1..n
      /\ \A i \in 1..n : SubSeq(s, 1, n)[i] = s[i]
  BY <1>1
<1>3. n = Len(s) => SubSeq(s, 1, n) = s
  BY <1>1
<1> QED  BY <1>2, <1>3

\* The last elements of a sequence.
LEMMA LastPart ==
  ASSUME NEW s, SeqLike(s), NEW n \in Nat, Len(s) = 2 * n
  PROVE  /\ DOMAIN SubSeq(s, n + 1, Len(s)) = 1..n
         /\ \A i \in 1..n : SubSeq(s, n + 1, Len(s))[i] = s[n + i]
<1> DEFINE X == {s[j] : j \in DOMAIN s}
<1>1. s \in Seq(X)  BY DEF SeqLike
<1> HIDE DEF X
<1> QED  BY <1>1

Fits(m, rs) == m \in MetricName /\ Dependencies[m] \subseteq LiveBaseMetrics
               /\ DOMAIN rs = DOMAIN Operands(m)

Figure(m, rs, b) == Formula(m, At(rs[1], b), At(rs[Len(Operands(m))], b))

\* The figures, with their cells named.
LEMMA FiguresAre ==
  ASSUME NEW m, NEW rs, Fits(m, rs)
  PROVE  Figures(m, rs) = [b \in Merged(rs) |-> Figure(m, rs, b)]
<1> DEFINE of == Operands(m)
           n == Len(of)
<1>1. /\ DOMAIN of = 1..n /\ n \in {1, 2}
      /\ n = 2 => of[1] # of[2]
  <2>1. /\ of \in Seq(Dependencies[m]) /\ n \in {1, 2}
        /\ m \in BaseMetrics => of = <<m>>
        /\ m \in DerivedMetrics => of[1] # of[2]
        /\ m \in BaseMetrics \/ m \in DerivedMetrics
    BY OperandsOf DEF Fits, MetricName
  <2>2. DOMAIN of = 1..n  BY <2>1
  <2>3. m \in BaseMetrics => n = 1
    <3>1. Len(<<m>>) = 1  OBVIOUS
    <3> HIDE DEF of
    <3> QED  BY <2>1, <3>1 DEF n
  <2> HIDE DEF of, n
  <2> QED  BY <2>1, <2>2, <2>3
<1>2. ASSUME NEW j \in 1..n, NEW b PROVE Cell(rs, m, of[j], b) = At(rs[j], b)
  <2> DEFINE c == CHOOSE i \in DOMAIN ReadOrder(m) : ReadOrder(m)[i] = of[j]
  <2>1. c = j
    <3>1. DOMAIN ReadOrder(m) = 1..n /\ ReadOrder(m) = of  BY <1>1 DEF ReadOrder
    <3>2. c \in 1..n /\ of[c] = of[j]
      <4>1. \E i \in DOMAIN ReadOrder(m) : ReadOrder(m)[i] = of[j]  BY <3>1
      <4>2. c \in DOMAIN ReadOrder(m) /\ ReadOrder(m)[c] = of[j]  BY <4>1
      <4> HIDE DEF c, of
      <4> QED  BY <3>1, <4>2
    <3> HIDE DEF c, of, n
    <3> QED  BY <1>1, <3>2
  <2>2. Cell(rs, m, of[j], b) = IF b \in DOMAIN rs[c] THEN rs[c][b] ELSE Whole(0)
    BY DEF Cell
  <2> HIDE DEF c
  <2> QED  BY <2>1, <2>2 DEF At
<1>3. 1 \in 1..n /\ n \in 1..n  BY <1>1
<1>4. \A b : Formula(m, Cell(rs, m, of[1], b), Cell(rs, m, of[n], b)) = Figure(m, rs, b)
  BY <1>2, <1>3 DEF Figure
<1> QED  BY <1>4 DEF Figures

\* A quotient is missing only where nothing is divided by.
LEMMA QuotientMissing ==
  ASSUME NEW m, NEW rs, Fits(m, rs), NoQuotient(m, rs)
  PROVE  /\ m \in Divided \cup {"discount_share"}
         /\ \E b \in Merged(rs) : At(rs[1], b)[1] # 0 /\ At(rs[2], b)[1] = 0
<1>1. PICK b \in Merged(rs) : Figure(m, rs, b) = {}
  BY FiguresAre DEF NoQuotient
<1>2. /\ m \notin BaseMetrics /\ m # "gross_sales_total"
      /\ At(rs[1], b)[1] # 0 /\ At(rs[Len(Operands(m))], b)[1] = 0
  BY <1>1, Zenon DEF Figure, Formula
<1>3. m # "refund_rate"  BY LiveMetrics DEF Fits, Dependencies, MetricName
<1>4. m \in DerivedMetrics  BY <1>2 DEF Fits, MetricName
<1>5. m \in Divided \cup {"discount_share"}
  BY <1>2, <1>3, <1>4 DEF DerivedMetrics, Divided
<1>6. Len(Operands(m)) = 2  BY <1>4, OperandsOf DEF Fits
<1> QED  BY <1>2, <1>5, <1>6

\* What is told is told of every bucket.
LEMMA ToldOf ==
  ASSUME NEW m, NEW rs, Fits(m, rs)
  PROVE  /\ DOMAIN Exact(m, rs) = Merged(rs) /\ DOMAIN Told(m, rs) = Merged(rs)
         /\ Exact(m, rs) = [b \in Merged(rs) |-> Exact(m, rs)[b]]
         /\ Told(m, rs) = [b \in Merged(rs) |-> Told(m, rs)[b]]
         /\ \A b \in Merged(rs) : /\ Told(m, rs)[b] = Quantized(Exact(m, rs)[b])
                                  /\ Exact(m, rs)[b] = CHOOSE v \in Figure(m, rs, b) : TRUE
<1>1. Figures(m, rs) = [b \in Merged(rs) |-> Figure(m, rs, b)]  BY FiguresAre
<1>2. Exact(m, rs) = [b \in Merged(rs) |-> CHOOSE v \in Figure(m, rs, b) : TRUE]
  BY <1>1 DEF Exact
<1>3. Told(m, rs) = [b \in Merged(rs) |-> Quantized(Exact(m, rs)[b])]
  BY <1>2 DEF Told
<1> QED  BY <1>2, <1>3

\* The part of the orders with a discount, in hundredths of a percent.
LEMMA ShareTold ==
  ASSUME NEW m, m = "discounted_order_share", NEW rs, Fits(m, rs), NEW b \in Merged(rs),
         NEW n \in Nat, NEW k \in Nat, n <= k, At(rs[1], b) = Whole(n), At(rs[2], b) = Whole(k)
  PROVE  Told(m, rs)[b] <= 100
<1>1. m \in DerivedMetrics /\ m \notin BaseMetrics /\ m # "gross_sales_total"
  BY DEF DerivedMetrics, BaseMetrics
<1>2. Len(Operands(m)) = 2  BY <1>1, OperandsOf DEF Fits
<1>3. Figure(m, rs, b) = IF k # 0 THEN {<<n, k>>} ELSE {<<0, 1>>}
  <2>1. Figure(m, rs, b) = Formula(m, <<n, 1>>, <<k, 1>>)
    BY <1>2 DEF Figure, Whole
  <2>2. Formula(m, <<n, 1>>, <<k, 1>>) = IF k # 0 THEN {<<n, k>>} ELSE {<<0, 1>>}
    BY <1>1 DEF Formula, Over, Whole
  <2> QED  BY <2>1, <2>2
<1>4. Exact(m, rs)[b] = IF k # 0 THEN <<n, k>> ELSE <<0, 1>>
  BY <1>3, ToldOf
<1>5. Quantized(<<n, k>>) <= 100 \/ k = 0  BY PartOfWhole
<1>6. Quantized(<<0, 1>>) <= 100  BY PartOfWhole
<1> QED  BY <1>4, <1>5, <1>6, ToldOf

-----------------------------------------------------------------------------
(* QuotientsServed, continued *)

\* What has been read of the period, and of the one before.
LEMMA ReadsOf ==
  ASSUME TypeOK, Retrieval(asked)
  PROVE  LET n == Len(ReadOrder(asked.metric))
             a == Asked(asked)
             b == Before(asked)
         IN  /\ n \in {1, 2}
             /\ Len(reads) = n => Fits(asked.metric, reads) /\ a = reads
             /\ Len(reads) >= n => /\ Fits(asked.metric, a)
                                   /\ \A j \in 1..n : a[j] = reads[j]
             /\ Len(reads) = 2 * n => /\ Fits(asked.metric, b)
                                      /\ \A j \in 1..n : b[j] = reads[n + j]
             /\ Finished => Len(reads) = IF asked.kind = "comparison" THEN 2 * n ELSE n
<1> DEFINE n == Len(ReadOrder(asked.metric))
           a == Asked(asked)
           b == Before(asked)
<1>1. /\ n \in {1, 2} /\ DOMAIN Operands(asked.metric) = 1..n
      /\ asked.metric \in MetricName /\ Dependencies[asked.metric] \subseteq LiveBaseMetrics
  BY QuestionOf, OperandsOf DEF TypeOK, ReadOrder
<1>2. SeqLike(reads) /\ Len(reads) \in Nat /\ DOMAIN reads = 1..Len(reads)
  BY DEF TypeOK, SeqLike
<1>3. \A rs : DOMAIN rs = 1..n => Fits(asked.metric, rs)  BY <1>1 DEF Fits
<1>4. Len(reads) >= n => /\ DOMAIN a = 1..n
                         /\ \A j \in 1..n : a[j] = reads[j]
                         /\ n = Len(reads) => a = reads
  <2> HIDE DEF n
  <2>1. n \in Nat  BY <1>1
  <2>2. a = SubSeq(reads, 1, n)  BY DEF Asked, n
  <2> QED  BY <1>2, <2>1, <2>2, FirstPart, ZenonT(30)
<1>5. Len(reads) = 2 * n => /\ DOMAIN b = 1..n
                            /\ \A j \in 1..n : b[j] = reads[n + j]
  <2> HIDE DEF n
  <2>1. n \in Nat  BY <1>1
  <2>2. b = SubSeq(reads, n + 1, Len(reads))  BY DEF Before, n
  <2> QED  BY <1>2, <2>1, <2>2, LastPart
<1>6. Finished => Len(reads) = IF asked.kind = "comparison" THEN 2 * n ELSE n
  <2>1. Len(Statements(asked)) = IF asked.kind = "comparison" THEN 2 * n ELSE n
    BY StatementsOf, Zenon DEF TypeOK
  <2> HIDE DEF n
  <2> QED  BY <2>1 DEF Finished
<1>7. n \in Nat  BY <1>1
<1> HIDE DEF n, a, b
<1>8. Len(reads) = n => Fits(asked.metric, reads) /\ a = reads
  BY <1>2, <1>3, <1>4, <1>7
<1>9. Len(reads) >= n => Fits(asked.metric, a) /\ \A j \in 1..n : a[j] = reads[j]
  BY <1>3, <1>4
<1>10. Len(reads) = 2 * n => Fits(asked.metric, b) /\ \A j \in 1..n : b[j] = reads[n + j]
  BY <1>3, <1>5
<1> QED  BY <1>1, <1>6, <1>8, <1>9, <1>10, Zenon DEF n, a, b

\* The buckets that have been read are numbers.
LEMMA BucketsAreNumbers ==
  ASSUME TypeOK, Retrieval(asked), NEW rs,
         \A j \in DOMAIN rs : \E i \in 1..Len(reads) : rs[j] = reads[i]
  PROVE  Merged(rs) \subseteq Int
<1>1. \A i \in 1..Len(reads) : DOMAIN reads[i] \subseteq Int
  BY DEF TypeOK, ReadOK, IsRows
<1> QED  BY <1>1 DEF Merged

\* A quotient is missing only when an order has moved.
LEMMA OnlyMoved ==
  ASSUME TypeOK, Fed, Retrieval(asked), NEW j \in {1, 3}, NEW rs, Fits(asked.metric, rs),
         Len(ReadOrder(asked.metric)) = 2 => /\ j + 1 <= Len(reads)
                                             /\ rs[1] = reads[j] /\ rs[2] = reads[j + 1],
         \A i \in DOMAIN rs : \E k \in 1..Len(reads) : rs[i] = reads[k],
         NoQuotient(asked.metric, rs)
  PROVE  moved \/ asked.metric = "discount_share"
<1> SUFFICES ASSUME ~ moved, asked.metric \in Divided PROVE FALSE
  BY QuotientMissing
<1>1. PICK b \in Merged(rs) : At(rs[1], b)[1] # 0 /\ At(rs[2], b)[1] = 0
  BY QuotientMissing
<1>2. b \in Int  BY BucketsAreNumbers
<1>3. Len(ReadOrder(asked.metric)) = 2
  <2>1. asked.metric \in DerivedMetrics  BY DEF Divided, DerivedMetrics
  <2> QED  BY <2>1, QuestionOf, OperandsOf DEF TypeOK, ReadOrder
<1>4. Len(reads) \in Nat  BY DEF TypeOK, SeqLike
<1>5. Covered(asked, reads[j], reads[j + 1])  BY <1>3, <1>4 DEF Fed, Quotient
<1> QED  BY <1>1, <1>2, <1>3, <1>5 DEF Covered

\* A part of the orders is told as no more than all of them.
LEMMA ShareBounded ==
  ASSUME TypeOK, Fed, ~ moved, Retrieval(asked), asked.metric = "discounted_order_share",
         NEW rs, Fits(asked.metric, rs),
         Len(reads) >= 2, rs[1] = reads[1], rs[2] = reads[2], DOMAIN rs = 1..2
  PROVE  \A b \in Merged(rs) : Told(asked.metric, rs)[b] <= 100
<1> SUFFICES ASSUME NEW b \in Merged(rs) PROVE Told(asked.metric, rs)[b] <= 100
  OBVIOUS
<1>1. Len(reads) \in Nat  BY DEF TypeOK, SeqLike
<1>2. \A i \in DOMAIN rs : \E k \in 1..Len(reads) : rs[i] = reads[k]
  <2>1. 1 \in 1..Len(reads) /\ 2 \in 1..Len(reads)  BY <1>1
  <2> QED  BY <2>1
<1>3. b \in Int  BY <1>2, BucketsAreNumbers
<1>4. asked.metric \in Divided  BY DEF Divided
<1>5. Covered(asked, reads[1], reads[2])
  <2>1. Len(reads) > 1 /\ 1 + 1 = 2  BY <1>1
  <2> QED  BY <1>4, <2>1 DEF Fed, Quotient
<1>6. PICK n, k \in Nat : At(rs[1], b) = Whole(n) /\ At(rs[2], b) = Whole(k) /\ n <= k
  BY <1>3, <1>5 DEF Covered, Shared
<1> QED  BY <1>6, ShareTold

\* A total has a figure in its only bucket.
LEMMA EverythingRead ==
  ASSUME TypeOK, Retrieval(asked), asked.kind \in {"total", "comparison"},
         NEW rs, 1 \in DOMAIN rs, NEW j \in 1..Len(reads), rs[1] = reads[j]
  PROVE  Everything \in Merged(rs)
<1>1. j \in 1..Len(Statements(asked))
  BY StatementsLength DEF TypeOK, SeqLike
<1>2. Statements(asked)[j].by = "none"
  <2>0. asked \in Question  BY DEF TypeOK
  <2>1. Statements(asked)[j].by = ByOf(asked)  BY <1>1, <2>0, ReadBy
  <2> QED  BY <2>1 DEF ByOf, Grouped
<1>3. DOMAIN reads[j] = {Everything}  BY <1>2 DEF TypeOK, ReadOK
<1> QED  BY <1>3 DEF Merged

\* Every step keeps QuotientsServed.
LEMMA QuotientTold ==
  ASSUME TypeOK, Fed, [Next]_vars, QuotientsServed
  PROVE  QuotientsServed'
<1> DEFINE m == asked.metric
           n == Len(ReadOrder(m))
<1>1. CASE told' = told /\ UNCHANGED <<asked, moved>>
  BY <1>1 DEF QuotientsServed, Retrieval
<1>2. ASSUME NEW i \in OrderId, NEW row \in Row, SyncWrite(i, row) PROVE QuotientsServed'
  BY <1>2 DEF SyncWrite, QuotientsServed, NoAnswer
<1>3. CASE Execute
  BY <1>1, <1>3 DEF Execute
<1>4. CASE FailQuotient
  <2>1. Retrieval(asked) /\ told' = [outcome |-> "no_quotient"] /\ UNCHANGED <<asked, moved>>
    BY <1>4 DEF FailQuotient, Tell, Raised
  <2>2. Len(reads) \in Nat  BY DEF TypeOK, SeqLike
  <2>3. n \in {1, 2}  BY <2>1, ReadsOf
  <2>4. moved \/ m = "discount_share"
    <3>1. CASE TotalFails(asked)
      <4>1. Len(reads) = n /\ NoQuotient(m, reads)  BY <3>1 DEF TotalFails
      <4>2. Fits(m, reads)  BY <2>1, <4>1, ReadsOf
      <4>3. \A i \in DOMAIN reads : \E k \in 1..Len(reads) : reads[i] = reads[k]
        BY DEF TypeOK, SeqLike
      <4>4. n = 2 => 1 + 1 <= Len(reads)  BY <4>1
      <4>5. 1 + 1 = 2  OBVIOUS
      <4> QED  BY <2>1, <4>1, <4>2, <4>3, <4>4, <4>5, OnlyMoved
    <3>2. CASE Finished /\ NoQuotient(m, Asked(asked))
      <4> DEFINE a == Asked(asked)
      <4>1. Len(reads) >= n  BY <2>1, <2>3, <3>2, ReadsOf
      <4>2. Fits(m, a) /\ \A j \in 1..n : a[j] = reads[j]  BY <2>1, <4>1, ReadsOf
      <4>3. DOMAIN a = 1..n
        BY <2>1, <4>2, QuestionOf, OperandsOf DEF Fits, ReadOrder, TypeOK
      <4> HIDE DEF a, n, m
      <4>4. \A i \in DOMAIN a : \E k \in 1..Len(reads) : a[i] = reads[k]
        BY <2>2, <2>3, <4>1, <4>2, <4>3
      <4>5. n = 2 => 1 + 1 <= Len(reads) /\ a[1] = reads[1] /\ a[2] = reads[1 + 1]
        BY <2>2, <4>1, <4>2
      <4> QED  BY <2>1, <3>2, <4>2, <4>4, <4>5, OnlyMoved DEF m, n, a
    <3>3. CASE Finished /\ asked.kind = "comparison" /\ NoQuotient(m, Before(asked))
      <4> DEFINE b == Before(asked)
      <4>1. Len(reads) = 2 * n  BY <2>1, <3>3, ReadsOf
      <4>2. Fits(m, b) /\ \A j \in 1..n : b[j] = reads[n + j]  BY <2>1, <4>1, ReadsOf
      <4>3. DOMAIN b = 1..n
        BY <2>1, <4>2, QuestionOf, OperandsOf DEF Fits, ReadOrder, TypeOK
      <4> HIDE DEF b, n, m
      <4>4. \A i \in DOMAIN b : \E k \in 1..Len(reads) : b[i] = reads[k]
        <5>1. \A i \in 1..n : n + i \in 1..Len(reads)  BY <2>3, <4>1
        <5> QED  BY <4>2, <4>3, <5>1
      <4>5. n = 2 => 3 + 1 <= Len(reads) /\ b[1] = reads[3] /\ b[2] = reads[3 + 1]
        BY <2>2, <4>1, <4>2
      <4> QED  BY <2>1, <3>3, <4>2, <4>4, <4>5, OnlyMoved DEF m, n, b
    <3> QED  BY <1>4, <3>1, <3>2, <3>3 DEF FailQuotient
  <2> QED  BY <2>1, <2>4 DEF QuotientsServed
<1>5. CASE FailReport \/ FailDay \/ FailRanking
  BY <1>5 DEF FailReport, FailDay, FailRanking, Tell, Raised, QuotientsServed
<1>6. CASE TellReport \/ TellBusiness
  BY <1>6 DEF TellReport, TellBusiness, Tell, Served, QuotientsServed, Retrieval
<1>7. ASSUME NEW answer, Tell(Served(answer)), Readable, Retrieval(asked),
             m = "discounted_order_share" /\ ~ moved =>
               \/ asked.kind \in {"total", "comparison"} /\ answer.value <= 100
               \/ /\ asked.kind \in {"breakdown", "ranking"}
                  /\ \A b \in DOMAIN answer.items : answer.items[b] <= 100
               \/ asked.kind = "trend" /\ \A i \in DOMAIN answer.points : answer.points[i] <= 100
      PROVE  QuotientsServed'
  BY <1>7 DEF Tell, Served, QuotientsServed
<1>8. ASSUME Readable, Retrieval(asked), m = "discounted_order_share", ~ moved
      PROVE  /\ \A b \in Merged(Asked(asked)) : Told(m, Asked(asked))[b] <= 100
             /\ asked.kind # "comparison" => Asked(asked) = reads
             /\ asked.kind \in {"total", "comparison"} => Everything \in Merged(Asked(asked))
  <2>1. m \in DerivedMetrics  BY <1>8 DEF DerivedMetrics
  <2>2. n = 2 /\ DOMAIN Operands(m) = 1..2
    <3> DEFINE of == Operands(m)
    <3>1. of \in Seq(Dependencies[m]) /\ Len(of) = 2
      BY <1>8, <2>1, QuestionOf, OperandsOf DEF TypeOK
    <3> HIDE DEF of
    <3>2. DOMAIN of = 1..2  BY <3>1
    <3> QED  BY <3>1, <3>2 DEF of, ReadOrder
  <2>3. /\ Len(reads) = IF asked.kind = "comparison" THEN 4 ELSE 2
        /\ asked.kind # "comparison" => Asked(asked) = reads
    <3>1. Len(reads) = IF asked.kind = "comparison" THEN 2 * n ELSE n
      BY <1>8, ReadsOf, Zenon DEF Readable
    <3>2. Len(reads) = n => Asked(asked) = reads  BY <1>8, ReadsOf, Zenon
    <3> HIDE DEF n
    <3> QED  BY <2>2, <3>1, <3>2
  <2> DEFINE a == Asked(asked)
  <2>4. Fits(m, a) /\ a[1] = reads[1] /\ a[2] = reads[2] /\ DOMAIN a = 1..2
    <3>1. Len(reads) >= n => Fits(m, a) /\ \A j \in 1..n : a[j] = reads[j]
      BY <1>8, ReadsOf, Zenon
    <3> HIDE DEF n, a, m
    <3>2. Fits(m, a) /\ \A j \in 1..2 : a[j] = reads[j]  BY <2>2, <2>3, <3>1
    <3> QED  BY <2>2, <3>2 DEF Fits
  <2>5. Len(reads) >= 2 /\ 1 \in 1..Len(reads)  BY <2>3
  <2> HIDE DEF a
  <2>6. \A b \in Merged(a) : Told(m, a)[b] <= 100
    BY <1>8, <2>4, <2>5, ShareBounded
  <2>7. asked.kind \in {"total", "comparison"} => Everything \in Merged(a)
    BY <1>8, <2>4, <2>5, EverythingRead
  <2> QED  BY <2>3, <2>6, <2>7 DEF a
<1>9. CASE TellTotal
  <2> DEFINE v == Told(m, reads)[Everything]
             d == Computed(asked.calculations, TotalMetrics(v))
             answer == [value |-> v, derived |-> d, warnings |-> Warnings(d)]
  <2>1. Tell(Served(answer))  BY <1>9 DEF TellTotal
  <2>2. Readable /\ Retrieval(asked) /\ asked.kind = "total"
    BY <1>9 DEF TellTotal, Retrieval
  <2>3. m = "discounted_order_share" /\ ~ moved => v <= 100  BY <1>8, <2>2
  <2>4. answer.value = v  OBVIOUS
  <2> HIDE DEF v, d, answer
  <2> QED  BY <1>7, <2>1, <2>2, <2>3, <2>4
<1>10. CASE TellComparison
  <2> DEFINE v == Told(m, Asked(asked))[Everything]
             p == Told(m, Before(asked))[Everything]
             d == Computed(asked.calculations, ComparisonMetrics(v, p))
             answer == [value |-> v, previous |-> p, derived |-> d, warnings |-> Warnings(d)]
  <2>1. Tell(Served(answer))  BY <1>10 DEF TellComparison
  <2>2. Readable /\ Retrieval(asked) /\ asked.kind = "comparison"
    BY <1>10 DEF TellComparison, Retrieval
  <2>3. m = "discounted_order_share" /\ ~ moved => v <= 100  BY <1>8, <2>2
  <2>4. answer.value = v  OBVIOUS
  <2> HIDE DEF v, d, answer
  <2> QED  BY <1>7, <2>1, <2>2, <2>3, <2>4
<1>11. CASE TellBreakdown
  <2> DEFINE items == Told(m, reads)
             answer == [items |-> items, total |-> TotalValue]
  <2>1. Tell(Served(answer))  BY <1>11 DEF TellBreakdown
  <2>2. Readable /\ Retrieval(asked) /\ asked.kind = "breakdown"
    BY <1>11 DEF TellBreakdown, Retrieval
  <2>3. m = "discounted_order_share" /\ ~ moved => \A b \in DOMAIN items : items[b] <= 100
    <3>1. Len(reads) = n /\ Fits(m, reads)  BY <2>2, ReadsOf DEF Readable
    <3>2. DOMAIN items = Merged(reads)  BY <3>1, ToldOf
    <3> QED  BY <1>8, <2>2, <3>2
  <2>4. answer.items = items  OBVIOUS
  <2> HIDE DEF items, answer
  <2> QED  BY <1>7, <2>1, <2>2, <2>3, <2>4
<1>12. CASE TellRanking
  <2> DEFINE items == Told(m, reads)
             answer == [items |-> items, total |-> TotalValue,
                        ranked |-> Ranked(items, asked.direction, asked.k),
                        share |-> [b \in DOMAIN items |-> Share(items[b], TotalValue)]]
  <2>1. Tell(Served(answer))  BY <1>12 DEF TellRanking
  <2>2. Readable /\ Retrieval(asked) /\ asked.kind = "ranking"
    BY <1>12 DEF TellRanking, Retrieval
  <2>3. m = "discounted_order_share" /\ ~ moved => \A b \in DOMAIN items : items[b] <= 100
    <3>1. Len(reads) = n /\ Fits(m, reads)  BY <2>2, ReadsOf DEF Readable
    <3>2. DOMAIN items = Merged(reads)  BY <3>1, ToldOf
    <3> QED  BY <1>8, <2>2, <3>2
  <2>4. answer.items = items  OBVIOUS
  <2> HIDE DEF items, answer
  <2> QED  BY <1>7, <2>1, <2>2, <2>3, <2>4
<1>13. CASE TellTrend
  <2> DEFINE items == Told(m, reads)
             points == Series(items, asked.period)
             answer == [days |-> Days(items, asked.period), points |-> points,
                        latest |-> IF Len(points) < Window THEN {}
                                   ELSE LatestAverage(points, Window),
                        slope |-> IF Len(points) < 2 THEN {} ELSE {Slope(points)}]
  <2>1. Tell(Served(answer))  BY <1>13 DEF TellTrend
  <2>2. Readable /\ Retrieval(asked) /\ asked.kind = "trend"
    BY <1>13 DEF TellTrend, Retrieval
  <2>3. m = "discounted_order_share" /\ ~ moved => \A i \in DOMAIN points : points[i] <= 100
    <3>1. Len(reads) = n /\ Fits(m, reads)  BY <2>2, ReadsOf DEF Readable
    <3>2. DOMAIN items = Merged(reads)  BY <3>1, ToldOf
    <3>3. ASSUME m = "discounted_order_share", ~ moved
          PROVE  \A b \in DOMAIN items : items[b] <= 100
      BY <1>8, <2>2, <3>2, <3>3
    <3>4. \A i \in DOMAIN points : points[i] = 0 \/ \E b \in DOMAIN items : points[i] = items[b]
      BY DEF Series
    <3> HIDE DEF items, points
    <3> QED  BY <3>3, <3>4
  <2>4. answer.points = points  OBVIOUS
  <2> HIDE DEF items, answer, points
  <2> QED  BY <1>7, <2>1, <2>2, <2>3, <2>4
<1>14. CASE UNCHANGED vars
  BY <1>1, <1>14 DEF vars
<1> QED
  BY <1>2, <1>3, <1>4, <1>5, <1>6, <1>9, <1>10, <1>11, <1>12, <1>13, <1>14 DEF Next

(* A quotient is never without its divisor, nor a share above 100 percent, *)
(* because what divides is read last: only an order that was there and     *)
(* moved while the statements ran can do it, or sales of nothing           *)
(* (live_analytics.py:208-250 and :445).                                    *)
THEOREM QuotientsAlwaysServed == Spec => []QuotientsServed
<1> DEFINE IInv == TypeOK /\ Fed /\ QuotientsServed
<1>1. Init => Fed /\ QuotientsServed
  <2>1. Init => Len(reads) = 0  BY DEF Init, Empty
  <2> QED  BY <2>1 DEF Init, Fed, QuotientsServed, NoAnswer
<1>2. Fed /\ TypeOK /\ QuotientsServed /\ [Next]_vars => Fed' /\ QuotientsServed'
  BY FedStep, QuotientTold
<1> QED  BY <1>1, <1>2, LiveTypes, PTL DEF Spec

-----------------------------------------------------------------------------
(* AnswersWhole *)

\* A figure that is not missing is a number.
LEMMA FigureType ==
  ASSUME NEW m, NEW x \in Frac, NEW y \in Frac, Formula(m, x, y) # {}
  PROVE  Formula(m, x, y) \in SUBSET Frac
<1>1. Plus(x, y) \in Frac /\ (y[1] # 0 => Over(x, y) \in Frac)  BY FractionTypes
<1>2. Whole(0) \in Frac  BY WholeType
<1> QED  BY <1>1, <1>2 DEF Formula

\* What has been read of a metric can be told, unless a quotient is missing.
LEMMA ToldType ==
  ASSUME NEW m, NEW rs, Fits(m, rs), \A j \in DOMAIN rs : IsRows(rs[j]), ~ NoQuotient(m, rs)
  PROVE  /\ FiguresOn(Told(m, rs), Merged(rs))
         /\ FractionsOn(Exact(m, rs))
<1> DEFINE n == Len(Operands(m))
           B == Merged(rs)
<1>1. n \in {1, 2} /\ DOMAIN rs = 1..n
  <2>1. Operands(m) \in Seq(Dependencies[m]) /\ n \in {1, 2}  BY OperandsOf DEF Fits
  <2>2. DOMAIN Operands(m) = 1..n  BY <2>1
  <2> QED  BY <2>1, <2>2 DEF Fits
<1> HIDE DEF n
<1>2. IsFiniteSet(B) /\ B \subseteq Int
  <2> DEFINE k == [j \in DOMAIN rs |-> DOMAIN rs[j]]
             D == {k[j] : j \in DOMAIN rs}
  <2>1. IsFiniteSet(DOMAIN rs)  BY <1>1, FS_Interval
  <2>2. \A j \in DOMAIN rs : IsFiniteSet(k[j]) /\ k[j] \subseteq Int /\ k[j] = DOMAIN rs[j]
    BY DEF IsRows
  <2>3. B = UNION D  BY <2>2 DEF Merged
  <2> HIDE DEF k
  <2>4. IsFiniteSet(D)  BY <2>1, ImageFinite
  <2>5. \A T \in D : IsFiniteSet(T)  BY <2>2
  <2>6. UNION D \subseteq Int  BY <2>2
  <2> HIDE DEF D
  <2>7. IsFiniteSet(UNION D)  BY <2>4, <2>5, FS_UNION
  <2> QED  BY <2>3, <2>6, <2>7
<1>3. ASSUME NEW b \in B PROVE Exact(m, rs)[b] \in Frac
  <2>1. Whole(0) \in Frac  BY WholeType
  <2>2. \A j \in DOMAIN rs : At(rs[j], b) \in Frac  BY <2>1 DEF At, IsRows
  <2>3. 1 \in DOMAIN rs /\ n \in DOMAIN rs  BY <1>1
  <2>4. Figure(m, rs, b) # {}
    <3>1. Figures(m, rs) = [c \in B |-> Figure(m, rs, c)]  BY FiguresAre
    <3> QED  BY <3>1 DEF NoQuotient
  <2>5. Figure(m, rs, b) \in SUBSET Frac
    BY <2>2, <2>3, <2>4, FigureType DEF Figure, n
  <2>6. Exact(m, rs)[b] = CHOOSE v \in Figure(m, rs, b) : TRUE  BY ToldOf
  <2> QED  BY <2>4, <2>5, <2>6
<1>4. /\ DOMAIN Exact(m, rs) = B
      /\ Told(m, rs) = [b \in B |-> Told(m, rs)[b]]
      /\ \A b \in B : Told(m, rs)[b] = Quantized(Exact(m, rs)[b])
  BY ToldOf
<1>5. \A b \in B : Told(m, rs)[b] \in Int  BY <1>3, <1>4, QuantizedType
<1> HIDE DEF B
<1> QED  BY <1>2, <1>3, <1>4, <1>5 DEF FiguresOn, FractionsOn, B

\* A base metric is told as it was counted.
LEMMA BaseTold ==
  ASSUME NEW m \in BaseMetrics, NEW rs, Fits(m, rs), WholeRows(rs[1])
  PROVE  /\ Merged(rs) = DOMAIN rs[1]
         /\ \A b \in Merged(rs) : /\ rs[1][b][1] \in Int
                                  /\ Exact(m, rs)[b] = Whole(rs[1][b][1])
                                  /\ Told(m, rs)[b] = 100 * rs[1][b][1]
<1>1. Operands(m) = <<m>>  BY OperandsOf DEF Fits
<1>2. Len(Operands(m)) = 1 /\ DOMAIN rs = {1}
  <2>1. Len(<<m>>) = 1 /\ DOMAIN <<m>> = {1}  OBVIOUS
  <2> QED  BY <1>1, <2>1 DEF Fits
<1>3. Merged(rs) = DOMAIN rs[1]  BY <1>2 DEF Merged
<1>4. ASSUME NEW b \in Merged(rs)
      PROVE  /\ rs[1][b][1] \in Int
             /\ Exact(m, rs)[b] = Whole(rs[1][b][1])
             /\ Told(m, rs)[b] = 100 * rs[1][b][1]
  <2>1. rs[1][b][1] \in Int /\ rs[1][b] = Whole(rs[1][b][1])  BY <1>3 DEF WholeRows
  <2>2. Figure(m, rs, b) = {rs[1][b]}
    <3>1. At(rs[1], b) = rs[1][b]  BY <1>3 DEF At
    <3>2. m # "gross_sales_total"  BY DEF BaseMetrics
    <3>3. \A x, y : Formula(m, x, y) = {x}  BY <3>2 DEF Formula
    <3> QED  BY <3>1, <3>3 DEF Figure
  <2>3. Exact(m, rs)[b] = rs[1][b] /\ Told(m, rs)[b] = Quantized(Exact(m, rs)[b])
    BY <2>2, ToldOf
  <2> QED  BY <2>1, <2>3, WholeQuantized
<1> QED  BY <1>3, <1>4

\* The rows that can be told, with the period they are of.
LEMMA RowsRead ==
  ASSUME TypeOK, Retrieval(asked), Readable, asked.kind # "comparison"
  PROVE  /\ Fits(asked.metric, reads) /\ ~ NoQuotient(asked.metric, reads)
         /\ \A j \in DOMAIN reads : IsRows(reads[j])
         /\ 1 \in DOMAIN reads
         /\ ByOf(asked) # "category" => WholeRows(reads[1])
         /\ ByOf(asked) = "day" /\ asked.period # {} => Merged(reads) \subseteq asked.period
<1> DEFINE n == Len(ReadOrder(asked.metric))
<1>1. n \in {1, 2} /\ Len(reads) = n /\ Fits(asked.metric, reads) /\ Asked(asked) = reads
  <2>1. n \in {1, 2}  BY ReadsOf, Zenon
  <2>2. Len(reads) = n  BY ReadsOf, Zenon DEF Readable
  <2> QED  BY <2>1, <2>2, ReadsOf, Zenon
<1>2. DOMAIN reads = 1..n /\ Len(Statements(asked)) = n
  BY <1>1 DEF TypeOK, SeqLike, Readable, Finished
<1>3. ~ NoQuotient(asked.metric, reads)  BY <1>1 DEF Readable
<1>4. ASSUME NEW j \in DOMAIN reads
      PROVE  /\ ReadOK(asked, Statements(asked)[j], reads[j])
             /\ Statements(asked)[j].by = ByOf(asked)
             /\ Statements(asked)[j].period = asked.period
  <2> HIDE DEF n
  <2>1. j \in 1..Len(Statements(asked)) /\ j \in 1..Len(reads) /\ j <= n  BY <1>1, <1>2
  <2>2. Statements(asked)[j].by = ByOf(asked) /\ Statements(asked)[j].period = PeriodOf(asked, j)
    BY <2>1, ReadBy DEF TypeOK
  <2>3. PeriodOf(asked, j) = asked.period  BY <2>1 DEF PeriodOf, n
  <2> QED  BY <2>1, <2>2, <2>3 DEF TypeOK
<1>5. 1 \in DOMAIN reads
  <2> HIDE DEF n
  <2> QED  BY <1>1, <1>2
<1>6. \A j \in DOMAIN reads : IsRows(reads[j])  BY <1>4 DEF ReadOK
<1>7. ByOf(asked) # "category" => WholeRows(reads[1])  BY <1>4, <1>5 DEF ReadOK
<1>8. ByOf(asked) = "day" /\ asked.period # {} => Merged(reads) \subseteq asked.period
  BY <1>4 DEF ReadOK, Merged
<1> QED  BY <1>1, <1>3, <1>5, <1>6, <1>7, <1>8

-----------------------------------------------------------------------------
(* AnswersWhole, by the kind of the question *)

\* A column with a value.
LEMMA OneOf ==
  ASSUME NEW v
  PROVE  Coalesced({v}) = v
BY DEF Coalesced

\* What is served of a trend is whole.
LEMMA TrendTold ==
  ASSUME TypeOK, asked.kind = "trend", Readable, NEW answer,
         answer.days = Days(Told(asked.metric, reads), asked.period),
         answer.points = Series(Told(asked.metric, reads), asked.period),
         answer.slope = IF Len(answer.points) < 2 THEN {} ELSE {Slope(answer.points)}
  PROVE  TrendWhole(answer)
<1> DEFINE told1 == Told(asked.metric, reads)
           B == Merged(reads)
           period == asked.period
           all == DaysIn(B, period)
           n == Cardinality(all)
           points == answer.points
<1>1. Retrieval(asked) /\ ByOf(asked) = "day" /\ asked.kind # "comparison"
  BY DEF Retrieval, ByOf, Grouped
<1>2. /\ Fits(asked.metric, reads) /\ ~ NoQuotient(asked.metric, reads)
      /\ \A j \in DOMAIN reads : IsRows(reads[j])
      /\ period # {} => B \subseteq period
  BY <1>1, RowsRead
<1>3. FiguresOn(told1, B)  BY <1>2, ToldType
<1>4. IsFiniteSet(period) /\ period \subseteq Int
  BY QuestionsAssumption DEF TypeOK
<1>5. period # {} => B \subseteq period  BY <1>2
<1> HIDE DEF told1, B, period
<1>6. /\ ToSet(Days(told1, period)) = all
      /\ Series(told1, period) \in [1..n -> Int] /\ n \in Nat
      /\ SumFunction(Series(told1, period)) = SumFunction(told1)
  BY <1>3, <1>4, <1>5, SeriesWhole
<1>7. points = Series(told1, period) /\ answer.days = Days(told1, period)
  BY DEF told1, period
<1>8. DOMAIN told1 = B  BY <1>3 DEF FiguresOn
<1> HIDE DEF all, n, points
<1>9. Len(points) = n /\ points \in [1..n -> Int] /\ n \in Nat  BY <1>6, <1>7
<1>10. NeverFalls(points) => Rises(points, n)
  <2>1. NeverFalls(points) => \A i, j \in 1..n : i < j => points[i] <= points[j]
    BY <1>9 DEF NeverFalls, IsSorted
  <2> QED  BY <2>1 DEF Rises
<1>11. ASSUME Rises(points, n), NEW s \in answer.slope PROVE Direction(s) # "down"
  <2>1. answer.slope = IF Len(points) < 2 THEN {} ELSE {Slope(points)}  BY DEF points
  <2>2. n >= 2 /\ s = Slope(points)  BY <1>9, <1>11, <2>1, SMTT(40)
  <2>3. s \in Int /\ s >= 0  BY <1>9, <1>11, <2>2, SlopeOfRising
  <2> QED  BY <2>3 DEF Direction
<1>12. ToSet(answer.days) = IF period = {} THEN DOMAIN told1 ELSE period
  BY <1>6, <1>7, <1>8 DEF all, DaysIn
<1>13. SumFunction(points) = SumFunction(told1)  BY <1>6, <1>7
<1> QED  BY <1>10, <1>11, <1>12, <1>13 DEF TrendWhole, told1, period, points

\* The shares of a total that is not zero.
LEMMA SharesTold ==
  ASSUME NEW B, IsFiniteSet(B), NEW a, IntegerOn(a, B), NEW items, NEW total,
         \A b \in B : items[b] = 100 * a[b], total = 100 * SumFunctionOnSet(a, B), total # 0,
         NEW shares, DOMAIN shares = B,
         \A b \in B : shares[b] = Coalesced(Share(items[b], total))
  PROVE  2 * (SumFunction(shares) - 10000) \in - Cardinality(B) .. Cardinality(B)
<1>1. SumFunctionOnSet(a, B) \in Int /\ \A b \in B : a[b] \in Int  BY SumType DEF IntegerOn
<1>2. total \in Int /\ \A b \in B : items[b] \in Int  BY <1>1
<1>3. total = SumFunctionOnSet(items, B) /\ IntegerOn(items, B)
  <2>1. SumFunctionOnSet(items, B) = 100 * SumFunctionOnSet(a, B)  BY SumScaled
  <2> QED  BY <1>2, <2>1 DEF IntegerOn
<1>4. ASSUME NEW b \in B PROVE shares[b] = Quantized(<<100 * items[b], total>>)
  <2> DEFINE q == Quantized(<<100 * items[b], total>>)
  <2>1. Share(items[b], total) = {q}  BY DEF Share
  <2> HIDE DEF q
  <2>2. Coalesced({q}) = q  BY OneOf
  <2>3. shares[b] = Coalesced(Share(items[b], total))  OBVIOUS
  <2> QED  BY <2>1, <2>2, <2>3 DEF q
<1>5. /\ Cardinality(B) \in Nat /\ SumFunctionOnSet(shares, B) \in Int
      /\ - Cardinality(B) <= 2 * (SumFunctionOnSet(shares, B) - 10000)
      /\ 2 * (SumFunctionOnSet(shares, B) - 10000) <= Cardinality(B)
  BY <1>2, <1>3, <1>4, SharesOfWhole
<1>6. SumFunction(shares) = SumFunctionOnSet(shares, B)  BY DEF SumFunction
<1> QED  BY <1>5, <1>6

\* What is served of a ranking is whole.
LEMMA RankingTold ==
  ASSUME TypeOK, asked.kind = "ranking", Readable, NEW answer,
         answer.items = Told(asked.metric, reads), answer.total = TotalValue,
         answer.ranked = Ranked(answer.items, asked.direction, asked.k),
         answer.share = [b \in DOMAIN answer.items |-> Share(answer.items[b], answer.total)]
  PROVE  RankingWhole(answer)
<1> DEFINE m == asked.metric
           items == answer.items
           B == Merged(reads)
           n == Cardinality(DOMAIN answer.share)
           in == ToSet(answer.ranked)
           shares == [b \in DOMAIN answer.share |-> Coalesced(answer.share[b])]
<1>1. Retrieval(asked) /\ ByOf(asked) = asked.dim /\ asked.kind # "comparison"
  BY DEF Retrieval, ByOf, Grouped
<1>2. /\ Fits(m, reads) /\ ~ NoQuotient(m, reads)
      /\ \A j \in DOMAIN reads : IsRows(reads[j])
      /\ asked.dim # "category" => WholeRows(reads[1])
  BY <1>1, RowsRead
<1>3. FiguresOn(items, B)  BY <1>2, ToldType
<1>4. asked.k \in Nat
  BY QuestionsAssumption DEF TypeOK
<1>5. DOMAIN items = B /\ DOMAIN answer.share = B /\ IsFiniteSet(B)
  BY <1>3 DEF FiguresOn
<1> HIDE DEF B
<1>6. /\ Cardinality(in) = IF n < asked.k THEN n ELSE asked.k
      /\ \A b \in in, c \in B \ in :
           IF asked.direction = "desc" THEN items[b] >= items[c] ELSE items[b] <= items[c]
  <2> HIDE DEF items
  <2>1. answer.ranked = Ranked(items, asked.direction, asked.k)  BY DEF items
  <2> QED  BY <1>3, <1>4, <1>5, <2>1, RankedBest
<1>7. ASSUME answer.total # 0, m \in BaseMetrics, asked.dim # "category"
      PROVE  2 * (SumFunction(shares) - 10000) \in - n .. n
  <2> DEFINE a == [b \in B |-> reads[1][b][1]]
             x == Exact(m, reads)
  <2>1. WholeRows(reads[1])  BY <1>2, <1>7
  <2>2. \A b \in B : /\ a[b] \in Int /\ x[b] = Whole(a[b]) /\ items[b] = 100 * a[b]
    BY <1>2, <1>7, <2>1, BaseTold DEF B
  <2>3. DOMAIN x = B  BY <1>2, ToldOf DEF B
  <2> HIDE DEF a, x, items, shares
  <2>4. IntegerOn(a, B)  BY <2>2 DEF IntegerOn
  <2>5. SumOf(x) = Whole(SumFunctionOnSet(a, B))  BY <1>5, <2>2, <2>3, <2>4, SumOfWholes
  <2>6. SumFunctionOnSet(a, B) \in Int  BY <1>5, <2>4, SumType
  <2>7. answer.total = 100 * SumFunctionOnSet(a, B)
    BY <2>5, <2>6, WholeQuantized DEF TotalValue, x, m
  <2>8. DOMAIN shares = B /\ \A b \in B : shares[b] = Coalesced(Share(items[b], answer.total))
    BY <1>5 DEF shares, items
  <2>9. 2 * (SumFunction(shares) - 10000) \in - Cardinality(B) .. Cardinality(B)
    BY <1>5, <1>7, <2>2, <2>4, <2>7, <2>8, SharesTold
  <2> QED  BY <1>5, <2>9
<1> HIDE DEF in, shares, n
<1> QED  BY <1>5, <1>6, <1>7 DEF RankingWhole, m, items, in, shares, n

-----------------------------------------------------------------------------
(* AnswersWhole, continued *)

Percentage(formula, x, y) ==
  LET minus == Plus(x, <<-y[1], y[2]>>)
  IN  IF formula = "share_percent" THEN Over(<<100 * x[1], x[2]>>, y)
      ELSE Over(<<100 * minus[1], minus[2]>>, y)

IsPercent(c, fraction, y) ==
  /\ y[1] = 0 => c.value = {} /\ c.warning = {"division_by_zero"}
  /\ y[1] # 0 => c.value = {Quantized(fraction)}

\* A percentage of what is not zero is there, of zero it is not.
LEMMA PercentOf ==
  ASSUME NEW formula \in {"percent_change", "share_percent"}, NEW x, NEW y
  PROVE  IsPercent(Calculated(formula, {x}, {y}), Percentage(formula, x, y), y)
<1> DEFINE minus == Plus(x, <<-y[1], y[2]>>)
           value == CASE formula = "delta"          -> minus
                      [] formula = "percent_change" -> Over(<<100 * minus[1], minus[2]>>, y)
                      [] formula = "share_percent"  -> Over(<<100 * x[1], x[2]>>, y)
                      [] formula \in {"per_day_rate", "ratio"} -> Over(x, y)
           of == IF formula = "share_percent" THEN Over(<<100 * x[1], x[2]>>, y)
                 ELSE Over(<<100 * minus[1], minus[2]>>, y)
<1>1. Coalesced({x}) = x /\ Coalesced({y}) = y  BY OneOf
<1>2. value = of /\ formula # "delta"
  <2>1. formula = "percent_change" \/ formula = "share_percent"  OBVIOUS
  <2>2. CASE formula = "percent_change"
    <3>1. value = Over(<<100 * minus[1], minus[2]>>, y)  BY <2>2, Zenon
    <3> QED  BY <2>2, <3>1, Zenon
  <2>3. CASE formula = "share_percent"
    <3>1. value = Over(<<100 * x[1], x[2]>>, y)  BY <2>3, Zenon
    <3> QED  BY <2>3, <3>1, Zenon
  <2> QED  BY <2>1, <2>2, <2>3
<1>3. Calculated(formula, {x}, {y})
        = IF {x} = {} \/ {y} = {} THEN [value |-> {}, warning |-> {"missing_operand"}]
          ELSE IF formula # "delta" /\ y[1] = 0
                 THEN [value |-> {}, warning |-> {"division_by_zero"}]
          ELSE [value |-> {Quantized(value)}, warning |-> {}]
  BY <1>1, Zenon DEF Calculated
<1> HIDE DEF value, of
<1>4. y[1] = 0 => Calculated(formula, {x}, {y}) = [value |-> {}, warning |-> {"division_by_zero"}]
  BY <1>2, <1>3
<1>5. y[1] # 0 => Calculated(formula, {x}, {y}) = [value |-> {Quantized(of)}, warning |-> {}]
  BY <1>2, <1>3
<1> HIDE DEF minus
<1>6. of = Percentage(formula, x, y)  BY Zenon DEF of, minus, Percentage
<1> DEFINE c == Calculated(formula, {x}, {y})
<1> HIDE DEF c
<1>7. y[1] = 0 => c.value = {}  BY <1>4 DEF c
<1>8. y[1] # 0 => c.value = {Quantized(of)}  BY <1>5 DEF c
<1>9. y[1] = 0 => c.warning = {"division_by_zero"}  BY <1>4 DEF c
<1>10. IsPercent(c, of, y)  BY <1>7, <1>8, <1>9 DEF IsPercent
<1> QED  BY <1>6, <1>10 DEF c

\* What a calculation has no value for, it warns of.
LEMMA CalculatedOrWarned ==
  ASSUME NEW formula, NEW x, NEW y
  PROVE  LET c == Calculated(formula, x, y)
         IN  /\ c.value = {} <=> c.warning # {}
             /\ x = {} \/ y = {} => c.value = {} /\ c.warning = {"missing_operand"}
<1> DEFINE c == Calculated(formula, x, y)
<1>1. x = {} \/ y = {} => c = [value |-> {}, warning |-> {"missing_operand"}]
  BY Zenon DEF Calculated
<1>2. \E v : \/ c = [value |-> {}, warning |-> {"missing_operand"}]
             \/ c = [value |-> {}, warning |-> {"division_by_zero"}]
             \/ c = [value |-> {v}, warning |-> {}]
  BY DEF Calculated
<1> HIDE DEF c
<1>3. c.value = {} <=> c.warning # {}  BY <1>2
<1>4. x = {} \/ y = {} => c.value = {} /\ c.warning = {"missing_operand"}  BY <1>1
<1> QED  BY <1>3, <1>4, Zenon DEF c

\* A difference is always there, a rate unless it is one of nothing.
LEMMA DeltaAndRate ==
  ASSUME NEW x, NEW y
  PROVE  /\ Calculated("delta", {x}, {y}).value = {Quantized(Plus(x, <<-y[1], y[2]>>))}
         /\ y[1] = 0 => Calculated("per_day_rate", {x}, {y}).value = {}
         /\ y[1] # 0 => Calculated("per_day_rate", {x}, {y}).value = {Quantized(Over(x, y))}
<1>1. Coalesced({x}) = x /\ Coalesced({y}) = y /\ {x} # {} /\ {y} # {}  BY OneOf
<1> DEFINE d == Calculated("delta", {x}, {y})
           r == Calculated("per_day_rate", {x}, {y})
           e == Quantized(Plus(x, <<-y[1], y[2]>>))
           q == Quantized(Over(x, y))
<1>2. d = [value |-> {e}, warning |-> {}]
  BY <1>1 DEF Calculated
<1>3. /\ y[1] = 0 => r = [value |-> {}, warning |-> {"division_by_zero"}]
      /\ y[1] # 0 => r = [value |-> {q}, warning |-> {}]
  BY <1>1 DEF Calculated
<1> HIDE DEF d, r, e, q
<1>4. d.value = {e}  BY <1>2
<1>5. (y[1] = 0 => r.value = {}) /\ (y[1] # 0 => r.value = {q})  BY <1>3
<1> QED  BY <1>4, <1>5, Zenon DEF d, r, e, q

\* A quotient is told to the nearest hundredth.
LEMMA QuantizedNear ==
  ASSUME NEW n \in Int, NEW d \in Int, d # 0
  PROVE  Quantized(<<n, d>>) \in Int /\ Nearest(Quantized(<<n, d>>), 100 * n, d)
<1> DEFINE q == Quantized(<<n, d>>)
<1>1. CASE d > 0
  <2>1. q = RoundHalfUp(100 * n, d)  BY <1>1 DEF Quantized
  <2>2. q \in Int /\ 2 * (d * q) - 2 * (100 * n) \in -d .. d
    BY <1>1, <2>1, RoundBounds
  <2> HIDE DEF q
  <2>3. q * d = d * q /\ d * q \in Int  BY <2>2
  <2> QED  BY <1>1, <2>2, <2>3 DEF Nearest, q
<1>2. CASE d < 0
  <2> DEFINE e == -d
             m == -100 * n
  <2>1. e \in Int /\ e > 0 /\ m \in Int /\ d = -e  BY <1>2
  <2>2. q = RoundHalfUp(m, e)  BY <1>2 DEF Quantized
  <2> HIDE DEF e, m
  <2>3. q \in Int /\ 2 * (e * q) - 2 * m \in -e .. e  BY <2>1, <2>2, RoundBounds
  <2> HIDE DEF q
  <2>4. q * d = -(e * q) /\ e * q \in Int  BY <2>1, <2>3
  <2>5. 100 * n = -m  BY DEF m
  <2>6. 2 * (q * d - 100 * n) \in d .. -d  BY <2>1, <2>3, <2>4, <2>5
  <2> QED  BY <1>2, <2>3, <2>6 DEF Nearest, q
<1> QED  BY <1>1, <1>2

\* The difference of two figures, as told.
LEMMA DeltaTold ==
  ASSUME NEW v \in Int, NEW p \in Int
  PROVE  Calculated("delta", {Hundredths(v)}, {Hundredths(p)}).value = {v - p}
<1> DEFINE q == Quantized(<<v - p, 100>>)
           x == Hundredths(v)
           y == Hundredths(p)
           c == Calculated("delta", {x}, {y})
           e == Quantized(Plus(x, <<-y[1], y[2]>>))
<1>1. Plus(x, <<-y[1], y[2]>>) = <<v - p, 100>>  BY DEF Plus, Hundredths
<1>2. q \in Int /\ Nearest(q, 100 * (v - p), 100)  BY QuantizedNear
<1>3. e = q  BY <1>1
<1> HIDE DEF x, y
<1>4. c.value = {e}  BY DeltaAndRate, Zenon
<1> HIDE DEF q, c, e
<1>5. q = v - p  BY <1>2 DEF Nearest
<1> QED  BY <1>3, <1>4, <1>5, Zenon DEF c, x, y

\* The change from one to the other, in hundredths of a percent.
LEMMA ChangeTold ==
  ASSUME NEW v \in Int, NEW p \in Int, NEW formula
  PROVE  ChangeWhole(Calculated(formula, {Hundredths(v)}, {Hundredths(p)}), formula, v, p)
<1>0. PICK c : c = Calculated(formula, {Hundredths(v)}, {Hundredths(p)})  OBVIOUS
<1>k. PICK k : k = 10000 * (v - p)  OBVIOUS
<1> DEFINE x == Hundredths(v)
           y == Hundredths(p)
           minus == Plus(x, <<-y[1], y[2]>>)
           q == Quantized(<<100 * (v - p), p>>)
<1>1. y[1] = p /\ minus = <<v - p, 100>>  BY DEF Plus, Hundredths
<1>2. Over(<<100 * minus[1], minus[2]>>, y) = <<100 * (v - p), p>>
  BY <1>1 DEF Over, Hundredths
<1>3. ASSUME formula = "percent_change"
      PROVE  /\ y[1] = 0 => c.warning = {"division_by_zero"}
             /\ y[1] # 0 => c.value = {Quantized(Over(<<100 * minus[1], minus[2]>>, y))}
  <2> HIDE DEF x, y
  <2> DEFINE e == Calculated("percent_change", {x}, {y})
             f == Percentage("percent_change", x, y)
  <2>1. f = Over(<<100 * minus[1], minus[2]>>, y)  BY DEF Percentage
  <2> HIDE DEF minus, f
  <2>2. /\ y[1] = 0 => e.warning = {"division_by_zero"}
        /\ y[1] # 0 => e.value = {Quantized(f)}
    <3>1. IsPercent(e, f, y)  BY PercentOf DEF f
    <3> HIDE DEF e
    <3> QED  BY <3>1 DEF IsPercent
  <2>3. c = e  BY <1>0, <1>3 DEF x, y
  <2> HIDE DEF e
  <2> QED  BY <2>1, <2>2, <2>3
<1>4. 100 * (100 * (v - p)) = k  BY <1>k
<1>5. p # 0 => Nearest(q, k, p)  BY <1>4, QuantizedNear
<1> HIDE DEF x, y, minus, q
<1>6. ASSUME formula = "percent_change", p # 0
      PROVE  \E r \in c.value : Nearest(r, k, p)
  <2>1. q \in c.value  BY <1>1, <1>2, <1>3, <1>6 DEF q
  <2>2. Nearest(q, k, p)  BY <1>5, <1>6
  <2>3. WITNESS q \in c.value
  <2> QED  BY <2>2
<1>7. formula = "percent_change" /\ p = 0 => c.warning = {"division_by_zero"}  BY <1>1, <1>3
<1>8. formula = "delta" => c.value = {v - p}  BY <1>0, DeltaTold DEF x, y
<1>9. ASSUME formula = "percent_change", p # 0
      PROVE  \E r \in c.value : Nearest(r, 10000 * (v - p), p)
  <2>1. PICK r \in c.value : Nearest(r, k, p)  BY <1>6, <1>9
  <2>2. Nearest(r, 10000 * (v - p), p)  BY <1>k, <2>1
  <2>3. WITNESS r \in c.value
  <2> QED  BY <2>2
<1>10. ChangeWhole(c, formula, v, p)  BY <1>7, <1>8, <1>9 DEF ChangeWhole
<1> QED  BY <1>0, <1>10

\* The rate a day of a figure.
LEMMA RateTold ==
  ASSUME NEW v \in Int, NEW days \in Nat, NEW c,
         c = Calculated("per_day_rate", {Hundredths(v)}, {Whole(days)})
  PROVE  RateWhole(c, v, days)
<1> DEFINE d == 100 * days
           x == Hundredths(v)
           y == Whole(days)
           q == Quantized(<<v, d>>)
<1>1. y[1] = days /\ Quantized(Over(x, y)) = q  BY DEF Over, Hundredths, Whole
<1>2. ASSUME days # 0 PROVE Nearest(q, v, days)
  <2>1. d \in Int /\ d > 0  BY <1>2
  <2>2. q \in Int /\ Nearest(q, 100 * v, d)  BY <2>1, QuantizedNear
  <2> HIDE DEF q
  <2> DEFINE t == q * days
  <2>3. t \in Int /\ q * d = 100 * t  BY <2>2
  <2>4. 2 * (100 * t - 100 * v) \in -d .. d  BY <2>1, <2>2, <2>3 DEF Nearest
  <2> HIDE DEF t
  <2>5. 2 * (t - v) \in -days .. days  BY <1>2, <2>3, <2>4
  <2> QED  BY <1>2, <2>5 DEF Nearest, t
<1> HIDE DEF x, y, q
<1>3. /\ y[1] = 0 => c.value = {}
      /\ y[1] # 0 => c.value = {Quantized(Over(x, y))}
  <2>1. c = Calculated("per_day_rate", {x}, {y})  BY DEF x, y
  <2> QED  BY <2>1, DeltaAndRate, ZenonT(60)
<1> QED  BY <1>1, <1>2, <1>3 DEF RateWhole

\* What is calculated of a total, or of two, is whole.
LEMMA CalculationsTold ==
  ASSUME NEW metrics, NEW answer, answer.value \in Int,
         Cardinality(asked.period) \in Nat,
         asked.metric \in DOMAIN metrics, metrics[asked.metric] = Hundredths(answer.value),
         Cardinality(asked.period) # 0 => "day_count" \in DOMAIN metrics,
         "day_count" \in DOMAIN metrics =>
           metrics["day_count"] = Whole(Cardinality(asked.period)),
         asked.kind = "total" => "previous" \notin DOMAIN metrics,
         asked.kind = "comparison" =>
           /\ answer.previous \in Int
           /\ "previous" \in DOMAIN metrics /\ metrics["previous"] = Hundredths(answer.previous),
         answer.derived = Computed(asked.calculations, metrics),
         answer.warnings = Warnings(answer.derived)
  PROVE  CalculationsWhole(answer)
<1> SUFFICES ASSUME NEW c \in asked.calculations
             PROVE  LET is == answer.derived[c]
                        rate == /\ c.formula = "per_day_rate" /\ c.of = asked.metric
                                /\ c.by = "day_count"
                        change == /\ asked.kind = "comparison" /\ c.of = asked.metric
                                  /\ c.by = "previous"
                    IN  /\ is.value = {} <=> is.warning # {}
                        /\ is.warning \subseteq answer.warnings
                        /\ asked.kind = "total" /\ c.by = "previous" =>
                             is.warning = {"missing_operand"}
                        /\ rate => RateWhole(is, answer.value, Cardinality(asked.period))
                        /\ change => ChangeWhole(is, c.formula, answer.value, answer.previous)
  BY DEF CalculationsWhole
<1> DEFINE is == answer.derived[c]
           v == answer.value
           days == Cardinality(asked.period)
           x == Operand(metrics, c.of)
           y == Operand(metrics, c.by)
<1>1. c \in DOMAIN answer.derived /\ is = Calculated(c.formula, x, y)
  BY DEF Computed
<1>2. is.warning \subseteq answer.warnings  BY <1>1 DEF Warnings
<1>3. is.value = {} <=> is.warning # {}  BY <1>1, CalculatedOrWarned
<1>4. asked.kind = "total" /\ c.by = "previous" => is.warning = {"missing_operand"}
  <2>1. asked.kind = "total" /\ c.by = "previous" => y = {}  BY DEF Operand
  <2> HIDE DEF is, x, y
  <2> QED  BY <1>1, <2>1, CalculatedOrWarned
<1>5. ASSUME c.formula = "per_day_rate", c.of = asked.metric, c.by = "day_count"
      PROVE  RateWhole(is, v, days)
  <2>1. x = {Hundredths(v)}  BY <1>5 DEF Operand
  <2>2. y = {} \/ y = {Whole(days)}  BY <1>5 DEF Operand
  <2>3. days # 0 => y # {}  BY <1>5 DEF Operand
  <2>4. v \in Int /\ days \in Nat  OBVIOUS
  <2> HIDE DEF is, x, y, days, v
  <2>5. y = {} => is.value = {}  BY <1>1, CalculatedOrWarned
  <2>6. CASE y = {}  BY <2>3, <2>5, <2>6 DEF RateWhole
  <2>7. CASE y = {Whole(days)}
    <3>1. is = Calculated("per_day_rate", {Hundredths(v)}, {Whole(days)})
      BY <1>1, <1>5, <2>1, <2>7
    <3> QED  BY <2>4, <3>1, RateTold
  <2> QED  BY <2>2, <2>6, <2>7
<1>6. ASSUME asked.kind = "comparison", c.of = asked.metric, c.by = "previous"
      PROVE  ChangeWhole(is, c.formula, v, answer.previous)
  <2> DEFINE p == answer.previous
  <2>1. x = {Hundredths(v)} /\ y = {Hundredths(p)}  BY <1>6 DEF Operand
  <2>2. v \in Int /\ p \in Int  BY <1>6
  <2> HIDE DEF is, x, y, v, p
  <2>3. is = Calculated(c.formula, {Hundredths(v)}, {Hundredths(p)})  BY <1>1, <2>1
  <2>4. ChangeWhole(is, c.formula, v, p)  BY <2>2, <2>3, ChangeTold
  <2> QED  BY <2>4 DEF p
<1> HIDE DEF is
<1> QED  BY <1>2, <1>3, <1>4, <1>5, <1>6 DEF is

\* The one figure of a total is a number.
LEMMA NumberTold ==
  ASSUME TypeOK, Retrieval(asked), asked.kind \in {"total", "comparison"},
         NEW rs, Fits(asked.metric, rs), ~ NoQuotient(asked.metric, rs),
         1 \in DOMAIN rs,
         \A i \in DOMAIN rs : \E k \in 1..Len(reads) : rs[i] = reads[k]
  PROVE  Told(asked.metric, rs)[Everything] \in Int
<1>1. \A k \in 1..Len(reads) : IsRows(reads[k])  BY DEF TypeOK, ReadOK
<1>2. \A i \in DOMAIN rs : IsRows(rs[i])  BY <1>1
<1>3. FiguresOn(Told(asked.metric, rs), Merged(rs))  BY <1>2, ToldType
<1>4. Everything \in Merged(rs)
  <2>1. PICK k \in 1..Len(reads) : rs[1] = reads[k]  OBVIOUS
  <2> QED  BY <2>1, EverythingRead
<1> QED  BY <1>3, <1>4 DEF FiguresOn

\* So are those of the period before.
LEMMA TotalsTold ==
  ASSUME TypeOK, Readable, asked.kind \in {"total", "comparison"},
         asked.kind = "comparison" => ~ NoQuotient(asked.metric, Before(asked))
  PROVE  /\ Told(asked.metric, Asked(asked))[Everything] \in Int
         /\ asked.kind = "total" => Asked(asked) = reads
         /\ asked.kind = "comparison" => Told(asked.metric, Before(asked))[Everything] \in Int
<1> DEFINE m == asked.metric
           n == Len(ReadOrder(m))
           a == Asked(asked)
           b == Before(asked)
<1>1. Retrieval(asked)  BY DEF Retrieval
<1>2. /\ n \in {1, 2} /\ Finished /\ ~ NoQuotient(m, a)
      /\ Len(reads) = IF asked.kind = "comparison" THEN 2 * n ELSE n
  BY <1>1, ReadsOf, Zenon DEF Readable
<1>3. /\ Len(reads) = n => Fits(m, reads) /\ a = reads
      /\ Len(reads) >= n => Fits(m, a) /\ \A j \in 1..n : a[j] = reads[j]
      /\ Len(reads) = 2 * n => Fits(m, b) /\ \A j \in 1..n : b[j] = reads[n + j]
  BY <1>1, ReadsOf, Zenon
<1>4. DOMAIN Operands(m) = 1..n
  <2> DEFINE of == Operands(m)
  <2>1. of \in Seq(Dependencies[m])  BY <1>1, QuestionOf, OperandsOf DEF TypeOK
  <2> HIDE DEF of
  <2>2. DOMAIN of = 1..Len(of)  BY <2>1
  <2> QED  BY <2>2 DEF of, ReadOrder
<1> HIDE DEF n, a, b
<1>5. Fits(m, a) /\ \A j \in 1..n : a[j] = reads[j]  BY <1>2, <1>3
<1>6. Told(m, a)[Everything] \in Int
  <2>1. DOMAIN a = 1..n  BY <1>4, <1>5 DEF Fits
  <2>2. \A i \in DOMAIN a : \E k \in 1..Len(reads) : a[i] = reads[k]
    BY <1>2, <1>5, <2>1
  <2>3. 1 \in DOMAIN a  BY <1>2, <2>1
  <2> QED  BY <1>1, <1>2, <1>5, <2>2, <2>3, NumberTold
<1>7. ASSUME asked.kind = "comparison" PROVE Told(m, b)[Everything] \in Int
  <2>1. Fits(m, b) /\ \A j \in 1..n : b[j] = reads[n + j]  BY <1>2, <1>3, <1>7
  <2>2. DOMAIN b = 1..n  BY <1>4, <2>1 DEF Fits
  <2>3. \A i \in 1..n : n + i \in 1..Len(reads)  BY <1>2, <1>7
  <2>4. \A i \in DOMAIN b : \E k \in 1..Len(reads) : b[i] = reads[k]  BY <2>1, <2>2, <2>3
  <2>5. 1 \in DOMAIN b /\ ~ NoQuotient(m, b)  BY <1>2, <1>7, <2>2 DEF b
  <2> QED  BY <1>1, <2>1, <2>4, <2>5, NumberTold
<1> QED  BY <1>2, <1>3, <1>6, <1>7 DEF a, b

\* What is asked of a total.
LEMMA AskedOK ==
  ASSUME TypeOK, asked.kind \in {"total", "comparison"}
  PROVE  /\ asked.metric \in MetricName /\ Dependencies[asked.metric] \subseteq MetricName
         /\ Cardinality(asked.period) \in Nat
         /\ asked.period = {} => Cardinality(asked.period) = 0
<1>1. Retrieval(asked) /\ asked \in Question  BY DEF Retrieval, TypeOK
<1>2. asked.metric \in MetricName /\ Dependencies[asked.metric] \subseteq LiveBaseMetrics
  BY <1>1, QuestionOf
<1>3. IsFiniteSet(asked.period)  BY <1>1, QuestionsAssumption
<1> QED  BY <1>2, <1>3, FS_CardinalityType, FS_EmptySet DEF LiveBaseMetrics, MetricName

\* The keys of the base metrics are none of a metric.
LEMMA KeysApart ==
  ASSUME NEW m \in MetricName
  PROVE  m # "previous" /\ m # "day_count"
BY DEF MetricName, BaseMetrics, DerivedMetrics

\* What is served of a report by source is whole.
LEMMA ReportTold ==
  ASSUME NEW rows, WholeRows(rows), DOMAIN rows \subseteq {1, 2}, NEW period, NEW answer,
         answer.items = [b \in DOMAIN rows |-> Quantized(rows[b])],
         answer.derived = ReportCalculations("sales_by_source", rows, period)
  PROVE  ReportWhole(answer)
<1> DEFINE B == DOMAIN rows
           x == [b \in B |-> rows[b][1]]
           T == SumFunctionOnSet(x, B)
           items == answer.items
           shares == [b \in DOMAIN answer.derived |-> Coalesced(answer.derived[b].value)]
<1>1. IsFiniteSet(B) /\ \A b \in B : x[b] \in Int /\ rows[b] = Whole(x[b])
  BY DEF WholeRows, IsRows
<1>2. answer.derived = [b \in B |-> Calculated("share_percent", {rows[b]}, {SumOf(rows)})]
  BY DEF ReportCalculations
<1> HIDE DEF B, x
<1>3. IntegerOn(x, B)  BY <1>1 DEF IntegerOn
<1>4. SumOf(rows) = Whole(T) /\ T \in Int  BY <1>1, <1>3, SumOfWholes, SumType DEF B
<1>5. DOMAIN items = B /\ \A b \in B : items[b] = 100 * x[b]
  BY <1>1, WholeQuantized DEF B
<1>6. SumFunction(items) = 100 * T
  <2> HIDE DEF items
  <2>1. SumFunctionOnSet(items, B) = 100 * T  BY <1>1, <1>3, <1>5, SumScaled
  <2> QED  BY <1>5, <2>1 DEF SumFunction
<1>7. ASSUME T # 0 PROVE SumFunction(shares) - 10000 \in {-1, 0, 1}
  <2>1. ASSUME NEW b \in B PROVE shares[b] = Quantized(<<100 * x[b], T>>)
    <3> DEFINE c == Calculated("share_percent", {Whole(x[b])}, {Whole(T)})
               q == Quantized(<<100 * x[b], T>>)
    <3>1. shares[b] = Coalesced(c.value)  BY <1>1, <1>2, <1>4
    <3>2. Over(<<100 * Whole(x[b])[1], Whole(x[b])[2]>>, Whole(T)) = <<100 * x[b], T>>
      BY DEF Over, Whole
    <3>3. Whole(T)[1] = T  BY DEF Whole
    <3>4. c.value = {Quantized(Percentage("share_percent", Whole(x[b]), Whole(T)))}
      <4>1. IsPercent(c, Percentage("share_percent", Whole(x[b]), Whole(T)), Whole(T))
        BY PercentOf
      <4> HIDE DEF c
      <4> QED  BY <1>7, <3>3, <4>1 DEF IsPercent
    <3>5. c.value = {q}
      <4>1. Percentage("share_percent", Whole(x[b]), Whole(T)) = <<100 * x[b], T>>
        BY <3>2 DEF Percentage
      <4> HIDE DEF c
      <4> QED  BY <3>4, <4>1
    <3> HIDE DEF c, q
    <3>6. Coalesced({q}) = q  BY OneOf
    <3> QED  BY <3>1, <3>5, <3>6 DEF q
  <2>2. DOMAIN shares = B  BY <1>2
  <2> HIDE DEF shares
  <2> DEFINE s == SumFunctionOnSet(shares, B)
             k == Cardinality(B)
  <2>3. k \in Nat /\ s \in Int /\ - k <= 2 * (s - 10000) /\ 2 * (s - 10000) <= k
    <3>1. T = SumFunctionOnSet(x, B)  OBVIOUS
    <3> HIDE DEF T
    <3> QED  BY <1>1, <1>3, <1>4, <1>7, <2>1, <3>1, SharesOfWhole, SMTT(30)
  <2>4. k <= 2
    <3>1. B \subseteq {1, 2}  BY DEF B
    <3> QED  BY <3>1, AtMostTwo
  <2>5. SumFunction(shares) = s  BY <2>2 DEF SumFunction
  <2> HIDE DEF s, k
  <2>6. s - 10000 \in {-1, 0, 1}  BY <2>3, <2>4
  <2> QED  BY <2>5, <2>6
<1> HIDE DEF T
<1>8. SumFunction(items) # 0 => T # 0  BY <1>4, <1>6
<1> QED  BY <1>7, <1>8 DEF ReportWhole

\* Every step keeps AnswersWhole.
LEMMA WholeTold ==
  ASSUME TypeOK, [Next]_vars, AnswersWhole
  PROVE  AnswersWhole'
<1>1. ASSUME UNCHANGED <<asked, reads, told>> PROVE AnswersWhole'
  BY <1>1 DEF AnswersWhole, TrendWhole, RankingWhole, ReportWhole, CalculationsWhole
<1>2. ASSUME told'.outcome # "served" PROVE AnswersWhole'
  BY <1>2 DEF AnswersWhole
<1>3. ASSUME NEW answer, Tell(Served(answer)),
             asked.kind = "trend" => TrendWhole(answer),
             asked.kind = "ranking" => RankingWhole(answer),
             asked.kind \in {"total", "comparison"} => CalculationsWhole(answer),
             asked.kind = "report" /\ asked.metric = "sales_by_source" => ReportWhole(answer)
      PROVE  AnswersWhole'
  <2>1. told'.answer = answer /\ UNCHANGED <<asked, reads>>  BY <1>3 DEF Tell, Served
  <2>2. TrendWhole(told.answer)' <=> TrendWhole(answer)  BY <2>1 DEF TrendWhole
  <2>3. RankingWhole(told.answer)' <=> RankingWhole(answer)  BY <2>1 DEF RankingWhole
  <2>4. ReportWhole(told.answer)' <=> ReportWhole(answer)  BY <2>1 DEF ReportWhole
  <2>5. CalculationsWhole(told.answer)' <=> CalculationsWhole(answer)
    BY <2>1 DEF CalculationsWhole
  <2> QED  BY <1>3, <2>1, <2>2, <2>3, <2>4, <2>5 DEF AnswersWhole
<1>4. ASSUME NEW i \in OrderId, NEW row \in Row, SyncWrite(i, row) PROVE AnswersWhole'
  BY <1>2, <1>4 DEF SyncWrite, NoAnswer
<1>5. CASE Execute
  BY <1>2, <1>5 DEF Execute, NoAnswer
<1>6. CASE FailReport \/ FailQuotient \/ FailDay \/ FailRanking
  BY <1>2, <1>6 DEF FailReport, FailQuotient, FailDay, FailRanking, Tell, Raised
<1>7. CASE TellTotal
  <2> DEFINE v == Told(asked.metric, reads)[Everything]
             metrics == TotalMetrics(v)
             d == Computed(asked.calculations, metrics)
             answer == [value |-> v, derived |-> d, warnings |-> Warnings(d)]
  <2>1. Tell(Served(answer)) /\ asked.kind = "total" /\ Readable  BY <1>7 DEF TellTotal
  <2>2. answer.value = v /\ answer.derived = d /\ answer.warnings = Warnings(d)  OBVIOUS
  <2>3. v \in Int  BY <2>1, TotalsTold
  <2>4. /\ asked.metric \in MetricName /\ Dependencies[asked.metric] \subseteq MetricName
        /\ Cardinality(asked.period) \in Nat /\ (asked.period = {} => Cardinality(asked.period) = 0)
    BY <2>1, AskedOK
  <2>5. /\ asked.metric \in DOMAIN metrics /\ metrics[asked.metric] = Hundredths(v)
        /\ "previous" \notin DOMAIN metrics
        /\ Cardinality(asked.period) # 0 => "day_count" \in DOMAIN metrics
        /\ "day_count" \in DOMAIN metrics =>
             metrics["day_count"] = Whole(Cardinality(asked.period))
    BY <2>4, KeysApart DEF TotalMetrics
  <2> HIDE DEF v, metrics, d, answer
  <2>6. CalculationsWhole(answer)  BY <2>1, <2>2, <2>3, <2>4, <2>5, CalculationsTold DEF d
  <2> QED  BY <1>3, <2>1, <2>6
<1>8. CASE TellBreakdown
  <2>1. PICK answer : Tell(Served(answer))  BY <1>8 DEF TellBreakdown
  <2> QED  BY <1>3, <1>8, <2>1 DEF TellBreakdown
<1>9. CASE TellBusiness
  <2>1. PICK answer : Tell(Served(answer))  BY <1>9 DEF TellBusiness
  <2> QED  BY <1>3, <1>9, <2>1 DEF TellBusiness
<1>10. CASE TellComparison
  <2> DEFINE v == Told(asked.metric, Asked(asked))[Everything]
             p == Told(asked.metric, Before(asked))[Everything]
             metrics == ComparisonMetrics(v, p)
             d == Computed(asked.calculations, metrics)
             answer == [value |-> v, previous |-> p, derived |-> d, warnings |-> Warnings(d)]
  <2>1. /\ Tell(Served(answer)) /\ asked.kind = "comparison" /\ Readable
        /\ ~ NoQuotient(asked.metric, Before(asked))
    BY <1>10 DEF TellComparison
  <2>2. /\ answer.value = v /\ answer.previous = p
        /\ answer.derived = d /\ answer.warnings = Warnings(d)
    OBVIOUS
  <2>3. v \in Int /\ p \in Int  BY <2>1, TotalsTold
  <2>4. asked.metric \in MetricName /\ Cardinality(asked.period) \in Nat
    BY <2>1, AskedOK
  <2>5. /\ asked.metric \in DOMAIN metrics /\ metrics[asked.metric] = Hundredths(v)
        /\ "previous" \in DOMAIN metrics /\ metrics["previous"] = Hundredths(p)
        /\ "day_count" \in DOMAIN metrics
        /\ metrics["day_count"] = Whole(Cardinality(asked.period))
    BY <2>4, KeysApart DEF ComparisonMetrics
  <2> HIDE DEF v, p, metrics, d, answer
  <2>6. CalculationsWhole(answer)  BY <2>1, <2>2, <2>3, <2>4, <2>5, CalculationsTold DEF d
  <2> QED  BY <1>3, <2>1, <2>6
<1>11. CASE TellRanking
  <2> DEFINE items == Told(asked.metric, reads)
             answer == [items |-> items, total |-> TotalValue,
                        ranked |-> Ranked(items, asked.direction, asked.k),
                        share |-> [b \in DOMAIN items |-> Share(items[b], TotalValue)]]
  <2>1. Tell(Served(answer)) /\ asked.kind = "ranking" /\ Readable  BY <1>11 DEF TellRanking
  <2>2. /\ answer.items = items /\ answer.total = TotalValue
        /\ answer.ranked = Ranked(answer.items, asked.direction, asked.k)
        /\ answer.share = [b \in DOMAIN answer.items |-> Share(answer.items[b], answer.total)]
    OBVIOUS
  <2> HIDE DEF answer
  <2>3. RankingWhole(answer)  BY <2>1, <2>2, RankingTold
  <2> QED  BY <1>3, <2>1, <2>3
<1>12. CASE TellTrend
  <2> DEFINE items == Told(asked.metric, reads)
             points == Series(items, asked.period)
             answer == [days |-> Days(items, asked.period), points |-> points,
                        latest |-> IF Len(points) < Window THEN {}
                                   ELSE LatestAverage(points, Window),
                        slope |-> IF Len(points) < 2 THEN {} ELSE {Slope(points)}]
  <2>1. Tell(Served(answer)) /\ asked.kind = "trend" /\ Readable  BY <1>12 DEF TellTrend
  <2>2. /\ answer.days = Days(items, asked.period) /\ answer.points = Series(items, asked.period)
        /\ answer.slope = IF Len(answer.points) < 2 THEN {} ELSE {Slope(answer.points)}
    OBVIOUS
  <2> HIDE DEF answer
  <2>3. TrendWhole(answer)  BY <2>1, <2>2, TrendTold
  <2> QED  BY <1>3, <2>1, <2>3
<1>13. CASE TellReport
  <2> DEFINE rows == reads[1]
             answer == [items |-> [b \in DOMAIN rows |-> Quantized(rows[b])],
                        derived |-> ReportCalculations(asked.metric, rows, asked.period)]
  <2>1. Tell(Served(answer)) /\ asked.kind = "report" /\ Finished  BY <1>13 DEF TellReport
  <2>2. /\ answer.items = [b \in DOMAIN rows |-> Quantized(rows[b])]
        /\ answer.derived = ReportCalculations(asked.metric, rows, asked.period)
    OBVIOUS
  <2> HIDE DEF answer
  <2>3. ASSUME asked.metric = "sales_by_source" PROVE ReportWhole(answer)
    <3>1. Len(Statements(asked)) = 1
      BY <2>1 DEF Statements, Grouped
    <3>2. ReadOK(asked, Statements(asked)[1], rows)  BY <2>1, <3>1 DEF TypeOK, Finished
    <3>3. WholeRows(rows) /\ DOMAIN rows \subseteq {1, 2}  BY <2>1, <2>3, <3>2 DEF ReadOK
    <3> HIDE DEF rows
    <3> QED  BY <2>2, <2>3, <3>3, ReportTold
  <2> QED  BY <1>3, <2>1, <2>3
<1>14. CASE UNCHANGED vars
  BY <1>1, <1>14 DEF vars
<1> QED
  BY <1>4, <1>5, <1>6, <1>7, <1>8, <1>9, <1>10, <1>11, <1>12, <1>13, <1>14 DEF Next

(* Whatever the orders and the question, and whatever a sync writes in     *)
(* between: a served series covers its days and their total, and is not    *)
(* said to fall when it never does; a ranking leaves out none that is      *)
(* better than what it names, by the direction of its plan; shares add up  *)
(* to 100 but for the rounding; what is calculated of a total is that of   *)
(* the figures told with it, or there is a warning that it is missing      *)
(* (calc_tools.py, tools/ranking.py).                                       *)
THEOREM AnswersAlwaysWhole == Spec => []AnswersWhole
<1>1. Init => AnswersWhole  BY DEF Init, AnswersWhole, NoAnswer
<1>2. TypeOK /\ AnswersWhole /\ [Next]_vars => AnswersWhole'  BY WholeTold
<1> QED  BY <1>1, <1>2, LiveTypes, PTL DEF Spec

\* Sameness is that of the fractions, whole or not.
LEMMA SameAsWhole ==
  ASSUME NEW n \in Int, NEW x, x = Whole(n)
  PROVE  Same(x, Whole(n))
BY SameWhole

(* The figures agree on any orders of the database, the ones that a         *)
(* question finds there.                                                    *)
LEMMA FiguresOfOrders ==
  ASSUME TypeOK
  PROVE  FiguresAgree
<1> DEFINE scope == asked.scope
           S == Chosen(orders, scope, asked.period)
           wide == [scope EXCEPT !.branches = {}, !.source = "any"]
           all == Chosen(orders, wide, asked.period)
           total(m) == Aggregate(orders, m, S)
           by(m, d, T) == Statement(orders, m, d, T)
           narrow == [scope EXCEPT !.source = "any"]
           reported(r) == ReportRows(orders, r, narrow, asked.period)
           items == {ItemOf(orders, r).item : r \in ItemRows(orders, S)}
           sold == ItemPerformance(orders, S, "quantity_sold", "top_k",
                                   Cardinality(items), {}, {})
           customers == CustomerSummary(orders, S)
<1>1. IsOrders(orders)  BY OrdersOK DEF TypeOK
<1>2. S \in SUBSET DOMAIN orders /\ all \in SUBSET DOMAIN orders  BY ChosenIn
<1>3. scope \in [profile : Int, branches : SUBSET Int,
                 source : {"any", "takeaway", "in_store"}]
  BY QuestionsAssumption DEF TypeOK
<1>4. "sales_total" \in LiveBaseMetrics /\ "quantity_sold" \in LiveBaseMetrics
  BY LiveMetrics
<1>5. \A m \in LiveBaseMetrics : total(m) \in Int  BY <1>1, <1>2, AggregateIsSum
<1>6. \A m \in LiveBaseMetrics, d \in {"source", "day", "branch"} :
        Same(SumOf(by(m, d, S)), Whole(total(m)))
  <2> SUFFICES ASSUME NEW m \in LiveBaseMetrics, NEW d \in {"source", "day", "branch"}
               PROVE  Same(SumOf(by(m, d, S)), Whole(total(m)))
    OBVIOUS
  <2>1. d \in Single \ {"none"}  BY DEF Single
  <2> HIDE DEF S
  <2>2. SumOf(Statement(orders, m, d, S)) = Whole(Aggregate(orders, m, S))
    BY <1>1, <1>2, <2>1, SumOfBreakdown
  <2> QED  BY <1>5, <2>2, SameAsWhole
<1>7. Same(SumOf(by("sales_total", "category", S)),
           Whole(Aggregate(orders, "sales_total", {i \in S : GrossOf(orders[i]) # 0})))
  <2> HIDE DEF S
  <2> QED  BY <1>1, <1>2, CategorySales
<1>8. Same(SumOf(by("quantity_sold", "category", S)), Whole(total("quantity_sold")))
  <2> HIDE DEF S
  <2>1. SumOf(Statement(orders, "quantity_sold", "category", S))
          = Whole(Aggregate(orders, "quantity_sold", S))
    BY <1>1, <1>2, CategoryQuantity
  <2> QED  BY <1>4, <1>5, <2>1, SameAsWhole
<1>9. scope.source = "in_store" =>
        LET unfiltered == [scope EXCEPT !.source = "any"]
            T == {i \in Chosen(orders, unfiltered, asked.period) : orders[i].delivery # {}}
            rows == by("sales_total", "source", T)
        IN  IF 1 \in DOMAIN rows THEN Same(rows[1], Whole(total("sales_total"))) ELSE S = {}
  <2> HIDE DEF scope
  <2> QED  BY <1>1, <1>3, InStoreIsBucket
<1>10. /\ narrow.source = "any" /\ narrow \in [profile : Int, branches : SUBSET Int,
                                             source : {"any", "takeaway", "in_store"}]
       /\ all = Chosen(orders, Wide(narrow), asked.period)
  <2> HIDE DEF scope
  <2>1. wide = Wide(narrow)  BY <1>3 DEF Wide
  <2> QED  BY <1>3, <2>1
<1> HIDE DEF narrow
<1>11. reported("sales_total")[Everything] = Whole(Aggregate(orders, "sales_total", all))
  <2> HIDE DEF all
  <2> QED  BY <1>10, ReportedTotal
<1>12. Aggregate(orders, "sales_total", all) \in Int
  <2> HIDE DEF all
  <2> QED  BY <1>1, <1>2, <1>4, AggregateIsSum
<1>13. /\ Same(reported("sales_total")[Everything],
               Whole(Aggregate(orders, "sales_total", all)))
       /\ Same(SumOf(reported("sales_by_source")), reported("sales_total")[Everything])
  <2>1. SumOf(reported("sales_by_source")) = Whole(Aggregate(orders, "sales_total", all))
    <3> HIDE DEF all
    <3> QED  BY <1>1, <1>10, ReportedSources
  <2> HIDE DEF all, reported
  <2> QED  BY <1>11, <1>12, <2>1, SameAsWhole
<1>14. SumFunction([i \in DOMAIN sold |-> sold[i][2]]) = total("quantity_sold")
  <2>1. items = ItemsIn(orders, S)  BY DEF ItemsIn
  <2> DEFINE s == ItemPerformance(orders, S, "quantity_sold", "top_k",
                                  Cardinality(ItemsIn(orders, S)), {}, {})
  <2>2. sold = s  BY <2>1
  <2>3. SumFunction([i \in DOMAIN s |-> s[i][2]]) = total("quantity_sold")
    <3> HIDE DEF S
    <3> QED  BY <1>1, <1>2, ItemsSold
  <2> HIDE DEF s, sold
  <2> QED  BY <2>2, <2>3
<1>15. /\ customers.total_order_count = total("order_count")
       /\ customers.unique_clients <= customers.identified_order_count
  <2> HIDE DEF S
  <2> QED  BY <1>1, <1>2, CustomersOnce
<1> QED
  BY <1>6, <1>7, <1>8, <1>9, <1>13, <1>14, <1>15, Zenon DEF FiguresAgree, narrow

(* Two services that read the same orders never contradict each other: the  *)
(* totals and breakdowns of live_analytics.py, the reports of               *)
(* smartrest_backend.py, the items and customers of                         *)
(* live_business_tools.py.                                                  *)
THEOREM FiguresAlwaysAgree == Spec => []FiguresAgree
<1>1. TypeOK => FiguresAgree  BY FiguresOfOrders
<1> QED  BY <1>1, LiveTypes, PTL
==============================================================================

----------------------------- MODULE TableOrders -----------------------------
(***************************************************************************)
(* What _order_mappings_by_fk (app/sync/mapped_table_sync.py) answers for  *)
(* a selection S of tables, P[t] being the tables t's foreign keys refer   *)
(* to.  FkOrder models how it gets there.                                  *)
(***************************************************************************)
EXTENDS Integers, FiniteSets

\* Reflecting a table reflects what it refers to, transitively: the least set
\* that holds S and the parents of its members.
Closed(P, C) == \A t \in C : P[t] \subseteq C
Reflected(P, S) == {t \in DOMAIN P :
                      \A C \in SUBSET DOMAIN P : S \subseteq C /\ Closed(P, C) => t \in C}

\* A table that was reflected but not selected, and refers to a selected one,
\* has no entry in the indegree map: the function raises a KeyError.
Orderable(P, S) == \A t \in Reflected(P, S) \ S : P[t] \cap S = {}

\* Tables on a foreign-key cycle of S, or below one: Kahn's queue never
\* reaches them.
Stuck(P, S) == UNION {C \in SUBSET S : \A t \in C : (P[t] \ {t}) \cap C # {}}

\* Mutant of Orders: the mappings in whatever order the query returns them.
AnyOrders(P, S) == {o \in [1 .. Cardinality(S) -> S] : {o[i] : i \in DOMAIN o} = S}

\* Parents first, then whatever the queue could not reach.
Orders(P, S) ==
  {o \in [1 .. Cardinality(S) -> S] :
     /\ {o[i] : i \in DOMAIN o} = S
     /\ \A i, j \in DOMAIN o :
          i < j => /\ o[j] \notin P[o[i]] \ Stuck(P, S)
                   /\ o[i] \in Stuck(P, S) => o[j] \in Stuck(P, S)}
=============================================================================

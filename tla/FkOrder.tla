------------------------------- MODULE FkOrder -------------------------------
(***************************************************************************)
(* _order_mappings_by_fk of app/sync/mapped_table_sync.py: the foreign     *)
(* keys of the reflected tables become edges and in-degrees, then Kahn's   *)
(* queue orders the selected tables and what it cannot reach is appended.  *)
(* Two constraints may join the same two tables, a table may refer to      *)
(* itself, and the iteration order of dicts and sets is left open.         *)
(***************************************************************************)
EXTENDS TableOrders, Sequences, SequencesExt

CONSTANTS Table,      \* the tables of the target database
          Constraint  \* its foreign-key constraints

ASSUME SchemaAssumption == IsFiniteSet(Table) /\ IsFiniteSet(Constraint)

VARIABLES
  child, parent, \* [Constraint -> Table]: the schema
  selected,      \* by_dst: the tables to order
  pending,       \* constraints of reflected tables not yet looked at
  edges,         \* [Table -> SUBSET Table], parent to children
  indegree,      \* [selected -> Nat]
  ready,         \* the deque
  ordered,       \* ordered_names
  pc             \* "edges", "queue", "done" or "raised"

schema == <<child, parent, selected>>
vars == <<schema, pending, edges, indegree, ready, ordered, pc>>

ParentsOf == [t \in Table |-> {parent[c] : c \in {k \in Constraint : child[k] = t}}]

Init ==
  /\ child \in [Constraint -> Table] /\ parent \in [Constraint -> Table]
  /\ selected \in SUBSET Table
  /\ pending = {c \in Constraint : child[c] \in Reflected(ParentsOf, selected)}
  /\ edges = [t \in Table |-> {}]
  /\ indegree = [t \in selected |-> 0]
  /\ ready = <<>> /\ ordered = <<>>
  /\ pc = "edges"

\* The test of the inner loop: a new edge between two different tables.
\* Its mutant counts every constraint, not every edge.
IsConstraintToCount(c) == parent[c] \in selected /\ parent[c] # child[c]
IsEdge(c) == /\ parent[c] \in selected /\ parent[c] # child[c]
             /\ child[c] \notin edges[parent[c]]

AddEdge(c) ==
  /\ IsEdge(c) /\ child[c] \in selected
  /\ edges' = [edges EXCEPT ![parent[c]] = @ \cup {child[c]}]
  /\ indegree' = [indegree EXCEPT ![child[c]] = @ + 1]
  /\ UNCHANGED <<schema, ready, ordered, pc>>

\* indegree has no such key.
MissingTable(c) ==
  /\ IsEdge(c) /\ child[c] \notin selected
  /\ edges' = [edges EXCEPT ![parent[c]] = @ \cup {child[c]}]
  /\ pc' = "raised"
  /\ UNCHANGED <<schema, indegree, ready, ordered>>

PassConstraint(c) ==
  /\ ~ IsEdge(c)
  /\ UNCHANGED <<schema, edges, indegree, ready, ordered, pc>>

ReadConstraint ==
  /\ pc = "edges"
  /\ \E c \in pending : /\ AddEdge(c) \/ MissingTable(c) \/ PassConstraint(c)
                        /\ pending' = pending \ {c}

StartQueue ==
  /\ pc = "edges" /\ pending = {}
  /\ ready' \in SetToSeqs({t \in selected : indegree[t] = 0})
  /\ pc' = "queue"
  /\ UNCHANGED <<schema, pending, edges, indegree, ordered>>

Pop ==
  /\ pc = "queue" /\ ready # <<>>
  /\ LET name == Head(ready)
         freed == {t \in edges[name] : indegree[t] = 1}
     IN  /\ ordered' = Append(ordered, name)
         /\ indegree' = [t \in selected |-> IF t \in edges[name] THEN indegree[t] - 1
                                                                 ELSE indegree[t]]
         /\ \E q \in SetToSeqs(freed) : ready' = Tail(ready) \o q
  /\ UNCHANGED <<schema, pending, edges, pc>>

\* Mutant of Finish: no table may be left over.
FinishWhenComplete ==
  /\ pc = "queue" /\ ready = <<>> /\ Len(ordered) = Cardinality(selected)
  /\ pc' = "done"
  /\ UNCHANGED <<schema, pending, edges, indegree, ready, ordered>>

\* The tables of a cycle, and those below it, go last.
Finish ==
  /\ pc = "queue" /\ ready = <<>>
  /\ \E q \in SetToSeqs(selected \ ToSet(ordered)) : ordered' = ordered \o q
  /\ pc' = "done"
  /\ UNCHANGED <<schema, pending, edges, indegree, ready>>

Next == ReadConstraint \/ StartQueue \/ Pop \/ Finish

Spec == Init /\ [][Next]_vars /\ WF_vars(Next)

-----------------------------------------------------------------------------
(* Type correctness of every variable. *)
TypeOK ==
  /\ child \in [Constraint -> Table] /\ parent \in [Constraint -> Table]
  /\ selected \subseteq Table /\ pending \subseteq Constraint
  /\ edges \in [Table -> SUBSET Table]
  /\ indegree \in [selected -> Nat]
  /\ ready \in Seq(selected) /\ ordered \in Seq(selected)
  /\ pc \in {"edges", "queue", "done", "raised"}

(* The queue computes exactly what MappedTableSync takes it to compute: an  *)
(* order with every selected table once, parents first as far as there is   *)
(* no cycle; and it raises on exactly the selections that are not Orderable.*)
Correct ==
  /\ pc = "done" => Orderable(ParentsOf, selected) /\ ordered \in Orders(ParentsOf, selected)
  /\ pc = "raised" => ~ Orderable(ParentsOf, selected)

(* It ends, on cyclic schemas too. *)
Ends == <>(pc \in {"done", "raised"})

(* What the command line says, "Optional source/destination table name to   *)
(* exclude" (app/sync/mapped_runner.py): any selection of the tables of a   *)
(* schema without cycles can be synchronised.  The code raises when the     *)
(* table left out lies between two selected ones (run `selections`).        *)
AnySelection == Stuck(ParentsOf, Table) = {} => pc # "raised"
=============================================================================

---------------------------- MODULE FkOrder_proofs ----------------------------
(***************************************************************************)
(* The queue of _order_mappings_by_fk, for every schema and selection: it  *)
(* raises on the selections TableOrders calls not Orderable and answers    *)
(* one of its Orders for the others.                                       *)
(***************************************************************************)
EXTENDS FkOrder, FiniteSetTheorems, TLAPS

-----------------------------------------------------------------------------
(* Sets as sequences *)

\* A sequence of a set has each of its members once.
LEMMA SeqOfSet ==
  ASSUME NEW S, IsFiniteSet(S), NEW q \in SetToSeqs(S)
  PROVE  /\ q \in Seq(S) /\ Len(q) = Cardinality(S) /\ Cardinality(S) \in Nat
         /\ DOMAIN q = 1 .. Len(q) /\ {q[i] : i \in 1 .. Len(q)} = S
         /\ \A i, j \in 1 .. Len(q) : i # j => q[i] # q[j]
<1> DEFINE D == 1 .. Cardinality(S)
<1>1. Cardinality(S) \in Nat  BY FS_CardinalityType
<1>2. q \in [D -> S] /\ \A i, j \in D : i # j => q[i] # q[j]  BY DEF SetToSeqs
<1>3. q \in Seq(S) /\ Len(q) = Cardinality(S)  BY <1>1, <1>2
<1>4. q \in Injection(D, S)  BY <1>2 DEF Injection, IsInjective
<1>5. IsFiniteSet(D) /\ Cardinality(D) = Cardinality(S)
  BY <1>1, FS_Interval
<1>6. q \in Surjection(D, S)  BY <1>4, <1>5, FS_Injection
<1>7. {q[i] : i \in D} = S  BY <1>2, <1>6 DEF Surjection
<1> QED  BY <1>1, <1>2, <1>3, <1>7

\* The queue moves its head to the end of what is ordered, and grows.
LEMMA Shift ==
  ASSUME NEW S, NEW L \in Seq(S), NEW R \in Seq(S), R # <<>>, NEW q \in Seq(S)
  PROVE  \A z : z = Append(L, Head(R)) \o (Tail(R) \o q) => z = (L \o R) \o q
<1> DEFINE A == Append(L, Head(R)) \o (Tail(R) \o q)
           B == (L \o R) \o q
<1>1. /\ Len(L) \in Nat /\ Len(R) \in Nat \ {0} /\ Len(q) \in Nat
      /\ Head(R) = R[1] /\ Head(R) \in S
  OBVIOUS
<1>2. /\ Tail(R) \in Seq(S) /\ Len(Tail(R)) = Len(R) - 1
      /\ \A i \in 1 .. (Len(R) - 1) : Tail(R)[i] = R[i + 1]
  BY <1>1
<1>3. /\ Append(L, Head(R)) \in Seq(S) /\ Len(Append(L, Head(R))) = Len(L) + 1
      /\ \A i \in 1 .. Len(L) : Append(L, Head(R))[i] = L[i]
      /\ Append(L, Head(R))[Len(L) + 1] = R[1]
  BY <1>1
<1>4. /\ A \in Seq(S) /\ Len(A) = Len(L) + Len(R) + Len(q)
      /\ B \in Seq(S) /\ Len(B) = Len(L) + Len(R) + Len(q)
  BY <1>1, <1>2, <1>3
<1>5. ASSUME NEW i \in 1 .. (Len(L) + Len(R) + Len(q)) PROVE A[i] = B[i]
  <2>1. CASE i <= Len(L)  BY <1>1, <1>2, <1>3, <2>1
  <2>2. CASE i = Len(L) + 1  BY <1>1, <1>2, <1>3, <2>2
  <2>3. CASE i > Len(L) + 1 /\ i <= Len(L) + Len(R)  BY <1>1, <1>2, <1>3, <2>3
  <2>4. CASE i > Len(L) + Len(R)  BY <1>1, <1>2, <1>3, <2>4
  <2> QED  BY <1>1, <2>1, <2>2, <2>3, <2>4
<1> HIDE DEF A, B
<1>6. A = B  BY <1>1, <1>4, <1>5
<1> QED  BY <1>6 DEF A, B

Distinct(s) == \A i, j \in 1 .. Len(s) : i # j => s[i] # s[j]
Elements(s) == {s[i] : i \in 1 .. Len(s)}

LEMMA Joined ==
  ASSUME NEW S, NEW s \in Seq(S), NEW q \in Seq(S)
  PROVE  /\ s \o q \in Seq(S) /\ Len(s \o q) = Len(s) + Len(q)
         /\ Elements(s \o q) = Elements(s) \cup Elements(q)
         /\ Distinct(s \o q) <=>
              Distinct(s) /\ Distinct(q) /\ Elements(s) \cap Elements(q) = {}
<1>1. /\ s \o q \in Seq(S) /\ Len(s \o q) = Len(s) + Len(q)
      /\ Len(s) \in Nat /\ Len(q) \in Nat
      /\ \A i \in 1 .. Len(s) : (s \o q)[i] = s[i]
      /\ \A i \in 1 .. Len(q) : (s \o q)[Len(s) + i] = q[i]
  OBVIOUS
<1>2. \A i \in 1 .. (Len(s) + Len(q)) :
        i \in 1 .. Len(s) \/ \E k \in 1 .. Len(q) : i = Len(s) + k
  <2> SUFFICES ASSUME NEW i \in 1 .. (Len(s) + Len(q)), i \notin 1 .. Len(s)
               PROVE  \E k \in 1 .. Len(q) : i = Len(s) + k
    OBVIOUS
  <2>1. i - Len(s) \in 1 .. Len(q) /\ i = Len(s) + (i - Len(s))  BY <1>1
  <2> QED  BY <2>1
<1>3. Elements(s \o q) = Elements(s) \cup Elements(q)
  <2>1. Elements(s \o q) \subseteq Elements(s) \cup Elements(q)
    BY <1>1, <1>2 DEF Elements
  <2>2. \A i \in 1 .. Len(s) : i \in 1 .. Len(s \o q)  BY <1>1
  <2>3. \A i \in 1 .. Len(q) : Len(s) + i \in 1 .. Len(s \o q)  BY <1>1
  <2>4. Elements(s) \cup Elements(q) \subseteq Elements(s \o q)
    BY <1>1, <2>2, <2>3 DEF Elements
  <2> QED  BY <2>1, <2>4
<1>4. ASSUME Distinct(s \o q)
      PROVE  Distinct(s) /\ Distinct(q) /\ Elements(s) \cap Elements(q) = {}
  <2>1. Distinct(s)  BY <1>1, <1>4 DEF Distinct
  <2>2. Distinct(q)
    <3> SUFFICES ASSUME NEW i \in 1 .. Len(q), NEW j \in 1 .. Len(q), i # j
                 PROVE  q[i] # q[j]
      BY DEF Distinct
    <3>1. Len(s) + i \in 1 .. Len(s \o q) /\ Len(s) + j \in 1 .. Len(s \o q)
          /\ Len(s) + i # Len(s) + j
      BY <1>1
    <3> QED  BY <1>1, <1>4, <3>1 DEF Distinct
  <2>3. ASSUME NEW i \in 1 .. Len(s), NEW j \in 1 .. Len(q) PROVE s[i] # q[j]
    <3>1. i \in 1 .. Len(s \o q) /\ Len(s) + j \in 1 .. Len(s \o q) /\ i # Len(s) + j
      BY <1>1
    <3> QED  BY <1>1, <1>4, <3>1 DEF Distinct
  <2> QED  BY <2>1, <2>2, <2>3 DEF Elements
<1>5. ASSUME Distinct(s), Distinct(q), Elements(s) \cap Elements(q) = {}
      PROVE  Distinct(s \o q)
  <2> SUFFICES ASSUME NEW i \in 1 .. (Len(s) + Len(q)), NEW j \in 1 .. (Len(s) + Len(q)),
                      i # j
               PROVE  (s \o q)[i] # (s \o q)[j]
    BY <1>1 DEF Distinct
  <2>1. \A a \in 1 .. Len(s), b \in 1 .. Len(q) : s[a] # q[b]  BY <1>5 DEF Elements
  <2>2. CASE i \in 1 .. Len(s) /\ j \in 1 .. Len(s)  BY <1>1, <1>5, <2>2 DEF Distinct
  <2>3. CASE i \in 1 .. Len(s) /\ j \notin 1 .. Len(s)  BY SMTT(30), <1>1, <1>2, <2>1, <2>3
  <2>4. CASE i \notin 1 .. Len(s) /\ j \in 1 .. Len(s)  BY <1>1, <1>2, <2>1, <2>4
  <2>5. CASE i \notin 1 .. Len(s) /\ j \notin 1 .. Len(s)
    <3>1. PICK a \in 1 .. Len(q) : i = Len(s) + a  BY <1>2, <2>5
    <3>2. PICK b \in 1 .. Len(q) : j = Len(s) + b  BY <1>2, <2>5
    <3>3. a # b  BY <3>1, <3>2
    <3> QED  BY <1>1, <1>5, <3>1, <3>2, <3>3 DEF Distinct
  <2> QED  BY <2>2, <2>3, <2>4, <2>5
<1> QED  BY <1>1, <1>3, <1>4, <1>5

-----------------------------------------------------------------------------
(* The edges are the foreign keys among the selected tables *)

Seen == Reflected(ParentsOf, selected)

EdgesOK ==
  /\ \A c \in pending : child[c] \in Seen
  /\ pc \in {"queue", "done"} => pending = {}
  /\ \A p \in Table : \A t \in edges[p] : p \in selected /\ p # t /\ p \in ParentsOf[t]
  /\ \A c \in Constraint \ pending :
       child[c] \in Seen /\ parent[c] \in selected /\ parent[c] # child[c] =>
         child[c] \in edges[parent[c]]
  /\ pc # "raised" => \A p \in Table : edges[p] \subseteq selected
  /\ pc = "raised" => ~ Orderable(ParentsOf, selected)

LEMMA SeenHolds == TypeOK => selected \subseteq Seen /\ Seen \subseteq Table
BY DEF TypeOK, Seen, Reflected, ParentsOf

LEMMA ParentsAre ==
  ASSUME TypeOK, NEW c \in Constraint
  PROVE  child[c] \in Table /\ parent[c] \in Table /\ parent[c] \in ParentsOf[child[c]]
BY DEF TypeOK, ParentsOf

LEMMA SchemaStays ==
  ASSUME UNCHANGED schema
  PROVE  /\ ParentsOf' = ParentsOf /\ Seen' = Seen
         /\ Orderable(ParentsOf, selected)' = Orderable(ParentsOf, selected)
<1>1. child' = child /\ parent' = parent /\ selected' = selected  BY DEF schema
<1>2. ParentsOf' = ParentsOf  BY <1>1 DEF ParentsOf
<1>3. Seen' = Seen  BY <1>1, <1>2 DEF Seen, Reflected, Closed
<1>4. Orderable(ParentsOf, selected)' = Orderable(ParentsOf, selected)
  BY <1>1, <1>2 DEF Orderable, Reflected, Closed
<1> QED  BY <1>2, <1>3, <1>4

LEMMA EdgesInit == Init => EdgesOK
BY DEF Init, EdgesOK, Seen

LEMMA TypeInit == Init => TypeOK
<1> SUFFICES ASSUME Init PROVE TypeOK  OBVIOUS
<1>1. ready \in Seq(selected) /\ ordered \in Seq(selected)  BY DEF Init
<1> QED  BY <1>1 DEF Init, TypeOK

LEMMA EdgesRead == ASSUME TypeOK, EdgesOK, ReadConstraint PROVE EdgesOK'
<1> USE DEF TypeOK
<1>1. PICK c \in pending : /\ AddEdge(c) \/ MissingTable(c) \/ PassConstraint(c)
                           /\ pending' = pending \ {c}
  BY DEF ReadConstraint
<1>2. /\ UNCHANGED schema /\ c \in Constraint /\ pc = "edges"
      /\ selected' = selected /\ child' = child /\ parent' = parent
  BY <1>1 DEF AddEdge, MissingTable, PassConstraint, ReadConstraint, schema
<1>3. ParentsOf' = ParentsOf /\ Seen' = Seen
      /\ Orderable(ParentsOf, selected)' = Orderable(ParentsOf, selected)
  BY <1>2, SchemaStays
<1>4. /\ child[c] \in Seen /\ child[c] \in Table /\ parent[c] \in Table
      /\ parent[c] \in ParentsOf[child[c]]
  BY <1>2, ParentsAre DEF EdgesOK
<1>5. CASE AddEdge(c) \/ MissingTable(c)
  <2>1. /\ edges' = [edges EXCEPT ![parent[c]] = @ \cup {child[c]}] /\ IsEdge(c)
        /\ child[c] \in selected \/ pc' = "raised"
        /\ pc' = "edges" \/ (pc' = "raised" /\ child[c] \notin selected)
    BY <1>2, <1>5 DEF AddEdge, MissingTable
  <2>2. \A p \in Table : edges'[p] = IF p = parent[c] THEN edges[p] \cup {child[c]} ELSE edges[p]
    BY <1>4, <2>1
  <2>3. pc' = "raised" => ~ Orderable(ParentsOf, selected)
    BY <1>4, <2>1 DEF Orderable, Seen, IsEdge
  <2>4. \A p \in Table : \A t \in edges'[p] : p \in selected /\ p # t /\ p \in ParentsOf[t]
    BY <1>4, <2>1, <2>2 DEF EdgesOK, IsEdge
  <2>5. \A d \in Constraint \ pending' :
          child[d] \in Seen /\ parent[d] \in selected /\ parent[d] # child[d] =>
            child[d] \in edges'[parent[d]]
    BY ZenonT(60), <1>1, <2>2 DEF EdgesOK
  <2>6. pc' # "raised" => \A p \in Table : edges'[p] \subseteq selected
    BY <1>2, <2>1, <2>2 DEF EdgesOK
  <2> QED  BY <1>1, <1>2, <1>3, <2>1, <2>3, <2>4, <2>5, <2>6 DEF EdgesOK
<1>6. CASE PassConstraint(c)
  BY <1>1, <1>2, <1>3, <1>6 DEF PassConstraint, IsEdge, EdgesOK
<1> QED  BY <1>1, <1>5, <1>6

LEMMA EdgesElse ==
  ASSUME TypeOK, EdgesOK, StartQueue \/ Pop \/ Finish \/ UNCHANGED vars
  PROVE  EdgesOK'
<1>1. UNCHANGED schema /\ UNCHANGED <<pending, edges>>
  BY DEF StartQueue, Pop, Finish, vars
<1>2. /\ pc' # pc => pc # "raised" /\ pc' \in {"queue", "done"}
      /\ pc' \in {"queue", "done"} => pending = {}
  BY DEF StartQueue, Pop, Finish, vars, EdgesOK
<1>3. selected' = selected /\ child' = child /\ parent' = parent  BY <1>1 DEF schema
<1> QED  BY <1>1, <1>2, <1>3, SchemaStays DEF EdgesOK

\* When all constraints are read.
LEMMA EdgesAre ==
  ASSUME TypeOK, EdgesOK, pending = {}, pc # "raised", NEW p \in selected, NEW t \in selected
  PROVE  t \in edges[p] <=> p \in ParentsOf[t] \ {t}
<1>1. p \in Table /\ t \in Table /\ t \in Seen  BY SeenHolds DEF TypeOK
<1>2. ASSUME p \in ParentsOf[t], p # t PROVE t \in edges[p]
  <2>1. PICK c \in Constraint : child[c] = t /\ parent[c] = p
    BY <1>1, <1>2 DEF ParentsOf
  <2> QED  BY <1>1, <1>2, <2>1 DEF EdgesOK
<1> QED  BY <1>1, <1>2 DEF EdgesOK

LEMMA ReadAllOrderable ==
  ASSUME TypeOK, EdgesOK, pending = {}, pc # "raised"
  PROVE  Orderable(ParentsOf, selected)
<1> SUFFICES ASSUME NEW t \in Seen \ selected, NEW p \in ParentsOf[t], p \in selected
             PROVE  FALSE
  BY DEF Orderable, Seen
<1>1. t \in Table /\ p \in Table  BY SeenHolds DEF TypeOK
<1>2. PICK c \in Constraint : child[c] = t /\ parent[c] = p  BY <1>1 DEF ParentsOf
<1>3. t \in edges[p]  BY <1>1, <1>2 DEF EdgesOK
<1> QED  BY <1>1, <1>3 DEF EdgesOK

-----------------------------------------------------------------------------
(* The in-degrees count the parents still to be ordered *)

Waiting(t) == {p \in selected \ Elements(ordered) : t \in edges[p]}
Line == ordered \o ready
Loop(C) == \A t \in C : \E p \in C : t \in edges[p]

QueueOK ==
  /\ pc = "edges" => ordered = <<>> /\ ready = <<>>
  /\ pc \in {"edges", "queue"} => \A t \in selected : indegree[t] = Cardinality(Waiting(t))
  /\ pc = "queue" =>
       /\ Distinct(Line) /\ Elements(Line) = {t \in selected : indegree[t] = 0}
       /\ \A i \in 1 .. Len(ordered) : \A p \in selected :
            ordered[i] \in edges[p] => \E j \in 1 .. (i - 1) : ordered[j] = p
       /\ \A C \in SUBSET selected : Loop(C) => C \cap Elements(ordered) = {}

LEMMA WaitingFinite ==
  ASSUME TypeOK, NEW t
  PROVE  /\ IsFiniteSet(selected) /\ IsFiniteSet(Waiting(t))
         /\ Waiting(t) \subseteq selected /\ Cardinality(Waiting(t)) \in Nat
<1>1. IsFiniteSet(selected)  BY FS_Subset, SchemaAssumption DEF TypeOK
<1>2. Waiting(t) \subseteq selected  BY DEF Waiting
<1>3. IsFiniteSet(Waiting(t))  BY <1>1, <1>2, FS_Subset
<1> QED  BY <1>1, <1>2, <1>3, FS_CardinalityType

LEMMA QueueInit == Init => QueueOK
<1> SUFFICES ASSUME Init, NEW t \in selected PROVE indegree[t] = Cardinality(Waiting(t))
  BY DEF Init, QueueOK
<1>1. Waiting(t) = {}  BY DEF Init, Waiting
<1> QED  BY <1>1, FS_EmptySet DEF Init

LEMMA QueueRead ==
  ASSUME TypeOK, EdgesOK, QueueOK, ReadConstraint
  PROVE  TypeOK' /\ QueueOK'
<1>1. PICK c \in pending : /\ AddEdge(c) \/ MissingTable(c) \/ PassConstraint(c)
                           /\ pending' = pending \ {c}
  BY DEF ReadConstraint
<1>2. /\ pc = "edges" /\ c \in Constraint /\ ordered = <<>> /\ ready = <<>>
      /\ child[c] \in Table /\ parent[c] \in Table
  BY DEF ReadConstraint, TypeOK, QueueOK
<1>3. CASE AddEdge(c)
  <2> DEFINE p == parent[c]
             u == child[c]
  <2>1. /\ UNCHANGED schema /\ ready' = ready /\ ordered' = ordered /\ pc' = pc
        /\ edges' = [edges EXCEPT ![p] = edges[p] \cup {u}]
        /\ indegree' = [indegree EXCEPT ![u] = indegree[u] + 1]
        /\ p \in selected /\ u \in selected /\ u \notin edges[p]
    BY <1>3 DEF AddEdge, IsEdge
  <2>2. child' = child /\ parent' = parent /\ selected' = selected  BY <2>1 DEF schema
  <2> HIDE DEF p, u
  <2>3. TypeOK'  BY <1>1, <2>1, <2>2 DEF TypeOK
  <2>4. \A q \in selected : edges'[q] = IF q = p THEN edges[p] \cup {u} ELSE edges[q]
    BY <2>1 DEF TypeOK
  <2>5. Elements(ordered) = {}  BY <1>2 DEF Elements
  <2>6. ASSUME NEW t \in selected PROVE indegree'[t] = Cardinality(Waiting(t)')
    <3>1. indegree[t] = Cardinality(Waiting(t))  BY <1>2 DEF QueueOK
    <3>2. CASE t = u
      <4>1. Waiting(t)' = Waiting(t) \cup {p}
        <5>1. selected \ Elements(ordered) = selected
              /\ (selected \ Elements(ordered))' = selected
          BY <2>1, <2>2, <2>5 DEF Elements
        <5> QED  BY <2>1, <2>4, <3>2, <5>1 DEF Waiting
      <4>2. p \notin Waiting(t)  BY <2>1, <3>2 DEF Waiting
      <4>3. Cardinality(Waiting(t)') = Cardinality(Waiting(t)) + 1
        BY <4>1, <4>2, WaitingFinite, FS_AddElement
      <4> QED  BY <2>1, <3>1, <3>2, <4>3 DEF TypeOK
    <3>3. CASE t # u
      <4>1. Waiting(t)' = Waiting(t)  BY <2>1, <2>2, <2>4, <3>3 DEF Waiting, Elements
      <4> QED  BY <2>1, <3>1, <3>3, <4>1 DEF TypeOK
    <3> QED  BY <3>2, <3>3
  <2> QED  BY <1>2, <2>1, <2>2, <2>3, <2>6 DEF QueueOK
<1>4. CASE MissingTable(c)
  <2>1. /\ UNCHANGED schema /\ UNCHANGED <<indegree, ready, ordered>> /\ pc' = "raised"
        /\ edges' = [edges EXCEPT ![parent[c]] = edges[parent[c]] \cup {child[c]}]
    BY <1>4 DEF MissingTable
  <2>2. child' = child /\ parent' = parent /\ selected' = selected  BY <2>1 DEF schema
  <2>3. TypeOK'  BY <1>1, <1>2, <2>1, <2>2 DEF TypeOK
  <2> QED  BY <2>1, <2>3 DEF QueueOK
<1>5. CASE PassConstraint(c)
  <2>1. /\ UNCHANGED schema /\ UNCHANGED <<edges, indegree, ready, ordered, pc>>
    BY <1>5 DEF PassConstraint
  <2>2. child' = child /\ parent' = parent /\ selected' = selected  BY <2>1 DEF schema
  <2>3. TypeOK'  BY <1>1, <2>1, <2>2 DEF TypeOK
  <2>4. \A t \in selected : Waiting(t)' = Waiting(t)
    BY <2>1, <2>2 DEF Waiting, Elements
  <2> QED  BY <1>2, <2>1, <2>2, <2>3, <2>4 DEF QueueOK
<1> QED  BY <1>1, <1>3, <1>4, <1>5

LEMMA QueueStart ==
  ASSUME TypeOK, EdgesOK, QueueOK, StartQueue
  PROVE  TypeOK' /\ QueueOK'
<1> DEFINE Zero == {t \in selected : indegree[t] = 0}
<1>1. /\ pc = "edges" /\ ordered = <<>> /\ ready' \in SetToSeqs(Zero) /\ pc' = "queue"
      /\ UNCHANGED schema /\ UNCHANGED <<pending, edges, indegree, ordered>>
  BY DEF StartQueue, QueueOK
<1>2. child' = child /\ parent' = parent /\ selected' = selected  BY <1>1 DEF schema
<1>3. IsFiniteSet(Zero) /\ Zero \subseteq selected
  BY WaitingFinite, FS_Subset
<1>4. /\ ready' \in Seq(Zero) /\ Elements(ready') = Zero /\ Distinct(ready')
  BY <1>1, <1>3, SeqOfSet DEF Elements, Distinct
<1>5. ready' \in Seq(selected)  BY <1>3, <1>4
<1>6. TypeOK'  BY <1>1, <1>2, <1>5 DEF TypeOK
<1>7. Line' = ready'  BY <1>1, <1>4 DEF Line
<1>8. \A t \in selected : Waiting(t)' = Waiting(t)
  BY <1>1, <1>2 DEF Waiting, Elements
<1>9. Len(ordered') = 0 /\ Elements(ordered') = {}  BY <1>1 DEF Elements
<1> QED  BY <1>1, <1>2, <1>4, <1>6, <1>7, <1>8, <1>9 DEF QueueOK

LEMMA QueuePop ==
  ASSUME TypeOK, EdgesOK, QueueOK, Pop
  PROVE  TypeOK' /\ QueueOK'
<1> DEFINE name == Head(ready)
           freed == {t \in edges[name] : indegree[t] = 1}
<1>1. /\ pc = "queue" /\ pc' = pc /\ ready # <<>> /\ ordered' = Append(ordered, name)
      /\ UNCHANGED schema /\ edges' = edges /\ pending' = pending
      /\ indegree' = [t \in selected |-> IF t \in edges[name] THEN indegree[t] - 1
                                                              ELSE indegree[t]]
  BY DEF Pop
<1>2. PICK q \in SetToSeqs(freed) : ready' = Tail(ready) \o q  BY DEF Pop
<1>3. child' = child /\ parent' = parent /\ selected' = selected  BY <1>1 DEF schema
<1>4. /\ ordered \in Seq(selected) /\ ready \in Seq(selected) /\ name \in selected
      /\ name = ready[1] /\ Len(ready) \in Nat \ {0} /\ name \in Elements(ready)
      /\ Tail(ready) \in Seq(selected)
  BY <1>1 DEF TypeOK, Elements
<1>5. /\ Distinct(Line) /\ Elements(Line) = {t \in selected : indegree[t] = 0}
      /\ \A t \in selected : indegree[t] = Cardinality(Waiting(t)) /\ indegree[t] \in Nat
      /\ edges[name] \subseteq selected
  BY <1>1, <1>4 DEF QueueOK, EdgesOK, TypeOK
<1> HIDE DEF name
<1>6. freed \subseteq selected /\ IsFiniteSet(freed)
  BY <1>5, WaitingFinite, FS_Subset
<1>7. q \in Seq(freed) /\ Elements(q) = freed /\ Distinct(q)
  BY <1>6, SeqOfSet DEF Elements, Distinct
<1>8. q \in Seq(selected)  BY <1>6, <1>7
<1> HIDE DEF freed
<1>9. name \notin Elements(ordered) /\ indegree[name] = 0
  BY <1>4, <1>5, Joined DEF Line
<1>10. /\ Len(ordered') = Len(ordered) + 1 /\ ordered'[Len(ordered) + 1] = name
       /\ \A i \in 1 .. Len(ordered) : ordered'[i] = ordered[i]
       /\ Len(ordered) \in Nat /\ ordered' \in Seq(selected)
  BY <1>1, <1>4
<1>11. Elements(ordered') = Elements(ordered) \cup {name}
  <2>1. \A i \in 1 .. Len(ordered') : i \in 1 .. Len(ordered) \/ i = Len(ordered) + 1
    BY <1>10
  <2>2. \A i \in 1 .. Len(ordered) : i \in 1 .. Len(ordered')  BY <1>10
  <2>3. Len(ordered) + 1 \in 1 .. Len(ordered')  BY <1>10
  <2> QED  BY <1>10, <2>1, <2>2, <2>3 DEF Elements
<1>12. ASSUME NEW t \in selected
       PROVE  /\ indegree'[t] = Cardinality(Waiting(t)')
              /\ t \in edges[name] => indegree[t] # 0
              /\ indegree'[t] \in Nat
  <2>1. Waiting(t)' = Waiting(t) \ {name}
    BY <1>1, <1>3, <1>11 DEF Waiting, Elements
  <2>2. t \in edges[name] <=> name \in Waiting(t)  BY <1>4, <1>9 DEF Waiting
  <2>3. /\ IsFiniteSet(Waiting(t)) /\ IsFiniteSet(Waiting(t) \ {name})
        /\ Cardinality(Waiting(t) \ {name}) = IF name \in Waiting(t)
             THEN Cardinality(Waiting(t)) - 1 ELSE Cardinality(Waiting(t))
        /\ Cardinality(Waiting(t) \ {name}) \in Nat
    BY WaitingFinite, FS_RemoveElement, FS_CardinalityType
  <2>4. indegree[t] = Cardinality(Waiting(t)) /\ indegree[t] \in Nat  BY <1>5
  <2>5. indegree'[t] = IF t \in edges[name] THEN indegree[t] - 1 ELSE indegree[t]
    BY <1>1
  <2>6. Cardinality(Waiting(t)) = 0 <=> Waiting(t) = {}  BY <2>3, FS_EmptySet
  <2> QED  BY <2>1, <2>2, <2>3, <2>4, <2>5, <2>6
<1>13. ready' \in Seq(selected)  BY <1>2, <1>4, <1>8, Joined
<1>14. TypeOK'
  <2>1. indegree' \in [selected -> Nat]  BY <1>1, <1>12
  <2> QED  BY <1>1, <1>3, <1>10, <1>13, <2>1 DEF TypeOK
<1>15. Line' = Line \o q
  <2>1. Line' = Append(ordered, Head(ready)) \o (Tail(ready) \o q)
    BY <1>1, <1>2 DEF Line, name
  <2>2. Line' = (ordered \o ready) \o q
    <3>1. ready # <<>> /\ ordered \in Seq(selected) /\ ready \in Seq(selected)
      BY <1>1, <1>4
    <3> QED  BY ONLY SMTT(60), <1>8, <2>1, <3>1, Shift
  <2> QED  BY <2>2 DEF Line
<1>16. Line \in Seq(selected)  BY <1>4, Joined DEF Line
<1>17. Elements(Line) \cap freed = {}  BY <1>5 DEF freed
<1>18. Distinct(Line') /\ Elements(Line') = Elements(Line) \cup freed
  BY <1>5, <1>7, <1>8, <1>15, <1>16, <1>17, Joined
<1>19. Elements(Line') = {t \in selected' : indegree'[t] = 0}
  <2>1. ASSUME NEW t \in selected
        PROVE  indegree'[t] = 0 <=> (indegree[t] = 0 \/ t \in freed)
    BY <1>1, <1>5, <1>12 DEF freed
  <2> QED  BY <1>3, <1>5, <1>6, <1>18, <2>1
<1>20. Waiting(name) = {}
  BY <1>4, <1>5, <1>9, WaitingFinite, FS_EmptySet
<1>21. ASSUME NEW i \in 1 .. Len(ordered'), NEW p \in selected, ordered'[i] \in edges[p]
       PROVE  \E j \in 1 .. (i - 1) : ordered'[j] = p
  <2>1. CASE i \in 1 .. Len(ordered)
    <3>1. ordered[i] \in edges[p]  BY <1>10, <1>21, <2>1
    <3>2. PICK j \in 1 .. (i - 1) : ordered[j] = p  BY <1>1, <2>1, <3>1 DEF QueueOK
    <3>3. j \in 1 .. Len(ordered)  BY <1>10, <2>1
    <3> QED  BY <1>10, <3>2, <3>3
  <2>2. CASE i = Len(ordered) + 1
    <3>1. p \in Elements(ordered)  BY <1>10, <1>20, <1>21, <2>2 DEF Waiting
    <3>2. PICK j \in 1 .. Len(ordered) : ordered[j] = p  BY <3>1 DEF Elements
    <3> QED  BY <1>10, <2>2, <3>2
  <2> QED  BY <1>10, <2>1, <2>2
<1>22. ASSUME NEW C \in SUBSET selected, Loop(C) PROVE C \cap Elements(ordered') = {}
  <2>1. C \cap Elements(ordered) = {}  BY <1>1, <1>22 DEF QueueOK
  <2>2. name \notin C
    <3> SUFFICES ASSUME name \in C PROVE FALSE  OBVIOUS
    <3>1. PICK p \in C : name \in edges[p]  BY <1>22 DEF Loop
    <3> QED  BY <1>20, <2>1, <3>1 DEF Waiting
  <2> QED  BY <1>11, <2>1, <2>2
<1>23. ASSUME NEW C \in SUBSET selected', Loop(C)' PROVE C \cap Elements(ordered)' = {}
  <2>1. Loop(C)  BY <1>1, <1>23 DEF Loop
  <2>2. C \cap Elements(ordered') = {}  BY <1>3, <1>22, <2>1
  <2> QED  BY <2>2 DEF Elements
<1>24. Distinct(Line)' /\ Elements(Line)' = {t \in selected' : indegree'[t] = 0}
  BY <1>18, <1>19 DEF Elements, Distinct
<1>25. \A t \in selected' : indegree'[t] = Cardinality(Waiting(t)')  BY <1>3, <1>12
<1>26. \A i \in 1 .. Len(ordered') : \A p \in selected' :
         ordered'[i] \in edges'[p] => \E j \in 1 .. (i - 1) : ordered'[j] = p
  BY <1>1, <1>3, <1>21
<1>27. QueueOK'
  BY <1>1, <1>23, <1>24, <1>25, <1>26 DEF QueueOK
<1> QED  BY <1>14, <1>27

-----------------------------------------------------------------------------
(* What is left over is what the queue cannot reach *)

DoneOK == pc = "done" => ordered \in Orders(ParentsOf, selected)

LEMMA StuckAre ==
  ASSUME TypeOK, EdgesOK, pending = {}, pc # "raised", NEW C \in SUBSET selected
  PROVE  Loop(C) <=> \A t \in C : (ParentsOf[t] \ {t}) \cap C # {}
<1>1. \A p, t \in C : t \in edges[p] <=> p \in ParentsOf[t] \ {t}  BY EdgesAre
<1> QED  BY <1>1 DEF Loop

LEMMA QueueFinish ==
  ASSUME TypeOK, EdgesOK, QueueOK, Finish
  PROVE  TypeOK' /\ QueueOK' /\ DoneOK'
<1> DEFINE left == selected \ ToSet(ordered)
<1>1. /\ pc = "queue" /\ pc' = "done" /\ ready = <<>> /\ ready' = ready
      /\ UNCHANGED schema /\ UNCHANGED <<pending, edges, indegree>>
  BY DEF Finish
<1>2. PICK q \in SetToSeqs(left) : ordered' = ordered \o q  BY DEF Finish
<1>3. child' = child /\ parent' = parent /\ selected' = selected  BY <1>1 DEF schema
<1>4. ordered \in Seq(selected) /\ Len(ordered) \in Nat /\ ToSet(ordered) = Elements(ordered)
  BY DEF TypeOK, ToSet, Elements
<1>5. Line = ordered  BY <1>1, <1>4 DEF Line
<1>6. Distinct(ordered) /\ Elements(ordered) = {t \in selected : indegree[t] = 0}
  BY <1>1, <1>5 DEF QueueOK
<1>7. left \subseteq selected /\ IsFiniteSet(left)  BY WaitingFinite, FS_Subset
<1>8. /\ q \in Seq(left) /\ Elements(q) = left /\ Distinct(q) /\ Len(q) \in Nat
      /\ \A k \in 1 .. Len(q) : q[k] \in left
  <2> HIDE DEF left
  <2>1. /\ q \in Seq(left) /\ Len(q) \in Nat /\ {q[i] : i \in 1 .. Len(q)} = left
        /\ \A i, j \in 1 .. Len(q) : i # j => q[i] # q[j]
    BY <1>7, SeqOfSet
  <2> QED  BY ONLY <2>1 DEF Elements, Distinct
<1>9. left \cap Elements(ordered) = {} /\ left \cup Elements(ordered) = selected
  BY <1>4, <1>6
<1> HIDE DEF left
<1>10. q \in Seq(selected)  BY <1>7, <1>8
<1>11. /\ ordered' \in Seq(selected) /\ Len(ordered') = Len(ordered) + Len(q)
       /\ Elements(ordered') = selected /\ Distinct(ordered')
  <2>1. /\ ordered \o q \in Seq(selected) /\ Len(ordered \o q) = Len(ordered) + Len(q)
        /\ Elements(ordered \o q) = Elements(ordered) \cup Elements(q)
        /\ Distinct(ordered \o q) <=> Distinct(ordered) /\ Distinct(q)
                                        /\ Elements(ordered) \cap Elements(q) = {}
    BY Zenon, <1>4, <1>10, Joined
  <2> QED  BY <1>2, <1>6, <1>8, <1>9, <2>1
<1>12. /\ \A i \in 1 .. Len(ordered) : ordered'[i] = ordered[i]
       /\ \A i \in 1 .. Len(ordered') : i > Len(ordered) => ordered'[i] \in left
  BY <1>2, <1>4, <1>8, <1>10, <1>11
<1>13. TypeOK'  BY <1>1, <1>3, <1>11 DEF TypeOK
<1>14. QueueOK'  BY <1>1 DEF QueueOK
<1>15. pending = {}  BY <1>1 DEF EdgesOK
<1>16. Stuck(ParentsOf, selected) = left
  <2>1. \A C \in SUBSET selected :
          Loop(C) <=> \A t \in C : (ParentsOf[t] \ {t}) \cap C # {}
    BY <1>1, <1>15, StuckAre
  <2>2. Stuck(ParentsOf, selected) = UNION {C \in SUBSET selected : Loop(C)}
    BY <2>1 DEF Stuck
  <2>3. Loop(left)
    <3> SUFFICES ASSUME NEW t \in left PROVE \E p \in left : t \in edges[p]  BY DEF Loop
    <3>1. t \in selected /\ indegree[t] # 0  BY <1>6, <1>7, <1>9
    <3>2. Waiting(t) # {}
      BY <1>1, <3>1, WaitingFinite, FS_EmptySet DEF QueueOK
    <3> QED  BY <1>9, <3>2 DEF Waiting
  <2>4. \A C \in SUBSET selected : Loop(C) => C \subseteq left
    BY <1>1, <1>9 DEF QueueOK
  <2> QED  BY <1>7, <2>2, <2>3, <2>4
<1>17. Len(ordered') = Cardinality(selected)
  <2> DEFINE f == [i \in 1 .. Len(ordered') |-> ordered'[i]]
  <2>1. \A i \in 1 .. Len(ordered') : ordered'[i] \in selected  BY <1>11
  <2>2. f \in [1 .. Len(ordered') -> selected]  BY <2>1
  <2>3. \A t \in selected : \E i \in 1 .. Len(ordered') : f[i] = t  BY <1>11 DEF Elements
  <2>4. \A i, j \in 1 .. Len(ordered') : f[i] = f[j] => i = j  BY <1>11 DEF Distinct
  <2> HIDE DEF f
  <2>5. f \in Bijection(1 .. Len(ordered'), selected)
    BY <2>2, <2>3, <2>4 DEF Bijection, Injection, Surjection, IsInjective
  <2>6. ExistsBijection(1 .. Len(ordered'), selected)  BY <2>5 DEF ExistsBijection
  <2> QED  BY <1>4, <1>8, <1>11, <2>6, FS_CountingElements
<1>18. ordered' \in Orders(ParentsOf, selected)
  <2>1. /\ ordered' \in [1 .. Cardinality(selected) -> selected]
        /\ DOMAIN ordered' = 1 .. Len(ordered')
        /\ {ordered'[i] : i \in DOMAIN ordered'} = selected
    BY <1>11, <1>17 DEF Elements
  <2>2. ASSUME NEW i \in 1 .. Len(ordered'), NEW j \in 1 .. Len(ordered'), i < j
        PROVE  /\ ordered'[j] \notin ParentsOf[ordered'[i]] \ left
               /\ ordered'[i] \in left => ordered'[j] \in left
    <3>1. CASE j > Len(ordered)  BY <1>12, <3>1
    <3>2. CASE j \in 1 .. Len(ordered)
      <4>1. i \in 1 .. Len(ordered)  BY <1>4, <2>2, <3>2
      <4>2. /\ ordered'[i] = ordered[i] /\ ordered'[j] = ordered[j] /\ i # j
            /\ ordered[i] \in Elements(ordered) /\ ordered[j] \in Elements(ordered)
            /\ ordered[i] \in selected /\ ordered[j] \in selected
            /\ ordered[i] # ordered[j]
        BY <1>4, <1>6, <1>12, <2>2, <3>2, <4>1 DEF Elements, Distinct
      <4>3. ordered[j] \notin ParentsOf[ordered[i]]
        <5> SUFFICES ASSUME ordered[j] \in ParentsOf[ordered[i]] PROVE FALSE  OBVIOUS
        <5>1. ordered[i] \in edges[ordered[j]]  BY <1>1, <1>15, <4>2, EdgesAre
        <5>2. PICK k \in 1 .. (i - 1) : ordered[k] = ordered[j]
          BY <1>1, <4>1, <4>2, <5>1 DEF QueueOK
        <5>3. k \in 1 .. Len(ordered) /\ k # j  BY <1>4, <2>2, <4>1
        <5> QED  BY <1>6, <3>2, <5>2, <5>3 DEF Distinct
      <4> QED  BY <1>9, <4>2, <4>3
    <3> QED  BY <1>4, <1>11, <2>2, <3>1, <3>2
  <2> QED  BY <1>16, <2>1, <2>2 DEF Orders
<1>19. DoneOK'
  <2>1. ParentsOf' = ParentsOf  BY <1>1, SchemaStays
  <2>2. Orders(ParentsOf, selected)' = Orders(ParentsOf, selected)
    BY <1>3, <2>1 DEF Orders, Stuck
  <2> QED  BY <1>18, <2>2 DEF DoneOK
<1> QED  BY <1>13, <1>14, <1>19

-----------------------------------------------------------------------------
(* The invariant *)

OrderInv == TypeOK /\ EdgesOK /\ QueueOK /\ DoneOK

LEMMA OrderInit == Init => OrderInv
BY TypeInit, EdgesInit, QueueInit DEF Init, DoneOK, OrderInv

LEMMA OrderNext == OrderInv /\ [Next]_vars => OrderInv'
<1> SUFFICES ASSUME OrderInv, [Next]_vars PROVE OrderInv'  OBVIOUS
<1> USE DEF OrderInv
<1>1. CASE ReadConstraint
  <2>1. pc = "edges" /\ pc' \in {"edges", "raised"}
    BY <1>1 DEF ReadConstraint, AddEdge, MissingTable, PassConstraint
  <2> QED  BY <1>1, <2>1, EdgesRead, QueueRead DEF DoneOK
<1>2. CASE StartQueue
  <2>1. pc' = "queue"  BY <1>2 DEF StartQueue
  <2> QED  BY <1>2, <2>1, EdgesElse, QueueStart DEF DoneOK
<1>3. CASE Pop
  <2>1. pc' = "queue"  BY <1>3 DEF Pop
  <2> QED  BY <1>3, <2>1, EdgesElse, QueuePop DEF DoneOK
<1>4. CASE Finish  BY <1>4, EdgesElse, QueueFinish
<1>5. CASE UNCHANGED vars
  <2>0. /\ child' = child /\ parent' = parent /\ selected' = selected /\ pending' = pending
        /\ edges' = edges /\ indegree' = indegree /\ ready' = ready /\ ordered' = ordered
        /\ pc' = pc
    BY <1>5 DEF vars, schema
  <2>1. TypeOK'  BY ONLY <2>0, TypeOK DEF TypeOK
  <2>2. QueueOK'
    <3>1. Elements(ordered)' = Elements(ordered) /\ Elements(Line)' = Elements(Line)
          /\ (Distinct(Line)' <=> Distinct(Line))
      BY ONLY <2>0 DEF Elements, Line, Distinct
    <3>2. \A t \in selected : Waiting(t)' = Waiting(t)  BY ONLY <2>0, <3>1 DEF Waiting
    <3>3. ASSUME NEW C, Loop(C)' PROVE Loop(C)  BY ONLY <2>0, <3>3 DEF Loop
    <3> QED  BY ONLY <2>0, <3>1, <3>2, <3>3, QueueOK DEF QueueOK
  <2>3. DoneOK'
    <3>1. Stuck(ParentsOf, selected)' = Stuck(ParentsOf, selected)
      BY ONLY <2>0 DEF ParentsOf, Stuck
    <3>2. Orders(ParentsOf, selected)' = Orders(ParentsOf, selected)
      BY ONLY <2>0, <3>1 DEF ParentsOf, Orders
    <3> QED  BY ONLY <2>0, <3>2, DoneOK DEF DoneOK
  <2> QED  BY <1>5, <2>1, <2>2, <2>3, EdgesElse
<1> QED  BY <1>1, <1>2, <1>3, <1>4, <1>5 DEF Next

(* The variables of _order_mappings_by_fk keep their types; no in-degree    *)
(* becomes negative.                                                        *)
THEOREM TypeCorrect == Spec => []TypeOK
<1>1. OrderInv => TypeOK  BY DEF OrderInv
<1> QED  BY <1>1, OrderInit, OrderNext, PTL DEF Spec

(* _order_mappings_by_fk answers one of the Orders of its selection, and    *)
(* raises on exactly the selections that are not Orderable.                 *)
THEOREM OrderCorrect == Spec => []Correct
<1>1. OrderInv => Correct
  <2> SUFFICES ASSUME OrderInv PROVE Correct  OBVIOUS
  <2>1. pc = "done" => Orderable(ParentsOf, selected)
    BY ReadAllOrderable DEF OrderInv, EdgesOK
  <2> QED  BY <2>1 DEF OrderInv, DoneOK, EdgesOK, Correct
<1> QED  BY <1>1, OrderInit, OrderNext, PTL DEF Spec

=============================================================================

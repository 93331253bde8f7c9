------------------------ MODULE MappedTableSync_proofs ------------------------
(***************************************************************************)
(* Proofs about MappedTableSync, for every number of tables, rows and      *)
(* runs, every batch size and every content of the source: first the one   *)
(* running sync, then what the outcome of a run means (its commits are     *)
(* ledger entries, its "success" is a complete replica, the children it    *)
(* drops have a reason on record, and runs one at a time move nothing      *)
(* back).                                                                  *)
(***************************************************************************)
EXTENDS MappedTableSync, FiniteSetTheorems, SequenceTheorems, WellFoundedInduction, TLAPS

-----------------------------------------------------------------------------
(* Type correctness *)

(* The tables selected by a command line are mapped tables. *)
LEMMA SelectedType == ASSUME NEW p \in Params PROVE Selected(p) \in SUBSET Table
BY RunsAssumption DEF Selected

(* A foreign-key order of a set of tables is a sequence of tables. *)
LEMMA OrdersType ==
  ASSUME NEW S \in SUBSET Table PROVE Orders(Parents, S) \subseteq Seq(Table)
<1>1. Cardinality(S) \in Nat
  BY StreamsAssumption, FS_Subset, FS_CardinalityType
<1>2. SUFFICES ASSUME NEW o \in [1 .. Cardinality(S) -> S] PROVE o \in Seq(Table)
  BY DEF Orders
<1>3. QED BY <1>1

(* A content the source gives a row is one of Row. *)
LEMMA ContentType ==
  ASSUME NEW x \in RowId, NEW c \in Content[x] PROVE c \in Row
BY DEF Row

(* The errors of the keys that do not parse are well-formed. *)
LEMMA UnparsedType == ASSUME NEW r \in Run PROVE Unparsed(r) \subseteq RowId
BY DEF Unparsed, Window, Unread, Present

(* A row is skipped under one of the two skippable error codes. *)
LEMMA SkipCodeType ==
  ASSUME NEW r \in Run, NEW x \in RowId, SkipCode(r, x) # ""
  PROVE  SkipCode(r, x) \in Codes
<1>1. CASE KindOf(r, x) = "badBool"
  BY <1>1 DEF SkipCode, Codes
<1>2. CASE KindOf(r, x) = "ok" /\ ~ snapshot[r][x].refs \subseteq View(r) \cup {x}
  BY <1>2 DEF SkipCode, Codes
<1>3. CASE /\ KindOf(r, x) # "badBool"
           /\ ~ (KindOf(r, x) = "ok" /\ ~ snapshot[r][x].refs \subseteq View(r) \cup {x})
  BY <1>3 DEF SkipCode
<1>4. QED BY <1>1, <1>2, <1>3

(* What the target shows a transaction, and what an upsert puts into it, are *)
(* contents of rows.                                                         *)
LEMMA SeenType ==
  ASSUME TypeOK, NEW r \in Run PROVE Seen(r) \in [RowId -> Row \cup {NoRow}]
BY DEF TypeOK, Seen

LEMMA UpsertedType ==
  ASSUME TypeOK, NEW r \in Run, NEW S \in SUBSET RowId
  PROVE  Upserted(r, S) \in [RowId -> Row \cup {NoRow}]
<1>1. SUFFICES ASSUME NEW y \in RowId
               PROVE  Upserted(r, S)[y] \in Row \cup {NoRow}
  BY DEF Upserted
<1> DEFINE w == CHOOSE x \in S : y \in Slots(r, x)
<1>2. CASE \E x \in S : y \in Slots(r, x)
  <2>1. w \in S  BY <1>2
  <2>2. Upserted(r, S)[y] = snapshot[r][w]  BY <1>2 DEF Upserted
  <2> HIDE DEF w
  <2> QED  BY <2>1, <2>2 DEF TypeOK
<1>3. CASE ~ \E x \in S : y \in Slots(r, x)
  BY <1>3 DEF Upserted, TypeOK
<1> QED  BY <1>2, <1>3

(* Every variable keeps its type: what SQLAlchemy and PostgreSQL hold, and   *)
(* the locals of _sync_table.                                                *)
THEOREM TypeCorrect == Spec => []TypeOK
<1>1. Init => TypeOK
  BY DEF Init, TypeOK, Pcs, Nothing
<1>2. TypeOK /\ [Next]_vars => TypeOK'
  <2> SUFFICES ASSUME TypeOK, [Next]_vars PROVE TypeOK'
    OBVIOUS
  <2> USE DEF TypeOK, Pcs
  <2>1. ASSUME NEW x \in RowId, NEW c \in Content[x], SourceWrite(x, c) PROVE TypeOK'
    BY <2>1, ContentType DEF SourceWrite, local
  <2>2. ASSUME NEW r \in Run, StartRun(r) PROVE TypeOK'
    BY <2>2 DEF StartRun, local
  <2>3. ASSUME NEW r \in Run, OpenSource(r) PROVE TypeOK'
    <3>1. PICK o \in Orders(Parents, Selected(params[r])) : todo' = [todo EXCEPT ![r] = o]
      BY <2>3 DEF OpenSource
    <3>2. o \in Seq(Table)
      BY <3>1, OrdersType, SelectedType
    <3>3. QED BY <2>3, <3>1, <3>2 DEF OpenSource, database
  <2>4. ASSUME NEW r \in Run, SkipTable(r) PROVE TypeOK'
    BY <2>4 DEF SkipTable, database
  <2>5. ASSUME NEW r \in Run, BeginTable(r) PROVE TypeOK'
    BY <2>5 DEF BeginTable, StoredCursor, database
  <2>6. ASSUME NEW r \in Run, EndTable(r) PROVE TypeOK'
    BY <2>6 DEF EndTable, database, local
  <2>7. ASSUME NEW r \in Run, FetchBatch(r) PROVE TypeOK'
    BY <2>7, UnparsedType DEF FetchBatch, database, Failure, Error, Codes, Window, Unread, Present
  <2>8. ASSUME NEW r \in Run, FetchPoison(r) PROVE TypeOK'
    BY <2>8, UnparsedType DEF FetchPoison, database, Failure, Error, Codes
  <2>9. ASSUME NEW r \in Run, UpsertBatch(r) PROVE TypeOK'
    <3>1. Upserted(r, batch[r]) \in [RowId -> Row \cup {NoRow}]
      BY UpsertedType
    <3>2. written' \in [Run -> [RowId -> Row \cup {NoRow}]]
      BY <2>9, <3>1 DEF UpsertBatch
    <3>3. cursor' \in [Run -> Nat]
      BY <2>9, RowsAssumption DEF UpsertBatch
    <3> QED BY <2>9, <3>2, <3>3 DEF UpsertBatch, database
  <2>10. ASSUME NEW r \in Run, FallBack(r) PROVE TypeOK'
    BY <2>10 DEF FallBack, database, local
  <2>11. ASSUME NEW r \in Run, UpsertRow(r) PROVE TypeOK'
    <3>1. PICK x \in batch[r] :
            /\ written' = [written EXCEPT ![r] = Upserted(r, {x})]
            /\ cursor' = [cursor EXCEPT ![r] = Later(@, KeyOf[x])]
            /\ batch' = [batch EXCEPT ![r] = @ \ {x}]
      BY <2>11 DEF UpsertRow
    <3>2. x \in RowId /\ Later(cursor[r], KeyOf[x]) \in Nat
      BY RowsAssumption DEF Later
    <3>3. Upserted(r, {x}) \in [RowId -> Row \cup {NoRow}]
      BY <3>2, UpsertedType
    <3>4. written' \in [Run -> [RowId -> Row \cup {NoRow}]]
      BY <3>1, <3>3
    <3>5. cursor' \in [Run -> Nat] /\ batch' \in [Run -> SUBSET RowId]
      BY <3>1, <3>2
    <3>6. QED BY <2>11, <3>4, <3>5 DEF UpsertRow, database
  <2>12. ASSUME NEW r \in Run, SkipRow(r) PROVE TypeOK'
    <3>1. PICK x \in batch[r] :
            /\ SkipCode(r, x) # ""
            /\ failed' = [failed EXCEPT ![r] = @ \cup {Failure(r, x, SkipCode(r, x))}]
            /\ cursor' = [cursor EXCEPT ![r] = Later(@, KeyOf[x])]
            /\ batch' = [batch EXCEPT ![r] = @ \ {x}]
      BY <2>12 DEF SkipRow
    <3>2. x \in RowId /\ Later(cursor[r], KeyOf[x]) \in Nat
      BY RowsAssumption DEF Later
    <3>3. Failure(r, x, SkipCode(r, x)) \in Error
      BY <3>1, <3>2, SkipCodeType DEF Failure, Error
    <3>4. failed' \in [Run -> SUBSET Error] /\ cursor' \in [Run -> Nat]
      BY <3>1, <3>2, <3>3
    <3>5. batch' \in [Run -> SUBSET RowId]
      BY <3>1
    <3>6. UNCHANGED <<source, late, target, position, errors, status, pc, params,
                      snapshot, todo, table, batches, written, halted>>
      BY <2>12 DEF SkipRow, database
    <3>7. QED BY <3>4, <3>5, <3>6
  <2>13. ASSUME NEW r \in Run, RejectRow(r) PROVE TypeOK'
    BY <2>13 DEF RejectRow, database, Failure, Error, Codes
  <2>14. ASSUME NEW r \in Run, CommitBatch(r) PROVE TypeOK'
    <3>1. target' \in [RowId -> Row \cup {NoRow}]
      BY <2>14, SeenType DEF CommitBatch
    <3>2. position' \in [Table -> Nat] /\ errors' \subseteq Error
      BY <2>14 DEF CommitBatch
    <3>3. /\ written' \in [Run -> [RowId -> Row \cup {NoRow}]]
          /\ failed' \in [Run -> SUBSET Error]
          /\ batches' \in [Run -> Nat] /\ pc' \in [Run -> Pcs]
      BY <2>14 DEF CommitBatch, Nothing
    <3>4. QED BY <2>14, <3>1, <3>2, <3>3 DEF CommitBatch
  <2>15. ASSUME NEW r \in Run, Finish(r) PROVE TypeOK'
    BY <2>15 DEF Finish, local
  <2>16. ASSUME NEW r \in Run, Abort(r) PROVE TypeOK'
    BY <2>16 DEF Abort
  <2>17. ASSUME NEW r \in Run, SourceLost(r) \/ OrderFails(r) PROVE TypeOK'
    BY <2>17 DEF SourceLost, OrderFails, database, local
  <2>18. ASSUME NEW r \in Run, Die(r) PROVE TypeOK'
    BY <2>18 DEF Die, database, Nothing
  <2>19. CASE UNCHANGED vars
    BY <2>19 DEF vars, database, local
  <2>20. QED
    BY <2>1, <2>2, <2>3, <2>4, <2>5, <2>6, <2>7, <2>8, <2>9, <2>10, <2>11, <2>12,
       <2>13, <2>14, <2>15, <2>16, <2>17, <2>18, <2>19 DEF Next, Step
<1>3. QED BY <1>1, <1>2, PTL DEF Spec

-----------------------------------------------------------------------------
(* The cursor never outruns the data *)

(* The window is closed downwards: LIMIT after ORDER BY leaves out only rows *)
(* with larger keys.                                                         *)
LEMMA WindowClosed ==
  ASSUME TypeOK, NEW r \in Run, NEW b \in Window(r), NEW x \in Unread(r),
         KeyOf[x] <= KeyOf[b]
  PROVE  x \in Window(r)
<1> DEFINE Below(z) == {y \in Unread(r) : KeyOf[y] < KeyOf[z]}
<1>1. b \in Unread(r) /\ Cardinality(Below(b)) < BatchSize
  BY DEF Window
<1>2. Unread(r) \subseteq RowId
  BY DEF Unread, Present
<1>3. Below(x) \in SUBSET Below(b)
  BY <1>1, <1>2, RowsAssumption
<1>4. IsFiniteSet(Below(b)) /\ Below(b) \in SUBSET RowId
  BY <1>2, RowsAssumption, FS_Subset
<1>5. IsFiniteSet(Below(x))
  BY <1>3, <1>4, FS_Subset
<1>6. Cardinality(Below(x)) <= Cardinality(Below(b))
  BY <1>3, <1>4, FS_Subset
<1>7. Cardinality(Below(x)) \in Nat /\ Cardinality(Below(b)) \in Nat
  BY <1>4, <1>5, FS_CardinalityType
<1>8. Cardinality(Below(x)) < BatchSize
  BY <1>1, <1>6, <1>7, RunsAssumption
<1>9. QED BY <1>8 DEF Window

\* Replicated, of a given target and given snapshots; what a target has that
\* keeps all rows of another, and their phrases.
Replica(db, sn, x) ==
  \/ db[x] # NoRow
  \/ /\ TableOf[x] = Translate
     /\ \E r \in Run, y \in RowId : /\ sn[r][x] # NoRow /\ db[y] # NoRow
                                 /\ TableOf[y] = Translate /\ db[y].phrase = sn[r][x].phrase
Keeps(db, dc) ==
  \A y \in RowId : db[y] # NoRow =>
    /\ dc[y] # NoRow
    /\ TableOf[y] = Translate => dc[y].phrase = db[y].phrase
SameRead(sn, so) ==
  \A s \in Run, x \in RowId : sn[s][x] # NoRow => so[s][x] = sn[s][x]

LEMMA ReplicaStays ==
  ASSUME NEW db, NEW dc, NEW sn, NEW so, Keeps(db, dc), SameRead(sn, so), NEW x \in RowId,
         Replica(db, sn, x)
  PROVE  Replica(dc, so, x)
<1>1. CASE db[x] # NoRow
  BY <1>1 DEF Keeps, Replica
<1>2. CASE db[x] = NoRow
  <2>1. PICK r \in Run, y \in RowId : /\ sn[r][x] # NoRow /\ db[y] # NoRow
                                  /\ TableOf[y] = Translate /\ db[y].phrase = sn[r][x].phrase
    BY <1>2 DEF Replica
  <2>2. TableOf[x] = Translate  BY <1>2 DEF Replica
  <2>3. so[r][x] # NoRow /\ so[r][x] = sn[r][x]  BY <2>1 DEF SameRead
  <2>4. dc[y] # NoRow /\ dc[y].phrase = sn[r][x].phrase  BY <2>1 DEF Keeps
  <2> QED  BY <2>1, <2>2, <2>3, <2>4 DEF Replica
<1> QED  BY <1>1, <1>2

LEMMA ReplicatedIs ==
  /\ \A x \in RowId : Replicated(target, x) <=> Replica(target, snapshot, x)
  /\ \A r \in Run, x \in RowId : Replicated(Seen(r), x) <=> Replica(Seen(r), snapshot, x)
<1>1. \A x \in RowId : Replicated(target, x) <=> Replica(target, snapshot, x)
  BY DEF Replicated, Replica, Merged, Holders, Present
<1>2. ASSUME NEW r \in Run, NEW x \in RowId
      PROVE  Replicated(Seen(r), x) <=> Replica(Seen(r), snapshot, x)
  BY DEF Replicated, Replica, Merged, Holders, Present
<1> QED  BY <1>1, <1>2

\* What a transaction has over the target keeps the target's rows.
LEMMA SeenKeeps ==
  ASSUME NEW r \in Run, WritesKeep(r) PROVE Keeps(target, Seen(r))
BY DEF WritesKeep, Keeps, Seen, Present

\* What is accounted for in the database is so for every transaction.
LEMMA AccountedSeen ==
  ASSUME NEW r \in Run, WritesKeep(r), NEW x \in RowId, Accounted(x)
  PROVE  AccountedIn(r, x)
<1>1. CASE Replicated(target, x)
  <2>1. Replica(target, snapshot, x)  BY <1>1, ReplicatedIs
  <2>2. Keeps(target, Seen(r))  BY SeenKeeps
  <2>3. SameRead(snapshot, snapshot)  BY DEF SameRead
  <2>4. Replica(Seen(r), snapshot, x)  BY <2>1, <2>2, <2>3, ReplicaStays
  <2> QED  BY <2>4, ReplicatedIs DEF AccountedIn
<1>2. CASE \E e \in errors : e.row = x
  BY <1>2 DEF AccountedIn
<1> QED  BY <1>1, <1>2 DEF Accounted

\* The target only gains: so does what it and each transaction account for.
LEMMA AccountedStays ==
  ASSUME Keeps(target, target'), SameRead(snapshot, snapshot'), errors \subseteq errors'
  PROVE  \A x \in RowId : Accounted(x) => Accounted(x)'
<1> SUFFICES ASSUME NEW x \in RowId, Accounted(x) PROVE Accounted(x)'
  OBVIOUS
<1>1. CASE Replicated(target, x)
  <2>1. Replica(target, snapshot, x)  BY <1>1, ReplicatedIs
  <2>2. Replica(target', snapshot', x)  BY <2>1, ReplicaStays
  <2>3. Replicated(target, x)'  BY <2>2 DEF Replicated, Replica, Merged, Holders, Present
  <2> QED  BY <2>3 DEF Accounted
<1>2. CASE \E e \in errors : e.row = x
  BY <1>2 DEF Accounted
<1> QED  BY <1>1, <1>2 DEF Accounted

LEMMA AccountedInStays ==
  ASSUME NEW r \in Run, Keeps(Seen(r), Seen(r)'), SameRead(snapshot, snapshot'),
         errors \subseteq errors', failed[r] \subseteq failed'[r]
  PROVE  \A x \in RowId : AccountedIn(r, x) => AccountedIn(r, x)'
<1> SUFFICES ASSUME NEW x \in RowId, AccountedIn(r, x) PROVE AccountedIn(r, x)'
  OBVIOUS
<1>1. CASE Replicated(Seen(r), x)
  <2>1. Replica(Seen(r), snapshot, x)  BY <1>1, ReplicatedIs
  <2>2. Replica(Seen(r)', snapshot', x)  BY <2>1, ReplicaStays
  <2>3. Replicated(Seen(r), x)'  BY <2>2 DEF Replicated, Replica, Merged, Holders, Present
  <2> QED  BY <2>3 DEF AccountedIn
<1>2. CASE \E e \in errors \cup failed[r] : e.row = x
  BY <1>2 DEF AccountedIn
<1> QED  BY <1>1, <1>2 DEF AccountedIn

(* Runs do not disturb each other: a step that leaves the locals of s and   *)
(* the rows of the source alone, takes no row, phrase or error out of the   *)
(* target, and commits no row that s has written, keeps the invariant of s. *)
LEMMA OtherRun ==
  ASSUME NEW s \in Run, RunInv(s),
         Present(source)' = Present(source), late' = late,
         pc'[s] = pc[s], snapshot'[s] = snapshot[s], table'[s] = table[s],
         cursor'[s] = cursor[s], batch'[s] = batch[s],
         written'[s] = written[s], failed'[s] = failed[s],
         Keeps(target, target'), SameRead(snapshot, snapshot'), errors \subseteq errors',
         \A y \in Present(written[s]) : target'[y] = target[y]
  PROVE  RunInv(s)'
<1>1. Present(snapshot[s])' = Present(snapshot[s])
  BY DEF Present
<1>2. \A x \in RowId : AccountedIn(s, x) => AccountedIn(s, x)'
  <2>1. Keeps(Seen(s), Seen(s)')
    BY DEF Keeps, Seen, Present
  <2> QED  BY <2>1, AccountedInStays
<1>3. SnapshotPrefix(s)'
  BY <1>1 DEF RunInv, SnapshotPrefix
<1>4. \A t \in Table, k \in {cursor[s]} : IsMark(t, k) => IsMark(t, k)'
  BY DEF IsMark, Present
<1>5. ReadCovers(s)'
  BY <1>1, <1>2, <1>4 DEF RunInv, ReadCovers, Present
<1>6. BatchCovers(s)'
  BY <1>1, <1>2 DEF RunInv, BatchCovers, Present
<1>7. WritesKeep(s)'
  BY DEF RunInv, WritesKeep, Present
<1>8. QED BY <1>3, <1>5, <1>6, <1>7 DEF RunInv

(* A step that moves no cursor and commits nothing but errors keeps         *)
(* everything the invariant says of the database, so only the run that      *)
(* moves has to be looked at.                                               *)
LEMMA LocalStep ==
  ASSUME TypeOK, CoverageInv, NEW r \in Run, ReadCovers(r)', BatchCovers(r)', WritesKeep(r)',
         UNCHANGED <<source, late, target, position>>, errors \subseteq errors',
         \/ snapshot'[r] = snapshot[r]
         \/ snapshot'[r] = source /\ pc[r] = "connect",
         pc'[r] \in {"new", "connect"} =>
           pc[r] \in {"new", "connect"} /\ snapshot'[r] = snapshot[r],
         \A s \in Run \ {r} : Present(written[s]) \cap Present(written'[r]) = {},
         \A s \in Run \ {r} :
           /\ pc'[s] = pc[s] /\ snapshot'[s] = snapshot[s]
           /\ table'[s] = table[s] /\ cursor'[s] = cursor[s]
           /\ batch'[s] = batch[s] /\ written'[s] = written[s]
           /\ failed'[s] = failed[s]
  PROVE  CoverageInv'
<1>0. Keeps(target, target') /\ SameRead(snapshot, snapshot')
  <2>1. pc[r] = "connect" => \A x \in RowId : snapshot[r][x] = NoRow
    BY DEF CoverageInv, RunInv, SnapshotPrefix, Present
  <2> QED  BY <2>1 DEF Keeps, SameRead
<1>1. \A x \in RowId : Accounted(x) => Accounted(x)'
  BY <1>0, AccountedStays
<1>2. Present(source)' = Present(source) /\ Present(target)' = Present(target)
  BY DEF Present
<1>3. Coverage'
  BY <1>1, <1>2 DEF CoverageInv, Coverage, Present
<1>4. \A t \in Table : IsMark(t, position[t])'
  BY <1>2 DEF CoverageInv, IsMark, Present
<1>5. ASSUME NEW s \in Run PROVE RunInv(s)'
  <2>1. CASE s = r
    <3>1. SnapshotPrefix(r)'
      BY DEF CoverageInv, RunInv, SnapshotPrefix, Present
    <3>2. QED BY <2>1, <3>1 DEF RunInv
  <2>2. CASE s # r
    BY <1>0, <1>2, <2>2, OtherRun DEF CoverageInv
  <2>3. QED BY <2>1, <2>2
<1>6. Apart'
  BY DEF CoverageInv, Apart, Present
<1>7. QED BY <1>2, <1>3, <1>4, <1>5, <1>6 DEF CoverageInv

(* A new source row that is not late has the largest key of its table, so   *)
(* no stored or local cursor has passed it; a late row is not promised      *)
(* anything; a changed row leaves the rows that are there the same.         *)
LEMMA SourceWriteCovers ==
  ASSUME TypeOK, CoverageInv, NEW x \in RowId, NEW c \in Content[x], SourceWrite(x, c)
  PROVE  CoverageInv'
<1> USE DEF SourceWrite, local
<1>1. c # NoRow
  BY ContentType, ContentAssumption
<1>2. Present(source)' = Present(source) \cup {x}
  BY <1>1 DEF Present, TypeOK
<1>3. \A y \in RowId : Accounted(y) => Accounted(y)'
  BY AccountedStays DEF Keeps, SameRead
<1>4. \A t \in Table, k \in Nat : IsMark(t, k) => IsMark(t, k)'
  BY <1>2 DEF IsMark, Present
<1>5. \A t \in Table : IsMark(t, position[t])'
  BY <1>4 DEF CoverageInv, TypeOK
<1>6. late \subseteq late'
  OBVIOUS
<1>7. \A s \in Run, y \in RowId : AccountedIn(s, y) => AccountedIn(s, y)'
  <2>1. ASSUME NEW s \in Run PROVE Keeps(Seen(s), Seen(s)')
    BY DEF Keeps, Seen
  <2> QED  BY <2>1, AccountedInStays DEF SameRead
<1>8. ASSUME NEW s \in Run PROVE BatchCovers(s)'
  BY <1>7 DEF CoverageInv, RunInv, BatchCovers, Present, TypeOK
<1>a. ASSUME NEW s \in Run PROVE WritesKeep(s)'
  BY <1>2 DEF CoverageInv, RunInv, WritesKeep, Present
<1>b. Apart' /\ (Present(target) \subseteq Present(source))'
  BY <1>2 DEF CoverageInv, Apart, Present
<1>9. CASE source[x] # NoRow \/ x \in late'
  <2>1. Present(source)' \ late' \subseteq Present(source) \ late
    BY <1>2, <1>6, <1>9 DEF Present
  <2>2. Coverage'
    BY <1>3, <2>1 DEF CoverageInv, Coverage, Present
  <2>3. ASSUME NEW s \in Run PROVE SnapshotPrefix(s)'
    BY <1>2, <2>1 DEF CoverageInv, RunInv, SnapshotPrefix, Present
  <2>4. ASSUME NEW s \in Run PROVE ReadCovers(s)'
    BY <1>4, <1>7, <2>1 DEF CoverageInv, RunInv, ReadCovers, Present, TypeOK
  <2>5. QED BY <1>5, <1>8, <1>a, <1>b, <2>2, <2>3, <2>4 DEF CoverageInv, RunInv
<1>10. CASE source[x] = NoRow /\ x \notin late'
  <2>1. late' = late
    BY <1>10
  <2>2. \A y \in Present(source) : TableOf[y] = TableOf[x] => KeyOf[y] < KeyOf[x]
    <3>1. ASSUME NEW y \in Present(source), TableOf[y] = TableOf[x]
          PROVE  KeyOf[y] < KeyOf[x]
      <4>1. y # x /\ y \in RowId
        BY <1>10 DEF Present
      <4>2. ~ KeyOf[y] > KeyOf[x]
        BY <1>10, <3>1
      <4>3. QED BY <3>1, <4>1, <4>2, RowsAssumption
    <3>2. QED BY <3>1
  <2>3. \A k \in Nat : IsMark(TableOf[x], k) => k < KeyOf[x]
    BY <2>2, RowsAssumption DEF IsMark, Present
  <2>4. Coverage'
    <3>1. ASSUME NEW y \in Present(source)' \ late', KeyOf[y] <= position'[TableOf[y]]
          PROVE  Accounted(y)'
      <4>1. CASE y = x
        <5>1. position[TableOf[x]] \in Nat /\ IsMark(TableOf[x], position[TableOf[x]])
          BY RowsAssumption DEF CoverageInv, TypeOK
        <5>2. KeyOf[x] \in Nat
          BY RowsAssumption
        <5>3. QED BY <2>3, <3>1, <4>1, <5>1, <5>2
      <4>2. CASE y # x
        BY <1>2, <1>3, <2>1, <3>1, <4>2 DEF CoverageInv, Coverage, Present
      <4>3. QED BY <4>1, <4>2
    <3>2. QED BY <3>1 DEF Coverage
  <2>5. ASSUME NEW s \in Run PROVE SnapshotPrefix(s)'
    <3>1. Present(snapshot[s])' = Present(snapshot[s])
      BY DEF Present
    <3>2. Present(snapshot[s]) \subseteq Present(source)
      BY DEF CoverageInv, RunInv, SnapshotPrefix
    <3>3. QED BY <1>2, <2>1, <2>2, <3>1, <3>2 DEF CoverageInv, RunInv, SnapshotPrefix
  <2>6. ASSUME NEW s \in Run PROVE ReadCovers(s)'
    <3> SUFFICES ASSUME pc[s] \in {"fetch", "upsert", "rows", "commit"}
                 PROVE  ReadCovers(s)'
      BY DEF ReadCovers
    <3>1. ReadCovers(s) /\ cursor[s] \in Nat /\ table[s] \in Table
      BY DEF CoverageInv, RunInv, ReadCovers, TypeOK
    <3>2. IsMark(table[s], cursor[s])'
      BY <1>4, <3>1 DEF ReadCovers
    <3>4. ASSUME NEW y \in Present(source)' \ late', TableOf[y] = table[s],
                 KeyOf[y] <= cursor[s]
          PROVE  AccountedIn(s, y)'
      <4>1. CASE y = x
        <5>1. cursor[s] < KeyOf[x]
          BY <2>3, <3>1, <3>4, <4>1 DEF ReadCovers
        <5>2. KeyOf[x] \in Nat
          BY RowsAssumption
        <5>3. QED BY <3>1, <3>4, <4>1, <5>1, <5>2
      <4>2. CASE y # x
        BY <1>2, <1>7, <2>1, <3>1, <3>4, <4>2 DEF ReadCovers, Present
      <4>3. QED BY <4>1, <4>2
    <3>5. QED BY <3>1, <3>2, <3>4 DEF ReadCovers
  <2>7. QED BY <1>5, <1>8, <1>a, <1>b, <2>4, <2>5, <2>6 DEF CoverageInv, RunInv
<1>11. QED BY <1>9, <1>10

(* A batch read above a cursor that leaves nothing behind covers everything *)
(* between the cursor and its last row: its own rows and the keys that did  *)
(* not parse.                                                               *)
LEMMA FetchBatchCovers ==
  ASSUME TypeOK, CoverageInv, NEW r \in Run, FetchBatch(r)
  PROVE  CoverageInv'
<1> USE DEF FetchBatch, database
<1>1. /\ pc[r] = "fetch" /\ pc'[r] \in {"upsert", "commit"}
      /\ Present(written'[r]) = {} /\ failed[r] = {}
      /\ failed'[r] = {Failure(r, x, "invalid_source_pk") : x \in Unparsed(r)}
      /\ batch'[r] = Window(r) \ Unparsed(r)
  BY DEF TypeOK, CoverageInv, RunInv, BatchCovers
<1>2. \A x \in RowId : AccountedIn(r, x) => AccountedIn(r, x)'
  <2>1. Keeps(Seen(r), Seen(r)')
    BY DEF Keeps, Seen
  <2> QED  BY <1>1, <2>1, AccountedInStays DEF SameRead
<1>3. ASSUME NEW x \in Unparsed(r) PROVE AccountedIn(r, x)'
  <2>1. Failure(r, x, "invalid_source_pk") \in failed'[r]
    BY <1>1
  <2>2. Failure(r, x, "invalid_source_pk").row = x
    BY DEF Failure
  <2>3. QED BY <2>1, <2>2 DEF AccountedIn
<1>4. ReadCovers(r)'
  BY <1>1, <1>2 DEF CoverageInv, RunInv, ReadCovers, IsMark, Present
<1>a. WritesKeep(r)' /\ Present(written'[r]) = {}
  BY <1>1 DEF WritesKeep, Present
<1>5. ASSUME NEW b \in Window(r),
             NEW x \in Present(snapshot[r]),
             TableOf[x] = table[r], cursor[r] < KeyOf[x], KeyOf[x] <= KeyOf[b]
      PROVE  x \in Window(r)
  <2>1. x \in Unread(r)
    BY <1>5, RowsAssumption DEF Unread, Present, TypeOK
  <2>2. QED BY <1>5, <2>1, WindowClosed
<1>6. BatchCovers(r)'
  <2>1. \A b \in Window(r) : b \in Present(snapshot[r]) /\ TableOf[b] = table[r]
    BY DEF Window, Unread
  <2>2. Present(snapshot[r])' = Present(snapshot[r])
    BY DEF Present
  <2>3. ASSUME NEW b \in batch'[r], NEW x \in Present(snapshot[r]),
               TableOf[x] = table[r], cursor[r] < KeyOf[x], KeyOf[x] <= KeyOf[b]
        PROVE  x \in batch'[r] \/ AccountedIn(r, x)'
    BY <1>1, <1>3, <1>5, <2>3
  <2>4. QED BY <1>1, <2>1, <2>2, <2>3 DEF BatchCovers, Present
<1>7. QED BY <1>1, <1>4, <1>6, <1>a, LocalStep DEF TypeOK

(* What moves the cursor of run r to the key of row b, a row of its batch,  *)
(* and accounts for every row of the batch it passes, keeps ReadCovers.     *)
LEMMA PassRow ==
  ASSUME TypeOK, CoverageInv, NEW r \in Run, pc[r] \in {"upsert", "rows"},
         NEW b \in batch[r], cursor'[r] \in {cursor[r], KeyOf[b]},
         UNCHANGED <<source, late, target, errors, table, snapshot>>,
         Keeps(Seen(r), Seen(r)'), failed[r] \subseteq failed'[r],
         \A x \in batch[r] : KeyOf[x] <= KeyOf[b] => AccountedIn(r, x)'
  PROVE  ReadCovers(r)'
<1>1. ReadCovers(r) /\ BatchCovers(r) /\ SnapshotPrefix(r)
  BY DEF CoverageInv, RunInv
<1>2. b \in Present(snapshot[r]) /\ TableOf[b] = table[r]
  BY <1>1 DEF BatchCovers
<1>3. \A x \in RowId : AccountedIn(r, x) => AccountedIn(r, x)'
  BY AccountedInStays DEF SameRead
<1>4. table[r] \in Table /\ cursor[r] \in Nat /\ b \in RowId /\ batch[r] \subseteq RowId
  BY <1>1, <1>2 DEF ReadCovers, TypeOK, Present
<1>5. IsMark(table[r], cursor'[r])
  BY <1>1, <1>2 DEF ReadCovers, IsMark, SnapshotPrefix, Present
<1>6. ASSUME NEW x \in Present(source) \ late, TableOf[x] = table[r],
             KeyOf[x] <= cursor'[r]
      PROVE  AccountedIn(r, x)'
  <2>1. x \in RowId /\ KeyOf[x] \in Nat /\ KeyOf[b] \in Nat
    BY <1>4, RowsAssumption DEF Present
  <2>2. CASE KeyOf[x] <= cursor[r]
    BY <1>1, <1>3, <1>6, <2>1, <2>2 DEF ReadCovers
  <2>3. CASE cursor[r] < KeyOf[x] /\ KeyOf[x] <= KeyOf[b]
    <3>1. x \in Present(snapshot[r])
      BY <1>1, <1>2, <1>6, <2>1, <2>3 DEF SnapshotPrefix
    <3>2. x \in batch[r] \/ AccountedIn(r, x)
      BY <1>1, <1>6, <2>3, <3>1 DEF BatchCovers
    <3>3. QED BY <1>3, <2>1, <2>3, <3>2
  <2>4. QED BY <1>4, <1>6, <2>1, <2>2, <2>3
<1>7. QED
  BY <1>1, <1>4, <1>5, <1>6 DEF ReadCovers, Present, IsMark

\* Slots, branch by branch.
LEMMA SlotsAre ==
  ASSUME NEW r \in Run, NEW x \in RowId
  PROVE  /\ TableOf[x] # Translate => Slots(r, x) = {x}
         /\ TableOf[x] = Translate =>
              \/ Slots(r, x) = Holders(Seen(r), snapshot[r][x])
              \/ Slots(r, x) = {x} \ Present(Seen(r))
<1>1. CASE TableOf[x] # Translate
  BY <1>1 DEF Slots
<1>2. CASE TableOf[x] = Translate /\ Holders(Seen(r), snapshot[r][x]) # {}
  BY <1>2 DEF Slots
<1>3. CASE TableOf[x] = Translate /\ Holders(Seen(r), snapshot[r][x]) = {}
  BY <1>3 DEF Slots
<1> QED  BY <1>1, <1>2, <1>3

(* The database takes rows of the batch, all at once or one: what the       *)
(* transaction has then still keeps the target's rows and phrases, it has   *)
(* each of these rows or its phrase, and no other transaction has them.     *)
LEMMA UpsertWrites ==
  ASSUME TypeOK, CoverageInv, NEW r \in Run, pc[r] \in {"upsert", "rows"},
         NEW S \in SUBSET batch[r], Accepts(r, S),
         written'[r] = Upserted(r, S),
         UNCHANGED <<source, target, table, snapshot>>
  PROVE  /\ Keeps(Seen(r), Seen(r)') /\ WritesKeep(r)'
         /\ \A x \in S : Replicated(Seen(r), x)'
         /\ \A s \in Run \ {r} : Present(written[s]) \cap Present(written'[r]) = {}
<1> DEFINE W == Upserted(r, S)
           D == [y \in RowId |-> IF W[y] # NoRow THEN W[y] ELSE target[y]]
<1>0. Seen(r)' = D  BY DEF Seen
<1>1. /\ S \subseteq RowId /\ WritesKeep(r)
      /\ \A x \in S : x \in Present(snapshot[r]) /\ TableOf[x] = table[r]
      /\ Present(snapshot[r]) \subseteq Present(source)
      /\ Present(target) \subseteq Present(source)
  BY DEF CoverageInv, RunInv, BatchCovers, SnapshotPrefix, TypeOK
<1>2. ASSUME NEW x \in S, NEW y \in Slots(r, x)
      PROVE  /\ y \in RowId /\ y \in Present(source) /\ TableOf[y] = table[r]
             /\ TableOf[y] = Translate /\ Seen(r)[y] # NoRow =>
                  Seen(r)[y].phrase = snapshot[r][x].phrase
  <2>1. CASE TableOf[x] # Translate
    BY <1>1, <1>2, <2>1, SlotsAre
  <2>2. CASE TableOf[x] = Translate
    <3>1. CASE y \in Holders(Seen(r), snapshot[r][x])
      <4>1. /\ y \in RowId /\ Seen(r)[y] # NoRow /\ TableOf[y] = Translate
            /\ Seen(r)[y].phrase = snapshot[r][x].phrase
        BY <3>1 DEF Holders, Present
      <4>2. y \in Present(source)
        BY <1>1, <4>1 DEF Seen, Present, WritesKeep
      <4> QED  BY <1>1, <2>2, <4>1, <4>2
    <3>2. CASE y \in {x} \ Present(Seen(r))
      BY <1>1, <3>2 DEF Present
    <3> QED  BY <1>1, <1>2, <2>2, <3>1, <3>2, SlotsAre
  <2> QED  BY <2>1, <2>2
<1>3. ASSUME NEW y \in RowId
      PROVE  \/ \E x \in S : y \in Slots(r, x) /\ W[y] = snapshot[r][x]
             \/ W[y] = written[r][y] /\ ~ \E x \in S : y \in Slots(r, x)
  <2> DEFINE w == CHOOSE x \in S : y \in Slots(r, x)
  <2>1. CASE \E x \in S : y \in Slots(r, x)
    <3>1. w \in S /\ y \in Slots(r, w)  BY <2>1
    <3>2. W[y] = snapshot[r][w]  BY <2>1 DEF Upserted
    <3> HIDE DEF w, W
    <3> QED  BY <3>1, <3>2
  <2>2. CASE ~ \E x \in S : y \in Slots(r, x)
    BY <2>2 DEF Upserted
  <2> QED  BY <2>1, <2>2
<1> HIDE DEF W
<1>4. \A x \in S : snapshot[r][x] # NoRow  BY <1>1 DEF Present
<1>5. ASSUME NEW y \in RowId, Seen(r)[y] # NoRow
      PROVE  D[y] # NoRow /\ (TableOf[y] = Translate => D[y].phrase = Seen(r)[y].phrase)
  <2>1. CASE \E x \in S : y \in Slots(r, x) /\ W[y] = snapshot[r][x]
    BY <1>2, <1>4, <1>5, <2>1
  <2>2. CASE W[y] = written[r][y]
    BY <1>5, <2>2 DEF Seen
  <2> QED  BY <1>3, <2>1, <2>2
<1>6. Keeps(Seen(r), D)  BY <1>5 DEF Keeps
<1>7. ASSUME NEW y \in RowId, W[y] # NoRow
      PROVE  /\ y \in Present(source) /\ TableOf[y] = table[r]
             /\ TableOf[y] = Translate /\ target[y] # NoRow => W[y].phrase = target[y].phrase
  <2>1. CASE \E x \in S : y \in Slots(r, x) /\ W[y] = snapshot[r][x]
    <3>1. PICK x \in S : y \in Slots(r, x) /\ W[y] = snapshot[r][x]  BY <2>1
    <3>2. target[y] # NoRow => /\ Seen(r)[y] # NoRow
                               /\ TableOf[y] = Translate =>
                                    Seen(r)[y].phrase = target[y].phrase
      BY <1>1, SeenKeeps DEF Keeps
    <3> QED  BY <1>2, <3>1, <3>2
  <2>2. CASE W[y] = written[r][y]
    BY <1>1, <1>7, <2>2 DEF WritesKeep, Present
  <2> QED  BY <1>3, <2>1, <2>2
<1>8. WritesKeep(r)'
  BY <1>7 DEF WritesKeep, Present, W
<1>9. ASSUME NEW x \in S PROVE Replicated(Seen(r), x)'
  <2>1. PICK y \in RowId : y \in Slots(r, x)
    BY <1>2 DEF Accepts
  <2>2. D[y] # NoRow
    BY <1>3, <1>4, <2>1
  <2>3. CASE y = x
    BY <1>0, <2>2, <2>3 DEF Replicated
  <2>4. CASE y # x
    <3>1. TableOf[x] = Translate /\ y \in Holders(Seen(r), snapshot[r][x])
      BY <1>1, <2>1, <2>4, SlotsAre
    <3>2. /\ TableOf[y] = Translate /\ Seen(r)[y] # NoRow
          /\ Seen(r)[y].phrase = snapshot[r][x].phrase
      BY <3>1 DEF Holders, Present
    <3>3. D[y].phrase = snapshot[r][x].phrase
      BY <1>5, <3>2
    <3>4. Replica(D, snapshot', x)
      BY <1>4, <2>2, <3>1, <3>2, <3>3 DEF Replica
    <3> HIDE DEF D
    <3> QED  BY <1>0, <3>4 DEF Replica, Replicated, Merged, Holders, Present
  <2> QED  BY <2>3, <2>4
<1>10. ASSUME NEW s \in Run \ {r}, NEW y \in RowId, written[s][y] # NoRow, W[y] # NoRow
       PROVE  FALSE
  <2>1. CASE \E x \in S : y \in Slots(r, x) /\ W[y] = snapshot[r][x]
    BY <1>10, <2>1 DEF Accepts, Waits, Present
  <2>2. CASE W[y] = written[r][y]
    BY <1>10, <2>2 DEF CoverageInv, Apart, Present
  <2> QED  BY <1>3, <2>1, <2>2
<1>11. \A s \in Run \ {r} : Present(written[s]) \cap Present(written'[r]) = {}
  BY <1>10 DEF Present, W
<1> QED  BY <1>0, <1>6, <1>8, <1>9, <1>11

(* The savepoint of the whole batch: all its rows at once. *)
LEMMA UpsertBatchCovers ==
  ASSUME TypeOK, CoverageInv, NEW r \in Run, UpsertBatch(r)
  PROVE  CoverageInv'
<1> USE DEF UpsertBatch, database
<1>1. PICK last \in batch[r] : cursor' = [cursor EXCEPT ![r] = KeyOf[last]]
  OBVIOUS
<1>2. /\ pc[r] = "upsert" /\ pc'[r] = "commit"
      /\ written'[r] = Upserted(r, batch[r]) /\ cursor'[r] = KeyOf[last]
  BY <1>1 DEF TypeOK
<1>3. /\ Keeps(Seen(r), Seen(r)') /\ WritesKeep(r)'
      /\ \A x \in batch[r] : Replicated(Seen(r), x)'
      /\ \A s \in Run \ {r} : Present(written[s]) \cap Present(written'[r]) = {}
  BY <1>2, UpsertWrites
<1>4. \A x \in batch[r] : AccountedIn(r, x)'
  BY <1>3 DEF AccountedIn
<1>5. ReadCovers(r)'
  BY <1>2, <1>3, <1>4, PassRow
<1>6. BatchCovers(r)'
  BY <1>2 DEF BatchCovers
<1>7. QED BY <1>2, <1>3, <1>5, <1>6, LocalStep DEF TypeOK

(* One row of the fallback, written or skipped. *)
LEMMA RowCovers ==
  ASSUME TypeOK, CoverageInv, NEW r \in Run, UpsertRow(r) \/ SkipRow(r)
  PROVE  CoverageInv'
<1>1. PICK x \in batch[r] :
        /\ IsNext(r, x)
        /\ cursor' = [cursor EXCEPT ![r] = Later(@, KeyOf[x])]
        /\ batch' = [batch EXCEPT ![r] = @ \ {x}]
        /\ \/ /\ written' = [written EXCEPT ![r] = Upserted(r, {x})]
              /\ Accepts(r, {x}) /\ failed' = failed
           \/ /\ failed' = [failed EXCEPT ![r] = @ \cup {Failure(r, x, SkipCode(r, x))}]
              /\ written' = written
  BY DEF UpsertRow, SkipRow
<1>2. /\ pc[r] = "rows" /\ pc' = pc
      /\ UNCHANGED <<source, late, target, position, errors, table, snapshot>>
      /\ \A s \in Run \ {r} : /\ cursor'[s] = cursor[s] /\ batch'[s] = batch[s]
                              /\ written'[s] = written[s] /\ failed'[s] = failed[s]
  BY <1>1 DEF UpsertRow, SkipRow, database, TypeOK
<1>3. /\ x \in Present(snapshot[r]) /\ x \in RowId /\ KeyOf[x] \in Nat
      /\ cursor[r] \in Nat
  BY <1>2, RowsAssumption DEF TypeOK, CoverageInv, RunInv, BatchCovers
<1>4. /\ cursor'[r] \in {cursor[r], KeyOf[x]} /\ cursor'[r] >= cursor[r]
      /\ batch'[r] = batch[r] \ {x} /\ failed[r] \subseteq failed'[r]
  <2>1. cursor'[r] = Later(cursor[r], KeyOf[x]) /\ batch'[r] = batch[r] \ {x}
    BY <1>1 DEF TypeOK
  <2>2. /\ Later(cursor[r], KeyOf[x]) \in {cursor[r], KeyOf[x]}
        /\ Later(cursor[r], KeyOf[x]) >= cursor[r]
    BY <1>3 DEF Later
  <2>3. failed[r] \subseteq failed'[r]
    BY <1>1 DEF TypeOK
  <2>4. QED BY <2>1, <2>2, <2>3
<1>a. /\ Keeps(Seen(r), Seen(r)') /\ WritesKeep(r)'
      /\ \A s \in Run \ {r} : Present(written[s]) \cap Present(written'[r]) = {}
      /\ written' = [written EXCEPT ![r] = Upserted(r, {x})] /\ Accepts(r, {x}) =>
           Replicated(Seen(r), x)'
  <2>1. CASE written' = [written EXCEPT ![r] = Upserted(r, {x})] /\ Accepts(r, {x})
    <3>1. written'[r] = Upserted(r, {x})  BY <2>1 DEF TypeOK
    <3>2. {x} \in SUBSET batch[r] /\ x \in {x}  BY <1>1
    <3> QED  BY <1>2, <2>1, <3>1, <3>2, UpsertWrites
  <2>2. CASE written' = written /\ ~ (/\ written' = [written EXCEPT ![r] = Upserted(r, {x})]
                                     /\ Accepts(r, {x}))
    <3>1. Keeps(Seen(r), Seen(r)')  BY <1>2, <2>2 DEF Keeps, Seen
    <3>2. WritesKeep(r)'  BY <1>2, <2>2 DEF CoverageInv, RunInv, WritesKeep, Present
    <3>3. \A s \in Run \ {r} : Present(written[s]) \cap Present(written'[r]) = {}
      BY <2>2 DEF CoverageInv, Apart
    <3> QED  BY <2>2, <3>1, <3>2, <3>3
  <2> QED  BY <1>1, <2>1, <2>2
<1>5. AccountedIn(r, x)'
  <2>1. CASE written' = [written EXCEPT ![r] = Upserted(r, {x})] /\ Accepts(r, {x})
    BY <1>a, <2>1 DEF AccountedIn
  <2>2. CASE failed' = [failed EXCEPT ![r] = @ \cup {Failure(r, x, SkipCode(r, x))}]
    <3>1. Failure(r, x, SkipCode(r, x)) \in failed'[r]
      BY <2>2 DEF TypeOK
    <3>2. Failure(r, x, SkipCode(r, x)).row = x
      BY DEF Failure
    <3>3. QED BY <3>1, <3>2 DEF AccountedIn
  <2>3. QED BY <1>1, <2>1, <2>2
<1>7. \A y \in batch[r] : KeyOf[y] <= KeyOf[x] => AccountedIn(r, y)'
  <2>1. ASSUME NEW y \in batch[r], KeyOf[y] <= KeyOf[x] PROVE y = x
    <3>1. KeyOf[x] <= KeyOf[y] /\ y \in RowId
      BY <1>1 DEF IsNext, TypeOK
    <3>2. \A b \in batch[r] : TableOf[b] = table[r]
      BY <1>2 DEF CoverageInv, RunInv, BatchCovers
    <3>3. TableOf[x] = TableOf[y]
      BY <1>1, <3>2
    <3>4. KeyOf[x] = KeyOf[y]
      BY <1>3, <2>1, <3>1, RowsAssumption
    <3>5. QED BY <1>3, <3>1, <3>3, <3>4, RowsAssumption
  <2>2. QED BY <1>5, <2>1
<1>8. ReadCovers(r)'
  BY <1>2, <1>3, <1>4, <1>7, <1>a, PassRow
<1>9. BatchCovers(r)'
  <2>1. \A y \in RowId : AccountedIn(r, y) => AccountedIn(r, y)'
    BY <1>2, <1>4, <1>a, AccountedInStays DEF SameRead
  <2>2. ASSUME NEW b \in batch'[r], NEW y \in Present(snapshot[r]),
               TableOf[y] = table[r], cursor'[r] < KeyOf[y], KeyOf[y] <= KeyOf[b]
        PROVE  y \in batch'[r] \/ AccountedIn(r, y)'
    <3>1. b \in batch[r] /\ y \in RowId /\ KeyOf[y] \in Nat /\ cursor'[r] \in Nat
      BY <1>3, <1>4, RowsAssumption DEF Present
    <3>2. cursor[r] < KeyOf[y]
      <4>1. cursor[r] <= cursor'[r] /\ cursor[r] \in Nat
        BY <1>3, <1>4, <3>1
      <4>2. QED BY <2>2, <3>1, <4>1
    <3>3. y \in batch[r] \/ AccountedIn(r, y)
      BY <1>2, <2>2, <3>1, <3>2 DEF CoverageInv, RunInv, BatchCovers
    <3>4. QED BY <1>4, <1>5, <2>1, <3>1, <3>3
  <2>3. \A b \in batch'[r] : b \in Present(snapshot[r]) /\ TableOf[b] = table[r]
    BY <1>2, <1>4 DEF CoverageInv, RunInv, BatchCovers
  <2>4. QED BY <1>2, <2>2, <2>3 DEF BatchCovers, Present
<1>10. QED BY <1>2, <1>8, <1>9, <1>a, LocalStep

(* The commit: what the transaction of r accounted for, the database does.  *)
LEMMA CommittedAccounted ==
  ASSUME NEW r \in Run, target' = Seen(r), snapshot' = snapshot, errors' = errors \cup failed[r]
  PROVE  \A x \in RowId : AccountedIn(r, x) => Accounted(x)'
<1> SUFFICES ASSUME NEW x \in RowId, AccountedIn(r, x) PROVE Accounted(x)'
  OBVIOUS
<1>1. CASE Replicated(Seen(r), x)
  <2>1. Replica(target', snapshot', x)  BY <1>1, ReplicatedIs
  <2>2. Replicated(target, x)'  BY <2>1 DEF Replicated, Replica, Merged, Holders, Present
  <2> QED  BY <2>2 DEF Accounted
<1>2. CASE \E e \in errors \cup failed[r] : e.row = x
  BY <1>2 DEF Accounted
<1> QED  BY <1>1, <1>2 DEF AccountedIn

LEMMA CommitBatchCovers ==
  ASSUME TypeOK, CoverageInv, NEW r \in Run, CommitBatch(r)
  PROVE  CoverageInv'
<1> USE DEF CommitBatch
<1>1. ReadCovers(r) /\ pc[r] \in {"commit", "rows"} /\ pc'[r] \in {"next", "fetch"}
  BY DEF CoverageInv, RunInv, TypeOK
<1>2. table[r] \in Table /\ position'[table[r]] = cursor[r]
  BY <1>1 DEF ReadCovers, TypeOK
<1>a. Keeps(target, target') /\ SameRead(snapshot, snapshot')
  <2>1. Keeps(target, Seen(r))  BY SeenKeeps DEF CoverageInv, RunInv
  <2> QED  BY <2>1 DEF SameRead
<1>3. \A x \in RowId : Accounted(x) => Accounted(x)'
  BY <1>a, AccountedStays
<1>4. \A x \in RowId : AccountedIn(r, x) => Accounted(x)'
  BY CommittedAccounted
<1>5. Coverage'
  BY <1>1, <1>2, <1>3, <1>4, RowsAssumption
     DEF CoverageInv, Coverage, ReadCovers, Present, TypeOK
<1>6. \A t \in Table : IsMark(t, position[t])'
  BY ZenonT(60), <1>1, <1>2 DEF CoverageInv, IsMark, ReadCovers, Present, TypeOK
<1>7. Present(source)' = Present(source) /\ Present(target)' \subseteq Present(source)
  BY DEF CoverageInv, RunInv, WritesKeep, Seen, Present
<1>8. ASSUME NEW s \in Run PROVE RunInv(s)'
  <2>1. CASE s = r
    <3>1. SnapshotPrefix(r)'
      BY <1>1, <2>1 DEF CoverageInv, RunInv, SnapshotPrefix, Present
    <3>2. Present(written'[r]) = {} /\ failed'[r] = {}
      BY DEF TypeOK, Nothing, Present
    <3>3. ReadCovers(r)'
      <4>1. \A x \in RowId : Accounted(x)' => AccountedIn(r, x)'
        <5>1. \A y \in RowId : Seen(r)'[y] = target'[y]
          BY <3>2 DEF Seen, Present
        <5> QED  BY <5>1 DEF Accounted, AccountedIn, Replicated, Merged, Holders, Present
      <4> QED  BY <1>1, <1>2, <1>4, <4>1 DEF ReadCovers, IsMark, Present
    <3>4. BatchCovers(r)' /\ WritesKeep(r)'
      BY <1>1, <3>2 DEF BatchCovers, WritesKeep, Present
    <3>5. QED BY <2>1, <3>1, <3>3, <3>4 DEF RunInv
  <2>2. CASE s # r
    <3>1. pc'[s] = pc[s] /\ written'[s] = written[s] /\ failed'[s] = failed[s]
      BY <2>2 DEF TypeOK
    <3>2. \A y \in Present(written[s]) : target'[y] = target[y]
      BY <2>2 DEF CoverageInv, Apart, Seen, Present
    <3>3. QED BY <1>a, <1>7, <3>1, <3>2, OtherRun DEF CoverageInv
  <2>3. QED BY <2>1, <2>2
<1>9. Apart'
  BY DEF CoverageInv, Apart, Present, Nothing, TypeOK
<1>10. QED BY <1>5, <1>6, <1>7, <1>8, <1>9 DEF CoverageInv

(* A step of r that writes nothing of the target and reads nothing from it. *)
LEMMA QuietStep ==
  ASSUME TypeOK, CoverageInv, NEW r \in Run, ReadCovers(r)', BatchCovers(r)',
         UNCHANGED <<source, late, target, position>>, errors \subseteq errors',
         \/ snapshot'[r] = snapshot[r]
         \/ snapshot'[r] = source /\ pc[r] = "connect",
         pc'[r] \in {"new", "connect"} =>
           pc[r] \in {"new", "connect"} /\ snapshot'[r] = snapshot[r],
         \/ written'[r] = written[r] /\ (table'[r] = table[r] \/ Present(written[r]) = {})
         \/ written'[r] = Nothing,
         \A s \in Run \ {r} :
           /\ pc'[s] = pc[s] /\ snapshot'[s] = snapshot[s]
           /\ table'[s] = table[s] /\ cursor'[s] = cursor[s]
           /\ batch'[s] = batch[s] /\ written'[s] = written[s]
           /\ failed'[s] = failed[s]
  PROVE  CoverageInv'
<1>1. WritesKeep(r)'
  BY DEF CoverageInv, RunInv, WritesKeep, Nothing, Present
<1>2. \A s \in Run \ {r} : Present(written[s]) \cap Present(written'[r]) = {}
  BY DEF CoverageInv, Apart, Nothing, Present
<1> QED  BY <1>1, <1>2, LocalStep

(* The strengthened invariant holds of every behaviour of the program. *)
THEOREM CoverageInvariant == Spec => []CoverageInv
<1>1. Init => CoverageInv
  BY DEF Init, CoverageInv, Coverage, IsMark, Apart, RunInv, SnapshotPrefix, WritesKeep,
         ReadCovers, BatchCovers, Present, Nothing
<1>2. TypeOK /\ TypeOK' /\ CoverageInv /\ [Next]_vars => CoverageInv'
  <2> SUFFICES ASSUME TypeOK, TypeOK', CoverageInv, [Next]_vars PROVE CoverageInv'
    OBVIOUS
  <2>1. ASSUME NEW x \in RowId, NEW c \in Content[x], SourceWrite(x, c)
        PROVE  CoverageInv'
    BY <2>1, SourceWriteCovers
  <2>2. ASSUME NEW r \in Run,
               StartRun(r) \/ OpenSource(r) \/ SkipTable(r) \/ EndTable(r)
        PROVE  CoverageInv'
    <3> USE DEF StartRun, OpenSource, SkipTable, EndTable, database, local
    <3>1. /\ pc[r] \in {"new", "connect", "next", "fetch"} /\ pc'[r] \in {"connect", "next"}
          /\ pc'[r] = "connect" => pc[r] = "new" /\ snapshot' = snapshot
      BY <2>2 DEF TypeOK
    <3>2. written' = written /\ failed' = failed /\ Present(written[r]) = {} /\ failed[r] = {}
      BY <2>2, <3>1 DEF CoverageInv, RunInv, BatchCovers
    <3>3. ReadCovers(r)' /\ BatchCovers(r)'
      BY <3>1, <3>2 DEF ReadCovers, BatchCovers, Present
    <3>4. \/ snapshot'[r] = snapshot[r]
          \/ snapshot'[r] = source /\ pc[r] = "connect"
      BY <2>2 DEF TypeOK
    <3>5. QED BY <2>2, <3>1, <3>2, <3>3, <3>4, QuietStep DEF TypeOK
  <2>3. ASSUME NEW r \in Run, BeginTable(r) PROVE CoverageInv'
    <3> USE <2>3 DEF BeginTable, StoredCursor, database
    <3>1. /\ pc[r] = "next" /\ pc'[r] = "fetch" /\ Present(written[r]) = {} /\ failed[r] = {}
          /\ Head(todo[r]) \in Table
      BY DEF TypeOK, CoverageInv, RunInv, BatchCovers
    <3>2. table'[r] = Head(todo[r]) /\ cursor'[r] = position[Head(todo[r])]
      BY DEF TypeOK
    <3>3. ReadCovers(r)'
      <4>. PICK t \in Table : t = Head(todo[r])
        BY <3>1
      <4>1. IsMark(t, position[t])'
        BY <3>1 DEF CoverageInv, IsMark, Present
      <4>2. \A x \in RowId : AccountedIn(r, x) => AccountedIn(r, x)'
        <5>1. Keeps(Seen(r), Seen(r)')  BY DEF Keeps, Seen
        <5> QED  BY <5>1, AccountedInStays DEF SameRead
      <4>3. \A x \in Present(source) \ late :
              TableOf[x] = t /\ KeyOf[x] <= position[t] => AccountedIn(r, x)'
        BY <4>2, AccountedSeen DEF CoverageInv, RunInv, Coverage, Present
      <4>4. QED BY <3>1, <3>2, <4>1, <4>3 DEF ReadCovers, IsMark, Present
    <3>4. BatchCovers(r)'
      BY <3>1 DEF BatchCovers, Present
    <3>5. QED BY <3>1, <3>3, <3>4, QuietStep DEF TypeOK
  <2>4. ASSUME NEW r \in Run, FetchBatch(r) PROVE CoverageInv'
    BY <2>4, FetchBatchCovers
  <2>5. ASSUME NEW r \in Run, FetchPoison(r) \/ Finish(r) \/ Abort(r)
                              \/ SourceLost(r) \/ OrderFails(r) \/ Die(r)
        PROVE  CoverageInv'
    <3> USE DEF FetchPoison, Finish, Abort, SourceLost, OrderFails, Die, database, local
    <3>1. pc'[r] \in {"abort", "done", "dead"}
      BY <2>5 DEF TypeOK
    <3>2. ReadCovers(r)' /\ BatchCovers(r)'
      BY <3>1 DEF ReadCovers, BatchCovers
    <3>3. /\ UNCHANGED <<source, late, target, position, snapshot>> /\ errors \subseteq errors'
          /\ \/ written'[r] = written[r] /\ table'[r] = table[r]
             \/ written'[r] = Nothing
      BY <2>5 DEF TypeOK
    <3>4. QED BY <2>5, <3>1, <3>2, <3>3, QuietStep DEF TypeOK
  <2>6. ASSUME NEW r \in Run, UpsertBatch(r) PROVE CoverageInv'
    BY <2>6, UpsertBatchCovers
  <2>7. ASSUME NEW r \in Run, FallBack(r) \/ RejectRow(r) PROVE CoverageInv'
    <3> USE DEF FallBack, RejectRow, database, local
    <3>1. /\ pc[r] \in {"upsert", "rows"} /\ pc'[r] = "rows" /\ batch'[r] \subseteq batch[r]
          /\ batch'[r] = batch[r] \/ batch'[r] = {}
          /\ failed[r] \subseteq failed'[r] /\ written' = written
          /\ UNCHANGED <<source, late, target, position, errors, snapshot, table, cursor>>
      BY <2>7 DEF TypeOK
    <3>2. \A x \in RowId : AccountedIn(r, x) => AccountedIn(r, x)'
      <4>1. Keeps(Seen(r), Seen(r)')  BY <3>1 DEF Keeps, Seen
      <4> QED  BY <3>1, <4>1, AccountedInStays DEF SameRead
    <3>3. ReadCovers(r)'
      BY <3>1, <3>2 DEF CoverageInv, RunInv, ReadCovers, IsMark, Present
    <3>4. BatchCovers(r)'
      BY <3>1, <3>2 DEF CoverageInv, RunInv, BatchCovers, Present
    <3>5. QED BY <2>7, <3>1, <3>3, <3>4, QuietStep DEF TypeOK
  <2>8. ASSUME NEW r \in Run, UpsertRow(r) \/ SkipRow(r) PROVE CoverageInv'
    BY <2>8, RowCovers
  <2>10. ASSUME NEW r \in Run, CommitBatch(r) PROVE CoverageInv'
    BY <2>10, CommitBatchCovers
  <2>11. CASE UNCHANGED vars
    <3> USE <2>11 DEF vars, database, local
    <3>1. Keeps(target, target') /\ SameRead(snapshot, snapshot')
      BY DEF Keeps, SameRead
    <3>2. \A x \in RowId : Accounted(x) => Accounted(x)'
      BY <3>1, AccountedStays
    <3>3. \A s \in Run : RunInv(s)'
      BY <3>1, OtherRun DEF CoverageInv, Present
    <3>4. Coverage' /\ \A t \in Table : IsMark(t, position[t])'
      BY <3>2 DEF CoverageInv, Coverage, IsMark, Present
    <3>5. Apart' /\ (Present(target) \subseteq Present(source))'
      BY DEF CoverageInv, Apart, Present
    <3>6. QED BY <3>3, <3>4, <3>5 DEF CoverageInv
  <2>12. QED
    BY <2>1, <2>2, <2>3, <2>4, <2>5, <2>6, <2>7, <2>8, <2>10, <2>11
       DEF Next, Step
<1>3. QED BY <1>1, <1>2, TypeCorrect, PTL DEF Spec

(* Whatever runs overlap or die and whatever the source does, a row that    *)
(* appeared in key order and that a stored cursor has passed is in the      *)
(* target, or, in translate, its phrase is under some id, or it has a       *)
(* sync_errors row.  Late rows are left out.                                *)
THEOREM CursorNeverOutrunsData == Spec => []Coverage
<1>1. CoverageInv => Coverage
  BY DEF CoverageInv
<1>2. QED BY <1>1, CoverageInvariant, PTL

-----------------------------------------------------------------------------
(* The errors a run has in its open transaction *)

\* They belong to the run's current table and to rows of its snapshot.
Enters(r) == \A e \in failed[r] : /\ e.run = r /\ TableOf[e.row] = table[r]
                                 /\ e.row \in Present(snapshot[r])
EntersInv == \A r \in Run : Enters(r)

\* Another run, or a step that leaves the transaction alone.
LEMMA EntersAlone ==
  ASSUME NEW s \in Run, Enters(s), table'[s] = table[s], snapshot'[s] = snapshot[s],
         failed'[s] = failed[s] \/ failed'[s] = {}
  PROVE  Enters(s)'
BY DEF Enters, Present

\* The transaction is empty.
LEMMA EntersNothing ==
  ASSUME NEW s \in Run, failed'[s] = {}
  PROVE  Enters(s)'
BY DEF Enters

LEMMA EntersNext == TypeOK /\ CoverageInv /\ EntersInv /\ [Next]_vars => EntersInv'
<1> SUFFICES ASSUME TypeOK, CoverageInv, EntersInv, [Next]_vars, NEW s \in Run
             PROVE  Enters(s)'
  BY DEF EntersInv
<1>0. Enters(s) /\ BatchCovers(s)  BY DEF EntersInv, CoverageInv, RunInv
<1>1. CASE UNCHANGED vars
  BY <1>0, <1>1, EntersAlone DEF vars, local
<1>2. ASSUME NEW x \in RowId, NEW c \in Content[x], SourceWrite(x, c) PROVE Enters(s)'
  BY <1>0, <1>2, EntersAlone DEF SourceWrite, local
<1>3. ASSUME NEW r \in Run, r # s, StartRun(r) \/ Step(r) \/ SourceLost(r) \/ Die(r)
      PROVE  Enters(s)'
  <2>1. /\ table'[s] = table[s] /\ snapshot'[s] = snapshot[s]
        /\ failed'[s] = failed[s]
    BY ZenonT(60), <1>3
    DEF TypeOK, Step, StartRun, OpenSource, OrderFails, SkipTable, BeginTable, EndTable,
         FetchBatch, FetchPoison, UpsertBatch, FallBack, UpsertRow, SkipRow, RejectRow,
         CommitBatch, Finish, Abort, SourceLost, Die, database, local
  <2> QED  BY <1>0, <2>1, EntersAlone
<1>4. CASE StartRun(s) \/ OrderFails(s) \/ SkipTable(s) \/ EndTable(s) \/ FallBack(s)
             \/ CommitBatch(s) \/ Finish(s) \/ Abort(s) \/ SourceLost(s)
  BY <1>0, <1>4, EntersAlone DEF TypeOK, StartRun, OrderFails, SkipTable, EndTable, FallBack,
     CommitBatch, Finish, Abort, SourceLost, database, local
<1>5. CASE OpenSource(s) \/ BeginTable(s)
  <2>1. failed'[s] = {}
    BY <1>0, <1>5 DEF OpenSource, BeginTable, BatchCovers, database
  <2> QED  BY <2>1, EntersNothing
<1>6. CASE Die(s)
  BY <1>6, EntersNothing DEF Die, TypeOK
<1>7. CASE FetchBatch(s) \/ FetchPoison(s)
  <2>1. /\ table'[s] = table[s] /\ snapshot' = snapshot
        /\ failed'[s] = {Failure(s, x, "invalid_source_pk") : x \in Unparsed(s)}
    BY <1>7 DEF FetchBatch, FetchPoison, TypeOK
  <2>2. \A x \in Unparsed(s) : TableOf[x] = table[s] /\ x \in Present(snapshot[s])
    BY DEF Unparsed, Window, Unread
  <2> QED  BY <1>0, <2>1, <2>2 DEF Enters, Failure, Present
<1>8. CASE UpsertBatch(s) \/ UpsertRow(s) \/ SkipRow(s) \/ RejectRow(s)
  <2>1. pc[s] \in {"upsert", "rows"} /\ table' = table /\ snapshot' = snapshot
    BY <1>8 DEF UpsertBatch, UpsertRow, SkipRow, RejectRow
  <2>2. \A b \in batch[s] : b \in Present(snapshot[s]) /\ TableOf[b] = table[s]
    BY <1>0, <2>1 DEF BatchCovers
  <2>3. CASE UpsertBatch(s) \/ UpsertRow(s)
    <3>1. failed' = failed
      BY <2>3 DEF UpsertBatch, UpsertRow
    <3> QED  BY <1>0, <2>1, <3>1, EntersAlone
  <2>5. ASSUME NEW x \in batch[s], NEW c,
               failed'[s] = failed[s] \cup {Failure(s, x, c)}
        PROVE  Enters(s)'
    BY <1>0, <2>1, <2>2, <2>5 DEF Enters, Present, Failure
  <2>6. CASE SkipRow(s)
    <3>1. \E x \in batch[s] : failed'[s] = failed[s] \cup {Failure(s, x, SkipCode(s, x))}
      BY <2>6 DEF SkipRow, TypeOK
    <3> QED  BY <2>5, <2>6, <3>1 DEF SkipRow
  <2>7. CASE RejectRow(s)
    <3>1. \E x \in batch[s] :
            failed'[s] = failed[s] \cup {Failure(s, x, "mapped_table_upsert_failed")}
      BY <2>7 DEF RejectRow, TypeOK
    <3> QED  BY <2>5, <2>7, <3>1 DEF RejectRow
  <2> QED  BY <1>8, <2>3, <2>6, <2>7
<1> QED  BY <1>1, <1>2, <1>3, <1>4, <1>5, <1>6, <1>7, <1>8 DEF Next, Step

LEMMA EntersInvariant == Spec => []EntersInv
<1>1. Init => EntersInv  BY DEF Init, EntersInv, Enters
<1> QED  BY <1>1, EntersNext, TypeCorrect, CoverageInvariant, PTL DEF Spec

-----------------------------------------------------------------------------
(* The sync implements the ledger *)

Entries == <<source, late, target, errors, position>>

\* The rows replicated, before and after.
Replicas == {x \in RowId : Replicated(target, x)}

LEMMA Quietly == UNCHANGED <<Entries, snapshot>> => UNCHANGED Ledger!vars
<1> SUFFICES ASSUME UNCHANGED <<Entries, snapshot>> PROVE UNCHANGED Ledger!vars
  OBVIOUS
<1>1. \A x \in RowId : Replicated(target, x)' <=> Replicated(target, x)
  BY DEF Entries, Replicated, Merged, Holders, Present
<1>2. Replicas' = Replicas  BY <1>1 DEF Replicas
<1>3. Present(source)' = Present(source)  BY DEF Entries, Present
<1> QED  BY <1>2, <1>3 DEF Entries, Ledger!vars, Replicas

LEMMA OfferStep ==
  ASSUME TypeOK, NEW x \in RowId, NEW c \in Content[x], SourceWrite(x, c)
  PROVE  [Ledger!Next]_(Ledger!vars)
<1>1. c # NoRow  BY ContentType, ContentAssumption
<1>2. Present(source)' = Present(source) \cup {x}
  BY <1>1 DEF SourceWrite, Present, TypeOK
<1>3. Replicas' = Replicas /\ UNCHANGED <<errors, position>>
  <2>1. \A x_1 \in RowId : Replicated(target, x_1)' <=> Replicated(target, x_1)
    BY DEF SourceWrite, local, Replicated, Merged, Holders, Present
  <2> QED  BY <2>1 DEF Replicas, SourceWrite
<1>4. CASE source[x] # NoRow
  <2>1. late' = late /\ Present(source)' = Present(source)
    BY <1>2, <1>4 DEF SourceWrite, Present
  <2> QED  BY <1>3, <2>1 DEF Ledger!vars, Replicas
<1>5. CASE source[x] = NoRow
  <2>1. x \notin Present(source)  BY <1>5 DEF Present
  <2>2. late' = IF \E y \in Present(source) : TableOf[y] = TableOf[x] /\ KeyOf[y] > KeyOf[x]
                THEN late \cup {x} ELSE late
    BY <1>5 DEF SourceWrite
  <2>3. Ledger!Offer(x)  BY <1>2, <1>3, <2>1, <2>2 DEF Ledger!Offer, Replicas
  <2> QED  BY <2>3 DEF Ledger!Next
<1> QED  BY <1>4, <1>5

\* What a transaction of table t commits together with a mark that covers it.
LEMMA EnterStep ==
  ASSUME TypeOK, NEW t \in Table,
         UNCHANGED <<source, late>>,
         Replicas \subseteq Replicas',
         \A x \in Replicas' \ Replicas : x \in Present(source) /\ TableOf[x] = t,
         NEW new, errors' = errors \cup new,
         \A e \in new : e.row \in Present(source) /\ TableOf[e.row] = t,
         NEW k \in Nat, position' = [position EXCEPT ![t] = k], IsMark(t, k),
         \A x \in Present(source) \ late :
           TableOf[x] = t /\ KeyOf[x] <= k => Accounted(x)'
  PROVE  Ledger!Next
<1> DEFINE mine == {x \in Present(source) : TableOf[x] = t}
           reported == {e.row : e \in errors}
<1>2. reported \subseteq reported' /\ reported' \subseteq reported \cup mine
  OBVIOUS
<1>3. Replicas \subseteq Replicas' /\ Replicas' \subseteq Replicas \cup mine
  OBVIOUS
<1>4. k \in {0} \cup {KeyOf[x] : x \in mine}
  BY DEF IsMark, Present
<1>5. \A x \in RowId : Accounted(x)' => x \in Replicas' \cup reported'
  BY DEF Accounted, Replicas
<1>6. \A x \in Present(source) \ late :
        TableOf[x] = t /\ KeyOf[x] <= k => x \in Replicas' \cup reported'
  BY <1>5 DEF Present
<1>7. Present(source)' = Present(source) /\ late' = late  BY DEF Present
<1>8. Ledger!Enter(t)
  BY <1>2, <1>3, <1>4, <1>6, <1>7 DEF Ledger!Enter, Ledger!Covers, Replicas
<1> QED  BY <1>8 DEF Ledger!Next

\* What becomes replicated when the snapshots gain rows and the target, too.
LEMMA ReplicasGrow ==
  ASSUME Keeps(target, target'), SameRead(snapshot, snapshot')
  PROVE  Replicas \subseteq Replicas'
<1> SUFFICES ASSUME NEW x \in RowId, Replicated(target, x) PROVE Replicated(target, x)'
  BY DEF Replicas
<1>1. Replica(target, snapshot, x)  BY ReplicatedIs
<1>2. Replica(target', snapshot', x)  BY <1>1, ReplicaStays
<1> QED  BY <1>2 DEF Replicated, Replica, Merged, Holders, Present

LEMMA CommitEnters ==
  ASSUME TypeOK, CoverageInv, EntersInv, NEW r \in Run, CommitBatch(r)
  PROVE  Ledger!Next
<1>1. /\ ReadCovers(r) /\ SnapshotPrefix(r) /\ WritesKeep(r) /\ Enters(r)
      /\ pc[r] \in {"commit", "rows"}
  BY DEF CoverageInv, RunInv, EntersInv, CommitBatch
<1>2. table[r] \in Table /\ cursor[r] \in Nat  BY <1>1 DEF ReadCovers, TypeOK
<1>3. target' = Seen(r) /\ snapshot' = snapshot /\ source' = source /\ late' = late
      /\ errors' = errors \cup failed[r] /\ position' = [position EXCEPT ![table[r]] = cursor[r]]
  BY DEF CommitBatch
<1>4. \A x \in RowId : AccountedIn(r, x) => Accounted(x)'
  BY <1>3, CommittedAccounted
<1>5. \A x \in Present(source) \ late :
        TableOf[x] = table[r] /\ KeyOf[x] <= cursor[r] => Accounted(x)'
  BY <1>1, <1>4 DEF ReadCovers, Present
<1>6. Replicas \subseteq Replicas'
  BY <1>1, <1>3, SeenKeeps, ReplicasGrow DEF SameRead
<1>7. ASSUME NEW x \in Replicas' \ Replicas
      PROVE  x \in Present(source) /\ TableOf[x] = table[r]
  <2>1. x \in RowId /\ Replicated(target, x)' /\ ~ Replicated(target, x)
    BY <1>7 DEF Replicas
  <2>2. Replica(target', snapshot, x) /\ ~ Replica(target, snapshot, x)
    BY <1>3, <2>1, ReplicatedIs DEF Replicated, Replica, Merged, Holders, Present
  <2>3. CASE target'[x] # NoRow
    <3>1. x \in Present(written[r])
      BY <1>3, <2>1, <2>2, <2>3 DEF Replica, Seen, Present
    <3> QED  BY <1>1, <3>1 DEF WritesKeep
  <2>4. CASE target'[x] = NoRow
    <3>1. PICK s \in Run, y \in RowId :
            /\ snapshot[s][x] # NoRow /\ target'[y] # NoRow
            /\ TableOf[y] = Translate /\ target'[y].phrase = snapshot[s][x].phrase
      BY <2>2, <2>4 DEF Replica
    <3>2. TableOf[x] = Translate  BY <2>2, <2>4 DEF Replica
    <3>3. y \in Present(written[r])
      BY <1>3, <2>2, <3>1, <3>2 DEF Replica, Seen, Present
    <3>4. TableOf[y] = table[r]  BY <1>1, <3>3 DEF WritesKeep
    <3>5. x \in Present(source)
      BY <2>1, <3>1 DEF CoverageInv, RunInv, SnapshotPrefix, Present
    <3> QED  BY <3>1, <3>2, <3>4, <3>5
  <2> QED  BY <2>3, <2>4
<1>8. \A e \in failed[r] : e.row \in Present(source) /\ TableOf[e.row] = table[r]
  BY <1>1 DEF Enters, SnapshotPrefix
<1>9. IsMark(table[r], cursor[r])  BY <1>1 DEF ReadCovers
<1> QED  BY <1>2, <1>3, <1>5, <1>6, <1>7, <1>8, <1>9, EnterStep

LEMMA AbortEnters ==
  ASSUME TypeOK, CoverageInv, EntersInv, NEW r \in Run, Abort(r)
  PROVE  [Ledger!Next]_(Ledger!vars)
<1>1. SnapshotPrefix(r) /\ Enters(r)  BY DEF CoverageInv, RunInv, EntersInv
<1>2. CASE failed[r] = {}
  BY <1>2, Quietly DEF Abort, Entries
<1>3. CASE failed[r] # {}
  <2>1. table[r] \in Table
    BY <1>1, <1>3, RowsAssumption DEF Enters, Present
  <2>2. \A x \in RowId : Accounted(x) => Accounted(x)'
    BY AccountedStays DEF Keeps, SameRead, Abort
  <2>3. \A x \in Present(source) \ late :
          TableOf[x] = table[r] /\ KeyOf[x] <= position[table[r]] => Accounted(x)'
    BY <2>2 DEF CoverageInv, Coverage, Present
  <2>4. /\ position' = [position EXCEPT ![table[r]] = position[table[r]]]
        /\ position[table[r]] \in Nat
    BY <2>1 DEF Abort, TypeOK
  <2>5. IsMark(table[r], position[table[r]])  BY <2>1 DEF CoverageInv
  <2>6. Replicas' = Replicas
    <3>1. \A x \in RowId : Replicated(target, x)' <=> Replicated(target, x)
      BY DEF Abort, Replicated, Merged, Holders, Present
    <3> QED  BY <3>1 DEF Replicas
  <2>7. UNCHANGED <<source, late>> /\ errors' = errors \cup failed[r]  BY DEF Abort
  <2>8. \A e \in failed[r] : e.row \in Present(source) /\ TableOf[e.row] = table[r]
    BY <1>1 DEF Enters, SnapshotPrefix
  <2>9. Ledger!Next
    BY <2>1, <2>3, <2>4, <2>5, <2>6, <2>7, <2>8, EnterStep
  <2> QED  BY <2>9
<1> QED  BY <1>2, <1>3

\* A run opens the source: rows of translate are read with phrases that the
\* target has under other ids.
LEMMA OpenEnters ==
  ASSUME TypeOK, CoverageInv, NEW r \in Run, OpenSource(r)
  PROVE  [Ledger!Next]_(Ledger!vars)
<1>1. /\ pc[r] = "connect" /\ snapshot' = [snapshot EXCEPT ![r] = source]
      /\ UNCHANGED <<source, late, target, position, errors>>
  BY DEF OpenSource, database
<1>2. Keeps(target, target') /\ SameRead(snapshot, snapshot')
  <2>1. \A x \in RowId : snapshot[r][x] = NoRow
    BY <1>1 DEF CoverageInv, RunInv, SnapshotPrefix, Present
  <2> QED  BY <1>1, <2>1 DEF Keeps, SameRead, TypeOK
<1>3. Replicas \subseteq Replicas'  BY <1>2, ReplicasGrow
<1>4. ASSUME NEW x \in Replicas' \ Replicas
      PROVE  x \in Present(source) /\ TableOf[x] = Translate
  <2>1. x \in RowId /\ Replicated(target, x)' /\ ~ Replicated(target, x)
    BY <1>4 DEF Replicas
  <2>2. TableOf[x] = Translate /\ \E s \in Run : snapshot'[s][x] # NoRow
    BY <1>1, <2>1 DEF Replicated, Merged
  <2> QED  BY <1>1, <2>1, <2>2 DEF CoverageInv, RunInv, SnapshotPrefix, Present, TypeOK
<1>5. CASE Replicas' = Replicas
  <2>1. Present(source)' = Present(source)  BY <1>1 DEF Present
  <2> QED  BY <1>1, <1>5, <2>1 DEF Ledger!vars, Replicas
<1>6. CASE Replicas' # Replicas
  <2>1. PICK x : x \in Replicas' \ Replicas  BY <1>3, <1>6
  <2>2. x \in RowId /\ TableOf[x] = Translate  BY <1>4, <2>1 DEF Replicas
  <2>3. Translate \in Table  BY <2>2, RowsAssumption
  <2>4. \A y \in RowId : Accounted(y) => Accounted(y)'
    BY <1>1, <1>2, AccountedStays
  <2>5. \A y \in Present(source) \ late :
          TableOf[y] = Translate /\ KeyOf[y] <= position[Translate] => Accounted(y)'
    BY <2>4 DEF CoverageInv, Coverage, Present
  <2>6. /\ position' = [position EXCEPT ![Translate] = position[Translate]]
        /\ position[Translate] \in Nat /\ errors' = errors
    BY <1>1, <2>3 DEF TypeOK
  <2>7. IsMark(Translate, position[Translate])  BY <2>3 DEF CoverageInv
  <2>8. Ledger!Next
    <3>1. PICK new : new = {}  OBVIOUS
    <3>2. /\ UNCHANGED <<source, late>> /\ errors' = errors \cup new
          /\ \A e \in new : e.row \in Present(source) /\ TableOf[e.row] = Translate
      BY <1>1, <3>1
    <3> QED  BY <3>2, <1>3, <1>4, <2>3, <2>5, <2>6, <2>7, EnterStep
  <2> QED  BY <2>8
<1> QED  BY <1>5, <1>6

(* Whatever runs overlap or die, each commit of the database is an entry of *)
(* the ledger: a batch with its errors and the cursor that covers them, or  *)
(* the errors that a failed run leaves behind.                              *)
THEOREM LedgerKept == Spec => ImplementsLedger
<1>1. Init => Ledger!Init
  BY DEF Init, Ledger!Init, Present, Nothing, Replicated, Merged
<1>2. TypeOK /\ CoverageInv /\ EntersInv /\ [Next]_vars => [Ledger!Next]_(Ledger!vars)
  <2> SUFFICES ASSUME TypeOK, CoverageInv, EntersInv, [Next]_vars
               PROVE  [Ledger!Next]_(Ledger!vars)
    OBVIOUS
  <2>1. ASSUME NEW x \in RowId, NEW c \in Content[x], SourceWrite(x, c)
        PROVE  [Ledger!Next]_(Ledger!vars)
    BY <2>1, OfferStep
  <2>2. ASSUME NEW r \in Run, CommitBatch(r) PROVE [Ledger!Next]_(Ledger!vars)
    BY <2>2, CommitEnters
  <2>3. ASSUME NEW r \in Run, Abort(r) PROVE [Ledger!Next]_(Ledger!vars)
    BY <2>3, AbortEnters
  <2>4. ASSUME NEW r \in Run,
               \/ StartRun(r) \/ OrderFails(r) \/ SkipTable(r) \/ BeginTable(r)
               \/ EndTable(r) \/ FetchBatch(r) \/ FetchPoison(r) \/ UpsertBatch(r)
               \/ FallBack(r) \/ UpsertRow(r) \/ SkipRow(r) \/ RejectRow(r) \/ Finish(r)
               \/ SourceLost(r) \/ Die(r)
        PROVE  [Ledger!Next]_(Ledger!vars)
    <3>1. UNCHANGED <<Entries, snapshot>>
      BY <2>4 DEF Entries, StartRun, OrderFails, SkipTable, BeginTable, EndTable,
         FetchBatch, FetchPoison, UpsertBatch, FallBack, UpsertRow, SkipRow, RejectRow, Finish,
         SourceLost, Die, database, local
    <3> QED  BY <3>1, Quietly
  <2>5. CASE UNCHANGED vars
    BY <2>5, Quietly DEF vars, database, local, Entries
  <2>6. ASSUME NEW r \in Run, OpenSource(r) PROVE [Ledger!Next]_(Ledger!vars)
    BY <2>6, OpenEnters
  <2> QED  BY <2>1, <2>2, <2>3, <2>4, <2>5, <2>6 DEF Next, Step
<1> QED
  BY <1>1, <1>2, TypeCorrect, CoverageInvariant, EntersInvariant, PTL
     DEF Spec, ImplementsLedger, Ledger!Spec

-----------------------------------------------------------------------------
(* "success" means caught up *)

Reading == {"fetch", "upsert", "rows", "commit"}
Ahead(r) == {todo[r][i] : i \in DOMAIN todo[r]}
ToCopy(r) == Selected(params[r]) \ Unsyncable

\* A row that run r has not failed on itself.
Reached(r, x) == Replicated(target, x) \/ \E e \in errors : e.row = x /\ e.run # r
Copied(r, t) == \A x \in Present(snapshot[r]) \ late : TableOf[x] = t => Reached(r, x)
Blamed(r, t) == \E e \in errors : e.run = r /\ TableOf[e.row] = t

\* A table is left only when it is copied or after an error, and a run that
\* left one after an error is no success.
Planned(r) ==
  /\ pc[r] \in Reading /\ halted[r] => failed[r] # {}
  /\ pc[r] \in {"next"} \cup Reading /\ params[r].limit = 0 =>
       \A t \in ToCopy(r) : \/ t \in Ahead(r)
                            \/ pc[r] \in Reading /\ t = table[r]
                            \/ Copied(r, t) \/ Blamed(r, t)
  /\ status[r] = "success" =>
       pc[r] = "done" /\ (params[r].limit = 0 => \A t \in ToCopy(r) : Copied(r, t))
PlannedInv == \A r \in Run : Planned(r)

\* The database only gains rows and errors, and a row may turn out to be late.
Gains ==
  /\ Keeps(target, target') /\ SameRead(snapshot, snapshot')
  /\ errors \subseteq errors' /\ late \subseteq late' /\ params' = params

LEMMA CopiedStays ==
  ASSUME Gains, NEW r \in Run, snapshot'[r] = snapshot[r], NEW t
  PROVE  (Copied(r, t) => Copied(r, t)') /\ (Blamed(r, t) => Blamed(r, t)')
<1>1. \A x \in RowId : Reached(r, x) => Reached(r, x)'
  <2>1. Replicas \subseteq Replicas'  BY ReplicasGrow DEF Gains
  <2> QED  BY <2>1 DEF Reached, Gains, Replicas
<1> QED  BY <1>1 DEF Copied, Blamed, Gains, Present

LEMMA GainsNext == TypeOK /\ CoverageInv /\ [Next]_vars => Gains
<1> SUFFICES ASSUME TypeOK, CoverageInv, [Next]_vars PROVE Gains  OBVIOUS
<1>1. CASE UNCHANGED vars
  BY <1>1 DEF vars, database, local, Gains, Keeps, SameRead
<1>2. ASSUME NEW x \in RowId, NEW c \in Content[x], SourceWrite(x, c) PROVE Gains
  BY <1>2 DEF SourceWrite, local, Gains, Keeps, SameRead
<1>3. ASSUME NEW r \in Run, StartRun(r) \/ Step(r) \/ SourceLost(r) \/ Die(r),
             ~ CommitBatch(r), ~ OpenSource(r)
      PROVE  Gains
  <2>1. /\ UNCHANGED <<target, late, params, snapshot>>
        /\ errors' = errors \/ errors' = errors \cup failed[r]
    BY <1>3 DEF Step, StartRun, OrderFails, SkipTable, BeginTable, EndTable, FetchBatch,
       FetchPoison, UpsertBatch, FallBack, UpsertRow, SkipRow, RejectRow, Finish, Abort,
       SourceLost, Die, database, local
  <2> QED  BY <2>1 DEF Gains, Keeps, SameRead
<1>4. ASSUME NEW r \in Run, CommitBatch(r) PROVE Gains
  <2>1. Keeps(target, Seen(r))  BY SeenKeeps DEF CoverageInv, RunInv
  <2> QED  BY <1>4, <2>1 DEF Gains, CommitBatch, SameRead
<1>5. ASSUME NEW r \in Run, OpenSource(r) PROVE Gains
  <2>1. pc[r] = "connect" /\ snapshot' = [snapshot EXCEPT ![r] = source]
        /\ UNCHANGED <<target, errors, late, params>>
    BY <1>5 DEF OpenSource, database
  <2>2. \A x \in RowId : snapshot[r][x] = NoRow
    BY <2>1 DEF CoverageInv, RunInv, SnapshotPrefix, Present
  <2> QED  BY <2>1, <2>2 DEF Gains, Keeps, SameRead, TypeOK
<1> QED  BY <1>1, <1>2, <1>3, <1>4, <1>5 DEF Next, Step

\* A step that leaves alone where run r is.
LEMMA PlannedAlone ==
  ASSUME Gains, NEW r \in Run, Planned(r),
         pc'[r] = pc[r], snapshot'[r] = snapshot[r], todo'[r] = todo[r], table'[r] = table[r],
         halted'[r] = halted[r], failed[r] # {} => failed'[r] # {},
         status'[r] = status[r]
  PROVE  Planned(r)'
<1>1. \A t : (Copied(r, t) => Copied(r, t)') /\ (Blamed(r, t) => Blamed(r, t)')
  BY CopiedStays
<1>2. ToCopy(r)' = ToCopy(r) /\ Ahead(r)' = Ahead(r)
  BY DEF ToCopy, Selected, Ahead, Gains
<1> QED  BY <1>1, <1>2 DEF Planned, Gains

\* The query returns no row only when no row is left above the cursor.
LEMMA NothingUnread ==
  ASSUME TypeOK, NEW r \in Run, Window(r) = {}
  PROVE  Unread(r) = {}
<1> SUFFICES ASSUME Unread(r) # {} PROVE FALSE  OBVIOUS
<1>1. Unread(r) \subseteq RowId  BY DEF Unread, Present
<1> DEFINE Keys == {KeyOf[x] : x \in Unread(r)}
<1>2. Keys \subseteq Nat /\ Keys # {}  BY <1>1, RowsAssumption
<1>3. PICK k \in Keys : \A j \in Keys : ~ (<<j, k>> \in OpToRel(<, Nat))
  BY <1>2, WFMin, NatLessThanWellFounded
<1>4. PICK x \in Unread(r) : KeyOf[x] = k  OBVIOUS
<1>5. ASSUME NEW y \in Unread(r), KeyOf[y] < KeyOf[x] PROVE FALSE
  <2>1. <<KeyOf[y], KeyOf[x]>> \in Nat \X Nat /\ KeyOf[y] \in Keys  BY <1>2, <1>4
  <2> QED  BY <1>3, <1>4, <1>5, <2>1 DEF OpToRel
<1>6. {y \in Unread(r) : KeyOf[y] < KeyOf[x]} = {}  BY <1>5
<1>7. Cardinality({}) = 0  BY FS_EmptySet
<1>8. Cardinality({y \in Unread(r) : KeyOf[y] < KeyOf[x]}) < BatchSize
  BY <1>6, <1>7, RunsAssumption
<1> QED  BY <1>4, <1>8 DEF Window

LEMMA EndTableCopied ==
  ASSUME TypeOK, CoverageInv, NEW r \in Run, EndTable(r)
  PROVE  Copied(r, table[r]) \/ Blamed(r, table[r])
<1> SUFFICES ASSUME ~ Blamed(r, table[r]), NEW x \in Present(snapshot[r]) \ late,
                    TableOf[x] = table[r]
             PROVE  Reached(r, x)
  BY DEF Copied
<1>1. /\ pc[r] = "fetch" /\ Unread(r) = {} /\ Present(written[r]) = {} /\ failed[r] = {}
      /\ ReadCovers(r) /\ SnapshotPrefix(r)
  BY NothingUnread DEF EndTable, CoverageInv, RunInv, BatchCovers
<1>2. x \in RowId /\ KeyOf[x] \in Nat /\ cursor[r] \in Nat
  BY RowsAssumption DEF Present, TypeOK
<1>3. KeyOf[x] <= cursor[r]  BY <1>1, <1>2 DEF Unread
<1>4. Accounted(x)
  <2>1. AccountedIn(r, x)  BY <1>1, <1>2, <1>3 DEF ReadCovers, SnapshotPrefix
  <2>2. \A y \in RowId : Seen(r)[y] = target[y]  BY <1>1 DEF Seen, Present
  <2>3. Replicated(Seen(r), x) => Replicated(target, x)
    BY <1>2, <2>2 DEF Replicated, Merged, Holders, Present
  <2> QED  BY <1>1, <2>1, <2>3 DEF AccountedIn, Accounted
<1> QED  BY <1>4 DEF Accounted, Reached, Blamed

LEMMA AheadTail ==
  ASSUME TypeOK, NEW r \in Run, todo[r] # <<>>, todo'[r] = Tail(todo[r])
  PROVE  Head(todo[r]) \in Table /\ Ahead(r) = {Head(todo[r])} \cup Ahead(r)'
<1>1. todo[r] \in Seq(Table)  BY DEF TypeOK
<1>2. /\ Head(todo[r]) \in Table /\ Head(todo[r]) = todo[r][1] /\ Len(todo[r]) \in Nat \ {0}
      /\ DOMAIN todo[r] = 1 .. Len(todo[r]) /\ DOMAIN Tail(todo[r]) = 1 .. (Len(todo[r]) - 1)
      /\ \A i \in 1 .. (Len(todo[r]) - 1) : Tail(todo[r])[i] = todo[r][i + 1]
  BY <1>1
<1>3. \A i \in 2 .. Len(todo[r]) : i - 1 \in 1 .. (Len(todo[r]) - 1) /\ (i - 1) + 1 = i
  BY <1>2
<1>4. \A i \in 2 .. Len(todo[r]) : todo[r][i] = Tail(todo[r])[i - 1]
  BY <1>2, <1>3
<1>5. Ahead(r) = {todo[r][i] : i \in 1 .. Len(todo[r])}  BY <1>2 DEF Ahead
<1>6. Ahead(r)' = {Tail(todo[r])[i] : i \in 1 .. (Len(todo[r]) - 1)}  BY <1>2 DEF Ahead
<1>8. \A i \in 1 .. (Len(todo[r]) - 1) : i + 1 \in 1 .. Len(todo[r])  BY <1>2
<1>9. Ahead(r) \subseteq {Head(todo[r])} \cup Ahead(r)'
  <2> SUFFICES ASSUME NEW i \in 1 .. Len(todo[r])
               PROVE  todo[r][i] = Head(todo[r]) \/ todo[r][i] \in Ahead(r)'
    BY <1>5
  <2>1. CASE i = 1  BY <1>2, <2>1
  <2>2. CASE i # 1
    <3>1. i \in 2 .. Len(todo[r])  BY <1>2, <2>2
    <3>2. i - 1 \in 1 .. (Len(todo[r]) - 1) /\ todo[r][i] = Tail(todo[r])[i - 1]
      BY <1>3, <1>4, <3>1
    <3> QED  BY <1>6, <3>2
  <2> QED  BY <2>1, <2>2
<1>10. {Head(todo[r])} \cup Ahead(r)' \subseteq Ahead(r)
  BY <1>2, <1>5, <1>6, <1>8
<1> QED  BY <1>2, <1>9, <1>10

LEMMA OpenedAhead ==
  ASSUME TypeOK, NEW r \in Run, OpenSource(r)
  PROVE  /\ Ahead(r)' = Selected(params[r])
         /\ \A i, j \in DOMAIN todo'[r] : i < j =>
              todo'[r][j] \notin Parents[todo'[r][i]] \ Stuck(Parents, Selected(params[r]))
<1>1. PICK o \in Orders(Parents, Selected(params[r])) : todo' = [todo EXCEPT ![r] = o]
  BY DEF OpenSource
<1>2. todo'[r] = o  BY <1>1 DEF TypeOK
<1> QED  BY <1>1, <1>2 DEF Orders, Ahead

LEMMA PlannedNext ==
  TypeOK /\ CoverageInv /\ EntersInv /\ PlannedInv /\ [Next]_vars => PlannedInv'
<1> SUFFICES ASSUME TypeOK, CoverageInv, EntersInv, PlannedInv, [Next]_vars, NEW s \in Run
             PROVE  Planned(s)'
  BY DEF PlannedInv
<1>0. Planned(s) /\ Enters(s) /\ BatchCovers(s) /\ Gains
  BY GainsNext DEF PlannedInv, EntersInv, CoverageInv, RunInv
<1>a. snapshot'[s] = snapshot[s] =>
        \A t : (Copied(s, t) => Copied(s, t)') /\ (Blamed(s, t) => Blamed(s, t)')
  BY <1>0, CopiedStays
<1>b. ToCopy(s)' = ToCopy(s) /\ params' = params
  BY <1>0 DEF ToCopy, Selected, Gains
<1>1. CASE UNCHANGED vars
  BY <1>0, <1>1, PlannedAlone DEF vars, database, local
<1>2. ASSUME NEW x \in RowId, NEW c \in Content[x], SourceWrite(x, c) PROVE Planned(s)'
  BY <1>0, <1>2, PlannedAlone DEF SourceWrite, local
<1>3. ASSUME NEW r \in Run, r # s, StartRun(r) \/ Step(r) \/ SourceLost(r) \/ Die(r)
      PROVE  Planned(s)'
  <2>1. /\ pc'[s] = pc[s] /\ snapshot'[s] = snapshot[s] /\ todo'[s] = todo[s]
        /\ table'[s] = table[s] /\ halted'[s] = halted[s] /\ failed'[s] = failed[s]
        /\ status'[s] = status[s]
    BY ZenonT(60), <1>3
    DEF TypeOK, Step, StartRun, OpenSource, OrderFails, SkipTable, BeginTable, EndTable,
         FetchBatch, FetchPoison, UpsertBatch, FallBack, UpsertRow, SkipRow, RejectRow,
         CommitBatch, Finish, Abort, SourceLost, Die, database, local
  <2> QED  BY <1>0, <2>1, PlannedAlone
<1>4. CASE StartRun(s) \/ OrderFails(s) \/ FetchPoison(s) \/ SourceLost(s) \/ Die(s) \/ Abort(s)
  <2>1. pc[s] # "done" /\ pc'[s] \notin {"next"} \cup Reading /\ status'[s] # "success"
    BY <1>0, <1>4 DEF Planned, TypeOK, StartRun, OrderFails, FetchPoison, SourceLost, Die, Abort,
                      Live, Reading, database
  <2> QED  BY <2>1 DEF Planned, Reading
<1>5. CASE OpenSource(s)
  <2>1. /\ pc[s] = "connect" /\ pc'[s] = "next" /\ status' = status
        /\ Ahead(s)' = Selected(params[s])
    BY <1>5, OpenedAhead DEF OpenSource, TypeOK, database
  <2> QED  BY <1>0, <1>b, <2>1 DEF Planned, ToCopy, Reading
<1>6. CASE SkipTable(s)
  <2>1. /\ pc[s] = "next" /\ pc'[s] = "next" /\ status' = status /\ snapshot' = snapshot
        /\ todo[s] # <<>> /\ todo'[s] = Tail(todo[s]) /\ Head(todo[s]) \in Unsyncable
    BY <1>6 DEF SkipTable, TypeOK, database
  <2> QED  BY <1>0, <1>a, <1>b, <2>1, AheadTail DEF Planned, ToCopy, Reading
<1>7. CASE BeginTable(s)
  <2>1. /\ pc[s] = "next" /\ pc'[s] = "fetch" /\ status' = status /\ snapshot' = snapshot
        /\ todo[s] # <<>> /\ todo'[s] = Tail(todo[s]) /\ table'[s] = Head(todo[s])
        /\ ~ halted'[s]
    BY <1>7 DEF BeginTable, TypeOK, database
  <2> QED  BY <1>0, <1>a, <1>b, <2>1, AheadTail DEF Planned, Reading
<1>8. CASE EndTable(s)
  <2>1. /\ pc[s] = "fetch" /\ pc'[s] = "next" /\ status' = status /\ snapshot' = snapshot
        /\ todo' = todo
    BY <1>8 DEF EndTable, TypeOK, database, local
  <2>2. Copied(s, table[s]) \/ Blamed(s, table[s])  BY <1>8, EndTableCopied
  <2>3. Ahead(s)' = Ahead(s)  BY <2>1 DEF Ahead
  <2> QED  BY <1>0, <1>a, <1>b, <2>1, <2>2, <2>3 DEF Planned, Reading
<1>9. CASE FetchBatch(s) \/ UpsertBatch(s) \/ FallBack(s) \/ UpsertRow(s) \/ SkipRow(s)
           \/ RejectRow(s)
  <2>1. /\ pc[s] \in Reading /\ pc'[s] \in Reading /\ status' = status /\ snapshot' = snapshot
        /\ todo' = todo /\ table' = table
    BY <1>9 DEF FetchBatch, UpsertBatch, FallBack, UpsertRow, SkipRow, RejectRow, TypeOK,
                Reading, database, local
  <2>2. halted'[s] => failed'[s] # {}
    <3>1. CASE FetchBatch(s)
      BY <1>0, <3>1 DEF FetchBatch, Planned, BatchCovers, Reading
    <3>2. CASE UpsertBatch(s) \/ FallBack(s) \/ UpsertRow(s)
      <4>1. halted' = halted /\ failed' = failed
        BY <3>2 DEF UpsertBatch, FallBack, UpsertRow, local
      <4> QED  BY <1>0, <2>1, <4>1 DEF Planned
    <3>3. CASE SkipRow(s) \/ RejectRow(s)
      <4>1. \E x \in batch[s] : \/ failed'[s] = failed[s] \cup {Failure(s, x, SkipCode(s, x))}
                                \/ failed'[s] = failed[s]
                                     \cup {Failure(s, x, "mapped_table_upsert_failed")}
        BY <3>3 DEF SkipRow, RejectRow, TypeOK
      <4> QED  BY <4>1
    <3> QED  BY <1>9, <3>1, <3>2, <3>3
  <2>3. Ahead(s)' = Ahead(s)  BY <2>1 DEF Ahead
  <2> QED  BY <1>0, <1>a, <1>b, <2>1, <2>2, <2>3 DEF Planned, Reading
<1>10. CASE CommitBatch(s)
  <2>1. /\ pc[s] \in Reading /\ status' = status /\ snapshot' = snapshot /\ todo' = todo
        /\ table' = table /\ halted' = halted /\ errors' = errors \cup failed[s]
        /\ pc'[s] = IF \/ params[s].limit > 0 /\ batches[s] + 1 >= params[s].limit
                       \/ halted[s]
                    THEN "next" ELSE "fetch"
    BY <1>10 DEF CommitBatch, TypeOK, Reading
  <2>2. halted[s] => Blamed(s, table[s])'
    BY <1>0, <2>1 DEF Planned, Enters, Blamed
  <2>3. pc'[s] = "next" => halted[s] \/ params[s].limit # 0
    BY <2>1
  <2>4. pc'[s] = "fetch" => ~ halted[s]  BY <2>1
  <2>5. Ahead(s)' = Ahead(s)  BY <2>1 DEF Ahead
  <2>6. pc'[s] \in {"next", "fetch"}  BY <2>1
  <2> QED  BY <1>0, <1>a, <1>b, <2>1, <2>2, <2>3, <2>4, <2>5, <2>6 DEF Planned, Reading
<1>11. CASE Finish(s)
  <2>1. /\ pc[s] = "next" /\ pc'[s] = "done" /\ snapshot' = snapshot /\ Ahead(s) = {}
        /\ status'[s] = "success" => ~ \E e \in errors : e.run = s
    BY <1>11 DEF Finish, TypeOK, Ahead, local
  <2>2. \A t : Blamed(s, t) => status'[s] # "success"  BY <2>1 DEF Blamed
  <2> QED  BY <1>0, <1>a, <1>b, <2>1, <2>2 DEF Planned, Reading
<1> QED
  BY <1>1, <1>2, <1>3, <1>4, <1>5, <1>6, <1>7, <1>8, <1>9, <1>10, <1>11 DEF Next, Step

LEMMA PlannedInvariant == Spec => []PlannedInv
<1>1. Init => PlannedInv  BY DEF Init, PlannedInv, Planned, Reading
<1> QED
  BY <1>1, PlannedNext, TypeCorrect, CoverageInvariant, EntersInvariant, PTL DEF Spec

(* A run without a batch limit that reports "success" has each row of the   *)
(* source it read in order, of the tables it selected, in the target (of    *)
(* translate: it, or its phrase), or another run has recorded the error,    *)
(* whatever other runs do and wherever they die.                            *)
THEOREM SuccessMeansCaughtUp == Spec => []SuccessIsComplete
<1>1. PlannedInv => SuccessIsComplete
  BY RowsAssumption DEF PlannedInv, Planned, ToCopy, Copied, Reached, SuccessIsComplete, Present
<1> QED  BY <1>1, PlannedInvariant, PTL

-----------------------------------------------------------------------------
(* A missing parent has its reason *)

\* Tables that the order places before those that refer to them.
Before(r, t) == Parents[t] \ Stuck(Parents, Selected(params[r]))

\* What is read is a row's own content; the tables that are left come after
\* their parents, and so does the current one.
Placed(r) ==
  /\ \A x \in RowId : source[x] \in Content[x] \cup {NoRow}
                      /\ snapshot[r][x] \in Content[x] \cup {NoRow}
  /\ pc[r] \in {"next"} \cup Reading =>
       \A i, j \in DOMAIN todo[r] : i < j => todo[r][j] \notin Before(r, todo[r][i])
  /\ pc[r] \in Reading => Ahead(r) \cap Before(r, table[r]) = {}
PlacedInv == \A r \in Run : Placed(r)

LEMMA PlacedTail ==
  ASSUME TypeOK, NEW r \in Run, todo[r] # <<>>, todo'[r] = Tail(todo[r]),
         \A i, j \in DOMAIN todo[r] : i < j => todo[r][j] \notin Before(r, todo[r][i])
  PROVE  /\ \A i, j \in DOMAIN todo'[r] : i < j => todo'[r][j] \notin Before(r, todo'[r][i])
         /\ Ahead(r)' \cap Before(r, Head(todo[r])) = {}
<1>1. todo[r] \in Seq(Table)  BY DEF TypeOK
<1>2. /\ Head(todo[r]) = todo[r][1] /\ Len(todo[r]) \in Nat \ {0}
      /\ DOMAIN todo[r] = 1 .. Len(todo[r]) /\ DOMAIN Tail(todo[r]) = 1 .. (Len(todo[r]) - 1)
      /\ \A i \in 1 .. (Len(todo[r]) - 1) : Tail(todo[r])[i] = todo[r][i + 1]
  BY <1>1
<1>3. \A i, j \in 1 .. (Len(todo[r]) - 1) :
        i + 1 \in DOMAIN todo[r] /\ 1 \in DOMAIN todo[r] /\ 1 < i + 1
        /\ (i < j => i + 1 < j + 1)
  BY <1>2
<1>4. ASSUME NEW i \in DOMAIN todo'[r], NEW j \in DOMAIN todo'[r], i < j
      PROVE  todo'[r][j] \notin Before(r, todo'[r][i])
  <2>1. i \in 1 .. (Len(todo[r]) - 1) /\ j \in 1 .. (Len(todo[r]) - 1)  BY <1>2
  <2>2. todo'[r][i] = todo[r][i + 1] /\ todo'[r][j] = todo[r][j + 1]  BY <1>2, <2>1
  <2>3. todo[r][j + 1] \notin Before(r, todo[r][i + 1])  BY <1>3, <1>4, <2>1
  <2> QED  BY <2>2, <2>3
<1>5. ASSUME NEW t \in Ahead(r)' PROVE t \notin Before(r, Head(todo[r]))
  <2>1. PICK i \in DOMAIN todo'[r] : t = todo'[r][i]  BY <1>5 DEF Ahead
  <2>2. i \in 1 .. (Len(todo[r]) - 1) /\ t = todo[r][i + 1]  BY <1>2, <2>1
  <2>3. todo[r][i + 1] \notin Before(r, todo[r][1])  BY <1>3, <2>2
  <2> QED  BY <1>2, <2>2, <2>3
<1> QED  BY <1>4, <1>5

LEMMA PlacedNext == TypeOK /\ CoverageInv /\ PlacedInv /\ [Next]_vars => PlacedInv'
<1> SUFFICES ASSUME TypeOK, CoverageInv, PlacedInv, [Next]_vars, NEW s \in Run
             PROVE  Placed(s)'
  BY DEF PlacedInv
<1>0. Placed(s) /\ params' = params  BY GainsNext DEF PlacedInv, Gains
<1>a. \A t : Before(s, t)' = Before(s, t)  BY <1>0 DEF Before
<1>b. ASSUME UNCHANGED source, snapshot'[s] = snapshot[s], todo'[s] = todo[s],
             table'[s] = table[s],
             pc'[s] \in {"next"} \cup Reading => pc[s] \in {"next"} \cup Reading,
             pc'[s] \in Reading => pc[s] \in Reading
      PROVE  Placed(s)'
  BY <1>0, <1>a, <1>b DEF Placed, Ahead
<1>1. CASE UNCHANGED vars
  BY <1>b, <1>1 DEF vars, database, local
<1>2. ASSUME NEW x \in RowId, NEW c \in Content[x], SourceWrite(x, c) PROVE Placed(s)'
  <2>1. /\ snapshot' = snapshot /\ todo' = todo /\ table' = table /\ pc' = pc
        /\ source' = [source EXCEPT ![x] = c]
    BY <1>2 DEF SourceWrite, local
  <2>2. \A y \in RowId : source'[y] \in Content[y] \cup {NoRow}
    BY <1>0, <2>1 DEF TypeOK, Placed
  <2> QED  BY <1>0, <1>a, <2>1, <2>2 DEF Placed, Ahead
<1>3. ASSUME NEW r \in Run, r # s, StartRun(r) \/ Step(r) \/ SourceLost(r) \/ Die(r)
      PROVE  Placed(s)'
  <2>1. /\ pc'[s] = pc[s] /\ snapshot'[s] = snapshot[s] /\ todo'[s] = todo[s]
        /\ table'[s] = table[s] /\ source' = source
    BY ZenonT(60), <1>3
    DEF TypeOK, Step, StartRun, OpenSource, OrderFails, SkipTable, BeginTable, EndTable,
         FetchBatch, FetchPoison, UpsertBatch, FallBack, UpsertRow, SkipRow, RejectRow,
         CommitBatch, Finish, Abort, SourceLost, Die, database, local
  <2> QED  BY <1>b, <2>1
<1>4. CASE StartRun(s) \/ OrderFails(s) \/ FetchPoison(s) \/ SourceLost(s) \/ Abort(s)
           \/ Finish(s) \/ EndTable(s)
  BY <1>4, <1>b DEF TypeOK, StartRun, OrderFails, FetchPoison, SourceLost, Abort, Finish, EndTable,
     Reading, database, local
<1>5. CASE FetchBatch(s) \/ UpsertBatch(s) \/ FallBack(s) \/ UpsertRow(s) \/ SkipRow(s)
           \/ RejectRow(s) \/ CommitBatch(s)
  <2>1. pc[s] \in Reading
    BY <1>5 DEF FetchBatch, UpsertBatch, FallBack, UpsertRow, SkipRow, RejectRow, CommitBatch,
                Reading
  <2>2. UNCHANGED <<source, snapshot, todo, table>>
    BY <1>5 DEF FetchBatch, UpsertBatch, FallBack, UpsertRow, SkipRow, RejectRow, CommitBatch,
                database, local
  <2> QED  BY <1>b, <2>1, <2>2
<1>6. CASE Die(s)
  <2>1. source' = source /\ snapshot' = snapshot /\ pc'[s] = "dead"
    BY <1>6 DEF Die, TypeOK, database
  <2> QED  BY <1>0, <2>1 DEF Placed, Reading
<1>7. CASE OpenSource(s)
  <2>1. source' = source /\ snapshot'[s] = source /\ pc'[s] = "next"
    BY <1>7 DEF OpenSource, TypeOK, database
  <2> QED  BY <1>0, <1>7, <1>a, <2>1, OpenedAhead DEF Placed, Reading, Before
<1>8. CASE SkipTable(s) \/ BeginTable(s)
  <2>1. /\ pc[s] = "next" /\ source' = source /\ snapshot' = snapshot /\ todo[s] # <<>>
        /\ todo'[s] = Tail(todo[s])
        /\ pc'[s] = "next" \/ table'[s] = Head(todo[s])
    BY <1>8 DEF SkipTable, BeginTable, TypeOK, database
  <2>2. pc'[s] # "next" => table'[s] = Head(todo[s])  BY <2>1
  <2>3. pc'[s] \in {"next", "fetch"}  BY <1>8 DEF SkipTable, BeginTable, TypeOK
  <2>4. \A i, j \in DOMAIN todo[s] : i < j => todo[s][j] \notin Before(s, todo[s][i])
    BY <1>0, <2>1 DEF Placed
  <2>5. /\ \A i, j \in DOMAIN todo'[s] : i < j => todo'[s][j] \notin Before(s, todo'[s][i])
        /\ Ahead(s)' \cap Before(s, Head(todo[s])) = {}
    BY <1>0, <2>1, <2>4, PlacedTail
  <2>6. pc'[s] \in Reading => Ahead(s)' \cap Before(s, table'[s]) = {}
    BY <2>2, <2>3, <2>5 DEF Reading
  <2> QED  BY <1>0, <1>a, <2>1, <2>5, <2>6 DEF Placed, Before
<1> QED
  BY <1>1, <1>2, <1>3, <1>4, <1>5, <1>6, <1>7, <1>8 DEF Next, Step

LEMMA PlacedInvariant == Spec => []PlacedInv
<1>1. Init => PlacedInv
  BY DEF Init, PlacedInv, Placed, Reading, Nothing, Ahead
<1> QED  BY <1>1, PlacedNext, TypeCorrect, CoverageInvariant, PTL DEF Spec

\* What SkipsExplained says of one error, when the errors of E are known.
Explained(e, E) ==
  LET r == e.run
      refs == snapshot[r][e.row].refs
  IN  /\ e.code = "mapped_table_fk_missing_parent"
      /\ params[r].limit = 0
      /\ refs \subseteq Present(snapshot[r])
      /\ {TableOf[y] : y \in refs} \subseteq
           Selected(params[r]) \ (Unsyncable \cup Stuck(Parents, Selected(params[r])))
      => \E y \in refs : \/ y \in late
                         \/ \E f \in E : TableOf[f.row] = TableOf[y]

SkipsInv ==
  /\ \A e \in errors : Explained(e, errors) /\ pc[e.run] \notin {"new", "connect"}
  /\ \A r \in Run : \A e \in failed[r] : Explained(e, errors \cup failed[r])

LEMMA ExplainedStays ==
  ASSUME NEW e \in Error, NEW E, NEW F, E \subseteq F, Explained(e, E),
         snapshot'[e.run] = snapshot[e.run], params' = params, late \subseteq late'
  PROVE  Explained(e, F)'
BY DEF Explained, Selected, Present

\* The parent's table was copied before, or it is the row's own.
LEMMA SkipExplained ==
  ASSUME TypeOK, CoverageInv, PlannedInv, PlacedInv, NEW r \in Run, NEW x \in batch[r],
         pc[r] = "rows", SkipCode(r, x) # "",
         NEW E, errors \subseteq E, Failure(r, x, SkipCode(r, x)) \in E
  PROVE  Explained(Failure(r, x, SkipCode(r, x)), E)
<1> DEFINE e == Failure(r, x, SkipCode(r, x))
           refs == snapshot[r][x].refs
<1>1. e.run = r /\ e.row = x /\ e.code = SkipCode(r, x)  BY DEF Failure
<1> HIDE DEF e
<1> SUFFICES ASSUME SkipCode(r, x) = "mapped_table_fk_missing_parent", params[r].limit = 0,
                    refs \subseteq Present(snapshot[r]),
                    {TableOf[y] : y \in refs} \subseteq
                      Selected(params[r]) \ (Unsyncable \cup Stuck(Parents, Selected(params[r])))
             PROVE  \E y \in refs : y \in late \/ \E f \in E : TableOf[f.row] = TableOf[y]
  BY <1>1 DEF Explained, e
<1>2. /\ BatchCovers(r) /\ ReadCovers(r) /\ Planned(r) /\ Placed(r) /\ pc[r] \in Reading
  BY DEF CoverageInv, RunInv, PlannedInv, PlacedInv, Reading
<1>3. x \in RowId /\ x \in Present(snapshot[r]) /\ TableOf[x] = table[r]
  BY <1>2 DEF BatchCovers, Present
<1>4. ~ (refs \subseteq View(r) \cup {x})
  <2>1. KindOf(r, x) # "badBool"  BY DEF SkipCode
  <2> QED  BY <2>1 DEF SkipCode
<1>5. PICK y \in refs : y \notin Present(Seen(r)) /\ y # x  BY <1>4 DEF View
<1>6. y \in RowId /\ TableOf[y] \in Parents[table[r]] /\ y \in Present(snapshot[r])
  BY <1>2, <1>3, ContentAssumption DEF Placed, Present
<1>12. ~ Replicated(target, y)
  <2>1. TableOf[y] # Translate  BY <1>3, <1>6, StreamsAssumption, RowsAssumption
  <2>2. target[y] = NoRow  BY <1>5, <1>6 DEF Seen, Present
  <2> QED  BY <2>1, <2>2 DEF Replicated, Merged
<1>7. TableOf[y] \in Before(r, table[r]) /\ TableOf[y] \in ToCopy(r)
  BY <1>6 DEF Before, ToCopy
<1>8. TableOf[y] \notin Ahead(r)  BY <1>2, <1>7 DEF Placed
<1>9. CASE TableOf[y] = table[r]
  BY <1>1, <1>3, <1>9 DEF e
<1>10. CASE Blamed(r, TableOf[y])
  BY <1>10 DEF Blamed
<1>11. CASE Copied(r, TableOf[y]) /\ y \notin late
  <2>1. Reached(r, y)  BY <1>6, <1>11 DEF Copied
  <2>2. PICK f \in errors : f.row = y  BY <1>12, <2>1 DEF Reached
  <2> QED  BY <2>2
<1> QED  BY <1>2, <1>7, <1>8, <1>9, <1>10, <1>11 DEF Planned

\* Every error is explained when it is recorded, and what explains it stays.
LEMMA SkipsNext ==
  /\ TypeOK /\ TypeOK' /\ CoverageInv /\ EntersInv /\ PlannedInv /\ PlacedInv /\ SkipsInv
  /\ [Next]_vars
  => SkipsInv'
<1> SUFFICES ASSUME TypeOK, TypeOK', CoverageInv, EntersInv, PlannedInv, PlacedInv, SkipsInv,
                    [Next]_vars
             PROVE  SkipsInv'
  OBVIOUS
<1>0. Gains  BY GainsNext
<1>a. ASSUME NEW e \in Error, NEW E, NEW F, E \subseteq F, Explained(e, E),
             snapshot'[e.run] = snapshot[e.run]
      PROVE  Explained(e, F)'
  BY <1>0, <1>a, ExplainedStays DEF Gains
\* What each step leaves to show.
<1>b. ASSUME \A s \in Run : pc[s] \notin {"new", "connect"} =>
               pc'[s] \notin {"new", "connect"} /\ snapshot'[s] = snapshot[s],
             \A e \in errors' \ errors : \E s \in Run :
               e \in failed[s] /\ failed[s] \subseteq errors' /\ pc[s] \notin {"new", "connect"},
             \A s \in Run : \A e \in failed'[s] :
               \/ e \in failed[s] /\ failed[s] \subseteq failed'[s]
                  /\ snapshot'[s] = snapshot[s]
               \/ Explained(e, errors \cup failed'[s]) /\ snapshot'[s] = snapshot[s] /\ e.run = s
      PROVE  SkipsInv'
  <2>1. ASSUME NEW e \in errors' PROVE Explained(e, errors)' /\ pc'[e.run] \notin {"new", "connect"}
    <3>1. CASE e \in errors
      <4>1. e \in Error /\ e.run \in Run  BY <3>1 DEF TypeOK, Error
      <4>2. Explained(e, errors) /\ pc[e.run] \notin {"new", "connect"}  BY <3>1 DEF SkipsInv
      <4>3. snapshot'[e.run] = snapshot[e.run] /\ pc'[e.run] \notin {"new", "connect"}
        BY <1>b, <4>1, <4>2
      <4>4. errors \subseteq errors'  BY <1>0 DEF Gains
      <4> QED  BY <1>a, <4>1, <4>2, <4>3, <4>4 DEF Explained
    <3>2. CASE e \notin errors
      <4>1. PICK s \in Run : /\ e \in failed[s] /\ failed[s] \subseteq errors'
                             /\ pc[s] \notin {"new", "connect"}
        BY <1>b, <3>2
      <4>2. e \in Error /\ e.run = s  BY <4>1 DEF TypeOK, EntersInv, Enters
      <4>3. Explained(e, errors \cup failed[s])  BY <4>1 DEF SkipsInv
      <4>4. snapshot'[e.run] = snapshot[e.run] /\ pc'[e.run] \notin {"new", "connect"}
        BY <1>b, <4>1, <4>2
      <4>5. errors \cup failed[s] \subseteq errors'  BY <1>0, <4>1 DEF Gains
      <4> QED  BY ZenonT(60), <1>a, <4>2, <4>3, <4>4, <4>5 DEF Explained
    <3> QED  BY <3>1, <3>2
  <2>2. ASSUME NEW s \in Run, NEW e \in failed'[s] PROVE Explained(e, errors \cup failed[s])'
    <3>1. e \in Error /\ errors \subseteq errors'  BY <1>0 DEF TypeOK, Gains
    <3>2. CASE e \in failed[s] /\ failed[s] \subseteq failed'[s] /\ snapshot'[s] = snapshot[s]
      <4>1. Explained(e, errors \cup failed[s]) /\ e.run = s
        BY <3>2 DEF SkipsInv, EntersInv, Enters
      <4>2. errors \cup failed[s] \subseteq errors' \cup failed'[s]  BY <3>1, <3>2
      <4> QED  BY ZenonT(60), <1>a, <3>1, <3>2, <4>1, <4>2 DEF Explained
    <3>3. CASE Explained(e, errors \cup failed'[s]) /\ snapshot'[s] = snapshot[s] /\ e.run = s
      <4>1. errors \cup failed'[s] \subseteq errors' \cup failed'[s]  BY <3>1
      <4> QED  BY ZenonT(60), <1>a, <3>1, <3>3, <4>1 DEF Explained
    <3> QED  BY <1>b, <3>2, <3>3
  <2> QED  BY <2>1, <2>2 DEF SkipsInv
<1>1. CASE UNCHANGED vars
  BY <1>1, <1>b DEF vars, database, local
<1>2. ASSUME NEW x \in RowId, NEW c \in Content[x], SourceWrite(x, c) PROVE SkipsInv'
  BY <1>2, <1>b DEF SourceWrite, local
<1>3. ASSUME NEW r \in Run, \/ StartRun(r) \/ OrderFails(r) \/ SkipTable(r) \/ BeginTable(r)
                            \/ EndTable(r) \/ UpsertBatch(r) \/ FallBack(r) \/ UpsertRow(r)
                            \/ Finish(r) \/ SourceLost(r) \/ Die(r)
      PROVE  SkipsInv'
  <2>1. errors' = errors /\ snapshot' = snapshot
    BY <1>3 DEF StartRun, OrderFails, SkipTable, BeginTable, EndTable, UpsertBatch, FallBack,
       UpsertRow, Finish, SourceLost, Die, database, local
  <2>2. \A s \in Run : failed'[s] \in {failed[s], {}}
    BY <1>3 DEF StartRun, OrderFails, SkipTable, BeginTable, EndTable, UpsertBatch, FallBack,
       UpsertRow, Finish, SourceLost, Die, TypeOK, database, local
  <2>3. \A s \in Run : pc[s] \notin {"new", "connect"} => pc'[s] \notin {"new", "connect"}
    BY ZenonT(60), <1>3
    DEF StartRun, OrderFails, SkipTable, BeginTable, EndTable, UpsertBatch, FallBack,
       UpsertRow, Finish, SourceLost, Die, TypeOK, database, local
  <2> QED  BY <1>b, <2>1, <2>2, <2>3
<1>4. ASSUME NEW r \in Run, OpenSource(r) PROVE SkipsInv'
  <2>1. /\ errors' = errors /\ failed' = failed /\ pc[r] = "connect" /\ pc'[r] = "next"
        /\ failed[r] = {}
        /\ \A s \in Run \ {r} : snapshot'[s] = snapshot[s] /\ pc'[s] = pc[s]
    BY <1>4 DEF OpenSource, TypeOK, CoverageInv, RunInv, BatchCovers, database
  <2> QED  BY <1>b, <2>1
<1>5. ASSUME NEW r \in Run, FetchBatch(r) \/ FetchPoison(r) PROVE SkipsInv'
  <2>1. /\ errors' = errors /\ snapshot' = snapshot /\ pc[r] = "fetch"
        /\ pc'[r] \in {"upsert", "commit", "abort"}
        /\ failed'[r] = {Failure(r, x, "invalid_source_pk") : x \in Unparsed(r)}
        /\ \A s \in Run \ {r} : failed'[s] = failed[s] /\ pc'[s] = pc[s]
    BY <1>5 DEF FetchBatch, FetchPoison, TypeOK, database
  <2>2. \A e \in failed'[r] : e.run = r /\ Explained(e, errors \cup failed'[r])
    BY <2>1 DEF Failure, Explained
  <2> QED  BY <1>b, <2>1, <2>2
<1>6. ASSUME NEW r \in Run, SkipRow(r) PROVE SkipsInv'
  <2>1. PICK x \in batch[r] :
          SkipCode(r, x) # "" /\ failed'[r] = failed[r] \cup {Failure(r, x, SkipCode(r, x))}
    BY ZenonT(60), <1>6 DEF SkipRow, TypeOK
  <2>2. /\ errors' = errors /\ snapshot' = snapshot /\ pc' = pc /\ pc[r] = "rows"
        /\ \A s \in Run \ {r} : failed'[s] = failed[s]
    <3>1. failed' = [failed EXCEPT ![r] = failed'[r]]  BY <1>6 DEF SkipRow, TypeOK
    <3>2. pc[r] = "rows" /\ UNCHANGED <<database, snapshot, pc>>  BY <1>6 DEF SkipRow
    <3> QED  BY <3>1, <3>2 DEF TypeOK, database
  <2>3. Explained(Failure(r, x, SkipCode(r, x)), errors \cup failed'[r])
    BY <2>1, <2>2, SkipExplained
  <2>4. Failure(r, x, SkipCode(r, x)).run = r  BY DEF Failure
  <2> QED  BY <1>b, <2>1, <2>2, <2>3, <2>4
<1>7. ASSUME NEW r \in Run, RejectRow(r) PROVE SkipsInv'
  <2>1. PICK x \in batch[r] :
          failed'[r] = failed[r] \cup {Failure(r, x, "mapped_table_upsert_failed")}
    BY <1>7 DEF RejectRow, TypeOK
  <2>2. /\ errors' = errors /\ snapshot' = snapshot /\ pc' = pc
        /\ \A s \in Run \ {r} : failed'[s] = failed[s]
    BY <1>7 DEF RejectRow, TypeOK, database
  <2>3. /\ Explained(Failure(r, x, "mapped_table_upsert_failed"), errors \cup failed'[r])
        /\ Failure(r, x, "mapped_table_upsert_failed").run = r
    BY DEF Failure, Explained
  <2> QED  BY <1>b, <2>1, <2>2, <2>3
<1>8. ASSUME NEW r \in Run, CommitBatch(r) \/ Abort(r) PROVE SkipsInv'
  <2>1. /\ errors' = errors \cup failed[r] /\ failed'[r] = {} /\ snapshot' = snapshot
        /\ pc[r] \notin {"new", "connect"} /\ pc'[r] \in {"next", "fetch", "done"}
        /\ \A s \in Run \ {r} : failed'[s] = failed[s] /\ pc'[s] = pc[s]
    BY <1>8 DEF CommitBatch, Abort, TypeOK
  <2> QED  BY <1>b, <2>1
<1> QED
  BY <1>1, <1>2, <1>3, <1>4, <1>5, <1>6, <1>7, <1>8 DEF Next, Step

(* A child that a full run drops for a missing parent has that parent in    *)
(* the source: an error of the parent's table, or a parent that appeared    *)
(* late, tells why; the order of the tables never does.                     *)
THEOREM SkipsHaveReasons == Spec => []SkipsExplained
<1>1. Init => SkipsInv  BY DEF Init, SkipsInv
<1>2. SkipsInv => SkipsExplained  BY DEF SkipsInv, Explained, SkipsExplained
<1> QED
  BY <1>1, <1>2, SkipsNext, TypeCorrect, CoverageInvariant, EntersInvariant, PlannedInvariant,
     PlacedInvariant, PTL DEF Spec

-----------------------------------------------------------------------------
(* One run at a time loses nothing *)

\* But in translate, a run writes each row with its own content.
Own(r) ==
  \A y \in RowId : TableOf[y] # Translate /\ written[r][y] # NoRow =>
                     written[r][y] = snapshot[r][y]
OwnInv == \A r \in Run : Own(r)

LEMMA OwnUpsert ==
  ASSUME TypeOK, NEW r \in Run, NEW S \in SUBSET batch[r], Own(r),
         written'[r] = Upserted(r, S), snapshot' = snapshot
  PROVE  Own(r)'
<1> SUFFICES ASSUME NEW y \in RowId, TableOf[y] # Translate, written'[r][y] # NoRow
             PROVE  written'[r][y] = snapshot[r][y]
  BY DEF Own
<1>1. \A x \in S : y \in Slots(r, x) => x = y
  <2> SUFFICES ASSUME NEW x \in S, y \in Slots(r, x) PROVE x = y  OBVIOUS
  <2>1. x \in RowId  BY DEF TypeOK
  <2> QED  BY <2>1, SlotsAre DEF Holders
<1>2. CASE \E x \in S : y \in Slots(r, x)
  <2> DEFINE w == CHOOSE x \in S : y \in Slots(r, x)
  <2>1. w \in S /\ y \in Slots(r, w)  BY <1>2
  <2>2. written'[r][y] = snapshot[r][w]  BY <1>2 DEF Upserted
  <2> HIDE DEF w
  <2> QED  BY <1>1, <2>1, <2>2
<1>3. CASE ~ \E x \in S : y \in Slots(r, x)
  BY <1>3 DEF Upserted, Own
<1> QED  BY <1>2, <1>3

LEMMA OwnNext == TypeOK /\ CoverageInv /\ OwnInv /\ [Next]_vars => OwnInv'
<1> SUFFICES ASSUME TypeOK, CoverageInv, OwnInv, [Next]_vars, NEW s \in Run PROVE Own(s)'
  BY DEF OwnInv
<1>0. Own(s)  BY DEF OwnInv
<1>a. ASSUME written'[s] \in {written[s], Nothing}, snapshot'[s] = snapshot[s] PROVE Own(s)'
  BY <1>0, <1>a DEF Own, Nothing
<1>1. CASE UNCHANGED vars
  BY <1>a, <1>1 DEF vars, local
<1>2. ASSUME NEW x \in RowId, NEW c \in Content[x], SourceWrite(x, c) PROVE Own(s)'
  BY <1>a, <1>2 DEF SourceWrite, local
<1>3. ASSUME NEW r \in Run, StartRun(r) \/ Step(r) \/ SourceLost(r) \/ Die(r),
             ~ OpenSource(r), ~ UpsertBatch(r), ~ UpsertRow(r)
      PROVE  Own(s)'
  <2>1. snapshot' = snapshot /\ written' \in {written, [written EXCEPT ![r] = Nothing]}
    BY <1>3 DEF Step, StartRun, OrderFails, SkipTable, BeginTable, EndTable, FetchBatch,
       FetchPoison, FallBack, SkipRow, RejectRow, CommitBatch, Finish, Abort,
       SourceLost, Die, local
  <2> QED  BY <1>a, <2>1 DEF TypeOK
<1>4. ASSUME NEW r \in Run, OpenSource(r) PROVE Own(s)'
  <2>1. \A x \in RowId : written[r][x] = NoRow
    BY <1>4 DEF OpenSource, CoverageInv, RunInv, BatchCovers, Present
  <2> QED  BY <1>0, <1>4, <2>1 DEF OpenSource, Own, TypeOK
<1>5. ASSUME NEW r \in Run, UpsertBatch(r) \/ UpsertRow(r) PROVE Own(s)'
  <2>1. snapshot' = snapshot /\ \A q \in Run \ {r} : written'[q] = written[q]
    BY <1>5 DEF UpsertBatch, UpsertRow, TypeOK
  <2>2. \E S \in SUBSET batch[r] : written'[r] = Upserted(r, S)
    <3>1. CASE UpsertBatch(r)
      <4>1. written'[r] = Upserted(r, batch[r])  BY <3>1 DEF UpsertBatch, TypeOK
      <4> QED  BY <4>1
    <3>2. CASE UpsertRow(r)
      <4>1. PICK x \in batch[r] : written' = [written EXCEPT ![r] = Upserted(r, {x})]
        BY <3>2 DEF UpsertRow
      <4>2. written'[r] = Upserted(r, {x}) /\ {x} \in SUBSET batch[r]  BY <4>1 DEF TypeOK
      <4> QED  BY <4>2
    <3> QED  BY <1>5, <3>1, <3>2
  <2>3. CASE s = r  BY <1>0, <2>1, <2>2, <2>3, OwnUpsert
  <2>4. CASE s # r  BY <1>a, <2>1, <2>4
  <2> QED  BY <2>3, <2>4
<1> QED  BY <1>1, <1>2, <1>3, <1>4, <1>5 DEF Next, Step

LEMMA OwnInvariant == Spec => []OwnInv
<1>1. Init => OwnInv  BY DEF Init, OwnInv, Own, Nothing
<1> QED  BY <1>1, OwnNext, TypeCorrect, CoverageInvariant, PTL DEF Spec

\* Row x as db has it is there in ec, and not newer than there.
NotNewer(db, ec, x) ==
  TableOf[x] # Translate /\ db[x] # NoRow => ec[x] # NoRow /\ db[x].ver <= ec[x].ver

\* The run that is going reads what it replaces, and starts where it stands.
Alone(r) ==
  /\ \A s \in Run : Live(r) /\ Live(s) => r = s
  /\ \A x \in RowId : NotNewer(snapshot[r], source, x)
  /\ pc[r] \in {"next"} \cup Reading => \A x \in RowId : NotNewer(target, snapshot[r], x)
  /\ pc[r] \in Reading => position[table[r]] <= cursor[r]
  /\ pc[r] = "upsert" => \A b \in batch[r] : cursor[r] <= KeyOf[b]
AloneInv ==
  ~ Overlap => /\ \A x \in RowId : NotNewer(target, source, x)
               /\ \A r \in Run : Alone(r)

LEMMA VersionsAreNumbers == \A c \in Row : c.ver \in Nat
BY ContentAssumption DEF Row

\* A run that is not going is not disturbed.
LEMMA IdleAlone ==
  ASSUME NEW r \in Run, NEW s \in Run, r # s, Alone(s), ~ Live(s), pc'[s] = pc[s],
         snapshot'[s] = snapshot[s], source' = source
  PROVE  Alone(s)'
<1>1. \A x \in RowId : NotNewer(snapshot[s], source, x) => NotNewer(snapshot[s], source, x)'
  BY DEF NotNewer
<1>2. pc[s] \in {"new", "done", "dead"} /\ ~ Live(s)'  BY DEF Live
<1> QED  BY <1>1, <1>2 DEF Alone, Reading

LEMMA AloneRun ==
  ASSUME TypeOK, CoverageInv, OwnInv, ~ Overlap, AloneInv, NEW r \in Run,
         StartRun(r) \/ Step(r) \/ SourceLost(r) \/ Die(r)
  PROVE  /\ Alone(r)'
         /\ \A x \in RowId : NotNewer(target, source, x)' /\ NotNewer(target, target', x)
         /\ \A t \in Table : position[t] <= position'[t]
<1>0. /\ Alone(r) /\ BatchCovers(r) /\ ReadCovers(r)
      /\ \A x \in RowId : NotNewer(target, source, x)
  BY DEF AloneInv, CoverageInv, RunInv
<1>1. source' = source
  BY DEF Step, StartRun, OpenSource, OrderFails, SkipTable, BeginTable,
     EndTable, FetchBatch, FetchPoison, UpsertBatch, FallBack, UpsertRow, SkipRow, RejectRow,
     CommitBatch, Finish, Abort, SourceLost, Die, database, local
<1>2. \A s \in Run \ {r} : pc'[s] = pc[s]
  BY DEF TypeOK, Step, StartRun, OpenSource, OrderFails, SkipTable, BeginTable,
     EndTable, FetchBatch, FetchPoison, UpsertBatch, FallBack, UpsertRow, SkipRow, RejectRow,
     CommitBatch, Finish, Abort, SourceLost, Die, database, local
<1>3. \A s \in Run \ {r} : ~ Live(s)
  <2>1. CASE StartRun(r)  BY <2>1 DEF StartRun
  <2>2. CASE ~ StartRun(r)
    <3>1. Live(r)
      BY <2>2 DEF TypeOK, Live, Step, OpenSource, OrderFails, SkipTable, BeginTable,
         EndTable, FetchBatch, FetchPoison, UpsertBatch, FallBack, UpsertRow, SkipRow, RejectRow,
         CommitBatch, Finish, Abort, SourceLost, Die
    <3> QED  BY <1>0, <3>1 DEF Alone
  <2> QED  BY <2>1, <2>2
<1>4. \A s \in Run : Live(s)' /\ Live(r)' => s = r  BY <1>2, <1>3 DEF Live
<1>5. \A x \in RowId : target[x] # NoRow => target[x].ver \in Nat
  BY VersionsAreNumbers DEF TypeOK
<1>6. \A x \in RowId : snapshot[r][x] # NoRow => snapshot[r][x].ver \in Nat
  BY VersionsAreNumbers DEF TypeOK
<1>7. \A t \in Table : position[t] \in Nat  BY DEF TypeOK
<1>8. CASE CommitBatch(r)
  <2>1. /\ pc[r] \in Reading /\ pc'[r] \in {"next", "fetch"} /\ snapshot' = snapshot
        /\ position' = [position EXCEPT ![table[r]] = cursor[r]] /\ table[r] \in Table
        /\ cursor' = cursor /\ table' = table
        /\ target' = Seen(r)
    BY <1>0, <1>8 DEF CommitBatch, TypeOK, Reading, ReadCovers
  <2>2. position[table[r]] <= cursor[r] /\ cursor[r] \in Nat
    BY <1>0, <2>1 DEF Alone, TypeOK
  <2>3. \A t \in Table : position[t] <= position'[t]
    BY <1>7, <2>1, <2>2 DEF TypeOK
  <2>7. \A x \in RowId : TableOf[x] # Translate =>
          \/ target'[x] = target[x]
          \/ target'[x] = snapshot[r][x] /\ target'[x] # NoRow
    <3>1. Own(r)  BY DEF OwnInv
    <3>2. \A x \in RowId : Seen(r)[x] = IF written[r][x] # NoRow THEN written[r][x]
                                       ELSE target[x]
      BY DEF Seen
    <3> QED  BY <2>1, <3>1, <3>2 DEF Own
  <2>4. \A x \in RowId : /\ NotNewer(target, target', x) /\ NotNewer(target, snapshot[r], x)'
                         /\ NotNewer(target, source, x)'
    BY <1>0, <1>1, <1>5, <1>6, <2>1, <2>7 DEF Alone, NotNewer
  <2>5. \A x \in RowId : NotNewer(snapshot[r], source, x)'
    BY <1>0, <1>1, <2>1 DEF Alone, NotNewer
  <2>6. pc'[r] \in Reading => position'[table'[r]] <= cursor'[r]
    BY <2>1, <2>2 DEF TypeOK
  <2> QED  BY <1>4, <2>1, <2>3, <2>4, <2>5, <2>6 DEF Alone, Reading
<1>9. CASE ~ CommitBatch(r)
  <2>1. target' = target /\ position' = position
    BY <1>9 DEF Step, StartRun, OpenSource, OrderFails, SkipTable, BeginTable,
       EndTable, FetchBatch, FetchPoison, UpsertBatch, FallBack, UpsertRow, SkipRow, RejectRow,
       Finish, Abort, SourceLost, Die, database, local
  <2>2. \A x \in RowId : NotNewer(target, target', x) /\ NotNewer(target, source, x)'
    BY <1>0, <1>1, <1>5, <2>1 DEF NotNewer
  <2>3. \A t \in Table : position[t] <= position'[t]  BY <1>7, <2>1
  <2>4. snapshot'[r] = snapshot[r] => \A x \in RowId :
          /\ NotNewer(snapshot[r], source, x)'
          /\ pc[r] \in {"next"} \cup Reading => NotNewer(target, snapshot[r], x)'
    BY <1>0, <1>1, <2>1 DEF Alone, NotNewer
  <2>5. CASE \/ StartRun(r) \/ OrderFails(r) \/ FetchPoison(r) \/ Finish(r) \/ Abort(r)
             \/ SourceLost(r) \/ Die(r)
    <3>1. pc'[r] \notin {"next"} \cup Reading /\ snapshot' = snapshot
      BY <2>5 DEF TypeOK, StartRun, OrderFails, FetchPoison, Finish, Abort, SourceLost, Die,
                  Reading, local
    <3> QED  BY <1>4, <2>2, <2>3, <2>4, <3>1 DEF Alone, Reading
  <2>6. CASE OpenSource(r)
    <3>1. pc'[r] = "next" /\ snapshot'[r] = source  BY <2>6 DEF OpenSource, TypeOK
    <3>2. \A x \in RowId : source[x] # NoRow => source[x].ver \in Nat
      BY VersionsAreNumbers DEF TypeOK
    <3>3. \A x \in RowId : NotNewer(snapshot[r], source, x)' /\ NotNewer(target, snapshot[r], x)'
      BY <1>0, <1>1, <2>1, <3>1, <3>2 DEF NotNewer
    <3> QED  BY <1>4, <2>2, <2>3, <3>1, <3>3 DEF Alone, Reading
  <2>7. CASE SkipTable(r) \/ EndTable(r)
    <3>1. pc'[r] = "next" /\ pc[r] \in {"next"} \cup Reading /\ snapshot' = snapshot
      BY <2>7 DEF SkipTable, EndTable, TypeOK, Reading, local
    <3> QED  BY <1>4, <2>2, <2>3, <2>4, <3>1 DEF Alone, Reading
  <2>8. CASE BeginTable(r)
    <3>1. /\ pc[r] = "next" /\ pc'[r] = "fetch" /\ snapshot' = snapshot
          /\ cursor'[r] = position[table'[r]] /\ table'[r] \in Table
      BY <2>8 DEF BeginTable, TypeOK, StoredCursor
    <3>2. position'[table'[r]] <= cursor'[r]  BY <1>7, <2>1, <3>1
    <3> QED  BY <1>4, <2>2, <2>3, <2>4, <3>1, <3>2 DEF Alone, Reading
  <2>9. CASE FetchBatch(r)
    <3>1. /\ pc[r] = "fetch" /\ pc'[r] \in {"upsert", "commit"} /\ snapshot' = snapshot
          /\ cursor' = cursor /\ table' = table
      BY <2>9 DEF FetchBatch, TypeOK
    <3>2. batch'[r] \subseteq Window(r)  BY <2>9 DEF FetchBatch, TypeOK
    <3>3. \A b \in batch'[r] : cursor[r] <= KeyOf[b]
      <4>1. \A b \in Window(r) : b \in RowId /\ KeyOf[b] > cursor[r]
        BY DEF Window, Unread, Present
      <4>2. \A b \in RowId : KeyOf[b] \in Nat  BY RowsAssumption
      <4>3. cursor[r] \in Nat  BY DEF TypeOK
      <4> QED  BY <3>2, <4>1, <4>2, <4>3
    <3> QED  BY <1>0, <1>4, <2>1, <2>2, <2>3, <2>4, <3>1, <3>3 DEF Alone, Reading
  <2>10. CASE UpsertBatch(r) \/ FallBack(r) \/ UpsertRow(r) \/ SkipRow(r) \/ RejectRow(r)
    <3>1. /\ pc[r] \in Reading /\ pc'[r] \in Reading \ {"upsert"} /\ snapshot' = snapshot
          /\ table' = table
      BY <2>10 DEF UpsertBatch, FallBack, UpsertRow, SkipRow, RejectRow, TypeOK, Reading, local
    <3>2. position[table[r]] <= cursor[r] /\ cursor[r] \in Nat
          /\ position[table[r]] \in Nat
      BY <1>0, <1>7, <3>1 DEF Alone, TypeOK, Reading, ReadCovers
    <3>3. cursor'[r] \in Nat /\ cursor[r] <= cursor'[r]
      <4>1. CASE UpsertBatch(r)
        <5>1. \E last \in batch[r] : cursor'[r] = KeyOf[last]
          BY <4>1 DEF UpsertBatch, TypeOK
        <5>2. \A b \in batch[r] : cursor[r] <= KeyOf[b] /\ KeyOf[b] \in Nat
          BY <1>0, <4>1, RowsAssumption DEF UpsertBatch, Alone, TypeOK
        <5> QED  BY <5>1, <5>2
      <4>2. CASE UpsertRow(r) \/ SkipRow(r)
        <5>1. \E x \in batch[r] : cursor'[r] = Later(cursor[r], KeyOf[x])
          BY <4>2 DEF UpsertRow, SkipRow, TypeOK
        <5>2. \A b \in batch[r] : KeyOf[b] \in Nat  BY RowsAssumption DEF TypeOK
        <5> QED  BY <3>2, <5>1, <5>2 DEF Later
      <4>3. CASE FallBack(r) \/ RejectRow(r)
        <5>1. cursor' = cursor  BY <4>3 DEF FallBack, RejectRow, local
        <5> QED  BY <3>2, <5>1
      <4> QED  BY <2>10, <4>1, <4>2, <4>3
    <3>4. position'[table'[r]] <= cursor'[r]  BY <2>1, <3>1, <3>2, <3>3
    <3> QED  BY <1>4, <2>2, <2>3, <2>4, <3>1, <3>4 DEF Alone
  <2> QED  BY <1>9, <2>5, <2>6, <2>7, <2>8, <2>9, <2>10 DEF Step
<1> QED  BY <1>8, <1>9

LEMMA AloneSource ==
  ASSUME TypeOK, ~ Overlap, AloneInv, NEW x \in RowId, NEW c \in Content[x], SourceWrite(x, c)
  PROVE  /\ AloneInv'
         /\ \A t \in Table : position[t] <= position'[t]
         /\ \A y \in RowId : NotNewer(target, target', y)
<1>1. /\ source' = [source EXCEPT ![x] = c] /\ c \in Row /\ c # NoRow
      /\ source[x] # NoRow => c.ver > source[x].ver
      /\ UNCHANGED <<target, position, pc, local>>
  BY ContentType, ContentAssumption DEF SourceWrite
<1>2. \A y \in RowId : source[y] # NoRow =>
        source'[y] # NoRow /\ source[y].ver <= source'[y].ver
        /\ source[y].ver \in Nat /\ source'[y].ver \in Nat
  BY <1>1, VersionsAreNumbers DEF TypeOK
<1>3. \A y \in RowId : target[y] # NoRow => target[y].ver \in Nat
  BY VersionsAreNumbers DEF TypeOK
<1>4. \A s \in Run, y \in RowId : snapshot[s][y] # NoRow => snapshot[s][y].ver \in Nat
  BY VersionsAreNumbers DEF TypeOK
<1>5. \A y \in RowId : NotNewer(target, source, y)' /\ NotNewer(target, target', y)
  BY <1>1, <1>2, <1>3 DEF AloneInv, NotNewer
<1>6. \A s \in Run, y \in RowId : NotNewer(snapshot[s], source, y)'
  BY <1>1, <1>2, <1>4 DEF AloneInv, Alone, NotNewer, local
<1>7. ASSUME NEW s \in Run PROVE Alone(s)'
  BY <1>1, <1>6 DEF AloneInv, Alone, NotNewer, Live, local
<1>8. \A t \in Table : position[t] <= position'[t]  BY <1>1 DEF TypeOK
<1> QED  BY <1>5, <1>7, <1>8 DEF AloneInv

LEMMA AloneNext ==
  TypeOK /\ CoverageInv /\ OwnInv /\ AloneInv /\ [Next]_vars =>
    /\ AloneInv'
    /\ ~ Overlap => /\ \A t \in Table : position[t] <= position'[t]
                    /\ \A x \in RowId : NotNewer(target, target', x)
<1> SUFFICES ASSUME TypeOK, CoverageInv, OwnInv, AloneInv, [Next]_vars, ~ Overlap
             PROVE  /\ AloneInv'
                    /\ \A t \in Table : position[t] <= position'[t]
                    /\ \A x \in RowId : NotNewer(target, target', x)
  BY DEF AloneInv
<1>1. CASE UNCHANGED vars
  <2>1. UNCHANGED <<source, target, position, pc, snapshot, table, cursor, batch>>
    BY <1>1 DEF vars, database, local
  <2>2. \A x \in RowId : target[x] # NoRow => target[x].ver \in Nat
    BY VersionsAreNumbers DEF TypeOK
  <2>3. \A s \in Run : Alone(s)'
    BY <2>1 DEF AloneInv, Alone, NotNewer, Live
  <2>4. \A x \in RowId : NotNewer(target, source, x)'
    BY <2>1 DEF AloneInv, NotNewer
  <2> QED  BY <2>1, <2>2, <2>3, <2>4 DEF AloneInv, NotNewer, TypeOK
<1>2. ASSUME NEW x \in RowId, NEW c \in Content[x], SourceWrite(x, c)
      PROVE  /\ AloneInv'
             /\ \A t \in Table : position[t] <= position'[t]
             /\ \A y \in RowId : NotNewer(target, target', y)
  BY <1>2, AloneSource
<1>3. ASSUME NEW r \in Run, StartRun(r) \/ Step(r) \/ SourceLost(r) \/ Die(r)
      PROVE  /\ AloneInv'
             /\ \A t \in Table : position[t] <= position'[t]
             /\ \A x \in RowId : NotNewer(target, target', x)
  <2>1. /\ Alone(r)'
        /\ \A x \in RowId : NotNewer(target, source, x)' /\ NotNewer(target, target', x)
        /\ \A t \in Table : position[t] <= position'[t]
    BY <1>3, AloneRun
  <2>2. ASSUME NEW s \in Run \ {r} PROVE Alone(s)'
    <3>1. ~ Live(s) \/ ~ StartRun(r)  BY DEF StartRun
    <3>2. StartRun(r) \/ Live(r)
      BY <1>3 DEF TypeOK, Live, Step, OpenSource, OrderFails, SkipTable, BeginTable,
         EndTable, FetchBatch, FetchPoison, UpsertBatch, FallBack, UpsertRow, SkipRow, RejectRow,
         CommitBatch, Finish, Abort, SourceLost, Die
    <3>3. ~ Live(s) /\ Alone(s)  BY <3>1, <3>2 DEF AloneInv, Alone
    <3>4. source' = source /\ pc'[s] = pc[s] /\ snapshot'[s] = snapshot[s]
      BY <1>3 DEF TypeOK, Step, StartRun, OpenSource, OrderFails, SkipTable, BeginTable,
         EndTable, FetchBatch, FetchPoison, UpsertBatch, FallBack, UpsertRow, SkipRow, RejectRow,
         CommitBatch, Finish, Abort, SourceLost, Die, database, local
    <3> QED  BY <3>3, <3>4, IdleAlone
  <2> QED  BY <2>1, <2>2 DEF AloneInv
<1> QED  BY <1>1, <1>2, <1>3 DEF Next

(* With runs one at a time, whatever dies and restarts, a stored cursor     *)
(* only moves up and a replicated row is only replaced by a newer content   *)
(* (outside translate, whose rows take the columns of several).  And        *)
(* however runs overlap, no target row is lost and one of translate keeps   *)
(* its phrase.                                                              *)
THEOREM NothingGoesBack == Spec => NoRegression
<1>1. Init => AloneInv
  BY DEF Init, AloneInv, Alone, NotNewer, Live, Reading, Nothing
<1>2. TypeOK /\ TypeOK' /\ (~ Overlap => /\ \A t \in Table : position[t] <= position'[t]
                                         /\ \A x \in RowId : NotNewer(target, target', x))
      => (~ Overlap => /\ \A t \in Table : position'[t] >= position[t]
                       /\ \A x \in Present(target) :
                            TableOf[x] # Translate => target'[x].ver >= target[x].ver)
  <2> SUFFICES ASSUME TypeOK, TypeOK', ~ Overlap,
                      \A t \in Table : position[t] <= position'[t],
                      \A x \in RowId : NotNewer(target, target', x)
               PROVE  /\ \A t \in Table : position'[t] >= position[t]
                      /\ \A x \in Present(target) :
                           TableOf[x] # Translate => target'[x].ver >= target[x].ver
    OBVIOUS
  <2>1. \A c \in Row : c.ver \in Nat  BY VersionsAreNumbers
  <2> QED  BY <2>1 DEF TypeOK, NotNewer, Present
<1>3. Gains => \A x \in Present(target) :
        /\ target'[x] # NoRow
        /\ TableOf[x] = Translate => target'[x].phrase = target[x].phrase
  BY DEF Gains, Keeps, Present
<1>4. TypeOK /\ TypeOK' /\ CoverageInv /\ OwnInv /\ AloneInv /\ [Next]_vars =>
        /\ ~ Overlap =>
              /\ \A t \in Table : position'[t] >= position[t]
              /\ \A x \in Present(target) :
                   TableOf[x] # Translate => target'[x].ver >= target[x].ver
        /\ \A x \in Present(target) :
             /\ target'[x] # NoRow
             /\ TableOf[x] = Translate => target'[x].phrase = target[x].phrase
  BY <1>2, <1>3, AloneNext, GainsNext
<1> QED
  BY <1>1, <1>4, AloneNext, TypeCorrect, CoverageInvariant, OwnInvariant, PTL
     DEF Spec, NoRegression

===============================================================================

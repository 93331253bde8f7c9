--------------------------- MODULE MappedTableSync ---------------------------
(***************************************************************************)
(* The mapped-table sync: ToonLahmajoMappedTableSync.run and _sync_table   *)
(* of app/sync/mapped_table_sync.py.                                       *)
(*                                                                         *)
(* A run copies rows of the MySQL source into PostgreSQL, table by table,  *)
(* parents before children, in batches ordered by primary key.  After each *)
(* batch it commits, in ONE transaction, the rows written, the sync_errors *)
(* recorded and the stream's sync_state.last_cursor; the next batch, and   *)
(* the next run, read only the rows above that cursor.  Several runs may   *)
(* overlap (nothing locks a stream), any of them may die between two       *)
(* steps, and the source keeps changing underneath.                        *)
(*                                                                         *)
(* A row is an identity in RowId; its content is one of Content[x]:        *)
(*   kind "ok"       PostgreSQL takes it once its refs are there;          *)
(*   kind "badBool"  a boolean column PostgreSQL refuses;                  *)
(*   kind "reject"   any other refusal of the database;                    *)
(*   kind "poison"   _normalize_payload_for_target raises on it;           *)
(*   kind "badPk"    _safe_int cannot parse its primary key.               *)
(* A target row has the key of a source row, and all tables but one keep   *)
(* every row under its own key.  The table `translate` does not: PostgreSQL *)
(* keeps one row for each phrase (its column `string`), the source has     *)
(* several ids for one phrase, and the sync merges them into the row that  *)
(* holds the phrase.                                                       *)
(***************************************************************************)
EXTENDS Integers, Sequences, FiniteSets, TableOrders

CONSTANTS
  Table,      \* the mapped tables; a table has one stream, table:<src_table>
  Parents,    \* [Table -> SUBSET Table]: tables its foreign keys refer to
  Unsyncable, \* tables _sync_table returns from before reading any row
  Translate,  \* the table `translate`, or NoTable when it is not mapped
  RowId,      \* every row the source may ever hold
  TableOf,    \* [RowId -> Table]
  KeyOf,      \* [RowId -> positive integer]: the source primary key
  Content,    \* [RowId -> set of contents the source may give the row]
  Run,        \* the sync_runs rows that may ever be created
  Params,     \* the command lines: [include, exclude : tables, limit : Nat]
  BatchSize,  \* LIMIT of the source query
  Overlap,    \* TRUE iff a run may be started while another is going
  NoRow,      \* a row that is not there
  NoTable     \* a run that has no current table; no table

Kinds == {"ok", "badBool", "reject", "poison", "badPk"}
Codes == {"invalid_source_pk", "mapped_table_fk_missing_parent",
          "mapped_table_invalid_boolean", "mapped_table_upsert_failed"}
Row   == UNION {Content[x] : x \in RowId}
Error == [run : Run, row : RowId, code : Codes]

ASSUME StreamsAssumption ==
  /\ IsFiniteSet(Table)
  /\ Parents \in [Table -> SUBSET Table]
  /\ Unsyncable \subseteq Table
  /\ NoTable \notin Table
  /\ Translate \in Table \cup {NoTable}
  /\ \A t \in Table : Translate \notin Parents[t]
ASSUME RowsAssumption ==
  /\ IsFiniteSet(RowId)
  /\ TableOf \in [RowId -> Table]
  /\ KeyOf \in [RowId -> Nat \ {0}]
  /\ \A x, y \in RowId :
       TableOf[x] = TableOf[y] /\ KeyOf[x] = KeyOf[y] => x = y
ASSUME ContentAssumption ==
  /\ DOMAIN Content = RowId
  /\ NoRow \notin Row
  /\ \A x \in RowId : \A c \in Content[x] :
       /\ c.kind \in Kinds /\ c.ver \in Nat
       /\ c.refs \subseteq {y \in RowId : TableOf[y] \in Parents[TableOf[x]]}
ASSUME RunsAssumption ==
  /\ \A p \in Params : /\ p.include \subseteq Table
                       /\ p.exclude \subseteq Table
                       /\ p.limit \in Nat       \* 0: no --max-batches-per-table
  /\ BatchSize \in Nat \ {0}
  /\ Overlap \in BOOLEAN

VARIABLES
  source,    \* the source database: [RowId -> Row \cup {NoRow}]
  late,      \* history: rows that appeared below a larger key of their table
  target,    \* the synchronised tables: [RowId -> Row \cup {NoRow}]
  position,  \* sync_state.last_cursor of each stream (no row yet: 0)
  errors,    \* the sync_errors rows
  status,    \* sync_runs.status of each run ("none": not created)
  pc,        \* where each run is
  params,    \* the command line of each run
  snapshot,  \* what the run's source transaction reads (REPEATABLE READ)
  todo,      \* tables left, in foreign-key order
  table,     \* the current mapping
  cursor,    \* local variable cursor of _sync_table
  batches,   \* local variable batches_processed (counted under a limit)
  batch,     \* row_context: parsed rows of the batch not yet dealt with
  written,   \* what the open transaction has put in target rows, else NoRow
  failed,    \* errors recorded in the open transaction
  halted     \* stop_due_to_row_failure

database == <<source, late, target, position, errors, status>>
local    == <<params, snapshot, todo, table, cursor, batches, batch,
              written, failed, halted>>
vars     == <<database, pc, local>>

-----------------------------------------------------------------------------
(* Helpers *)

Nothing == [x \in RowId |-> NoRow]
Present(db) == {x \in RowId : db[x] # NoRow}

\* _filter_mappings: an empty include list selects every mapping.
Selected(p) == (IF p.include = {} THEN Table ELSE p.include) \ p.exclude

\* _stream_cursor; its mutant forgets what earlier runs stored.
NoStoredCursor(t) == 0
StoredCursor(t) == position[t]

\* Mutants of Unread: > pk taken for >= pk, and for > pk + 1.
UnreadAgain(r) == {x \in Present(snapshot[r]) :
                     TableOf[x] = table[r] /\ KeyOf[x] >= cursor[r]}
UnreadPast(r) == {x \in Present(snapshot[r]) :
                    TableOf[x] = table[r] /\ KeyOf[x] > cursor[r] + 1}

\* Rows of the current table above the cursor, and the first BatchSize of them.
Unread(r) == {x \in Present(snapshot[r]) :
                TableOf[x] = table[r] /\ KeyOf[x] > cursor[r]}
Window(r) == {x \in Unread(r) :
                Cardinality({y \in Unread(r) : KeyOf[y] < KeyOf[x]}) < BatchSize}

KindOf(r, x) == snapshot[r][x].kind
Poisoned(r)  == {x \in Window(r) : KindOf(r, x) = "poison"}
\* Rows whose key does not parse, up to the first row that raises.
Unparsed(r)  == {x \in Window(r) : /\ KindOf(r, x) = "badPk"
                                   /\ \A y \in Poisoned(r) : KeyOf[x] < KeyOf[y]}

\* What the open transaction of run r sees of the synchronised tables.
Seen(r) == [y \in RowId |-> IF written[r][y] # NoRow THEN written[r][y] ELSE target[y]]

\* The rows of translate that hold the phrase of content c.
Holders(db, c) == {y \in Present(db) : TableOf[y] = Translate /\ db[y].phrase = c.phrase}

\* Mutant of Slots: every table is upserted ON CONFLICT on its primary key.
OwnSlot(r, x) == {x}

\* _upsert_conflict_columns: the target row an upsert of x writes.  It is the
\* row of x's key, but in translate the row that holds x's phrase; x gets a
\* row of its own only when there is none.  Then its key must be free.
Slots(r, x) ==
  LET held == Holders(Seen(r), snapshot[r][x])
  IN  IF TableOf[x] # Translate THEN {x}
      ELSE IF held # {} THEN held ELSE {x} \ Present(Seen(r))

\* The upsert of x waits for another transaction that has written the row, or
\* the phrase.
Waits(r, x) ==
  \E s \in Run \ {r} :
    \/ Slots(r, x) \cap Present(written[s]) # {}
    \/ TableOf[x] = Translate /\ Holders(written[s], snapshot[r][x]) # {}

\* ON CONFLICT DO UPDATE writes no row twice in one statement.
OnePhraseEach(r, S) ==
  \A x, y \in S : TableOf[x] = Translate /\ TableOf[y] = Translate /\ x # y =>
                    snapshot[r][x].phrase # snapshot[r][y].phrase

\* The database takes the rows S from run r in one statement, now.
View(r) == Present(Seen(r))
Accepts(r, S) ==
  /\ OnePhraseEach(r, S)
  /\ \A x \in S : /\ KindOf(r, x) = "ok"
                  /\ snapshot[r][x].refs \subseteq View(r) \cup S
                  /\ Slots(r, x) # {} /\ ~ Waits(r, x)

\* _upsert_payload_batch: the open transaction of r after an upsert of S.  The
\* key and the phrase of a row that is there stay, every other column is set.
Upserted(r, S) ==
  [y \in RowId |-> IF \E x \in S : y \in Slots(r, x)
                   THEN snapshot[r][CHOOSE x \in S : y \in Slots(r, x)]
                   ELSE written[r][y]]

\* Mutant of SkipCode: the SQLSTATE itself, which is no error code of the sync.
RawSkipCode(r, x) == IF KindOf(r, x) = "badBool" THEN "22P02" ELSE ""

\* _classify_skippable_row_error, for a row sent alone ("" stands for None).
SkipCode(r, x) ==
  CASE KindOf(r, x) = "badBool" -> "mapped_table_invalid_boolean"
    [] KindOf(r, x) = "ok" /\ ~ snapshot[r][x].refs \subseteq View(r) \cup {x}
         -> "mapped_table_fk_missing_parent"
    [] OTHER -> ""

Later(c, k) == IF k > c THEN k ELSE c
Failure(r, x, c) == [run |-> r, row |-> x, code |-> c]
Live(r) == pc[r] \notin {"new", "done", "dead"}

-----------------------------------------------------------------------------
Init ==
  /\ source = Nothing
  /\ late = {}
  /\ target = Nothing
  /\ position = [t \in Table |-> 0]
  /\ errors = {}
  /\ status = [r \in Run |-> "none"]
  /\ pc = [r \in Run |-> "new"]
  /\ params \in [Run -> Params]
  /\ snapshot = [r \in Run |-> Nothing]
  /\ todo = [r \in Run |-> <<>>]
  /\ table = [r \in Run |-> NoTable]
  /\ cursor = [r \in Run |-> 0]
  /\ batches = [r \in Run |-> 0]
  /\ batch = [r \in Run |-> {}]
  /\ written = [r \in Run |-> Nothing]
  /\ failed = [r \in Run |-> {}]
  /\ halted = [r \in Run |-> FALSE]

(* The source application inserts a row or changes it.  Keys need not appear *)
(* in order: a transaction may commit after one that took a larger key.      *)
SourceWrite(x, c) ==
  /\ source[x] # NoRow => c.ver > source[x].ver
  /\ source' = [source EXCEPT ![x] = c]
  /\ late' = IF /\ source[x] = NoRow
                /\ \E y \in Present(source) :
                     TableOf[y] = TableOf[x] /\ KeyOf[y] > KeyOf[x]
             THEN late \cup {x} ELSE late
  /\ UNCHANGED <<target, position, errors, status, pc, local>>

(* run: the SyncRun row is inserted as "running" and committed. *)
StartRun(r) ==
  /\ pc[r] = "new"
  /\ Overlap \/ \A s \in Run : ~ Live(s)
  /\ pc' = [pc EXCEPT ![r] = "connect"]
  /\ status' = [status EXCEPT ![r] = "running"]
  /\ UNCHANGED <<source, late, target, position, errors, local>>

(* run: mappings loaded, filtered and ordered; the source connection opened. *)
(* Its transaction is never ended, so every later SELECT reads one snapshot. *)
OpenSource(r) ==
  /\ pc[r] = "connect"
  /\ Orderable(Parents, Selected(params[r]))
  /\ snapshot' = [snapshot EXCEPT ![r] = source]
  /\ \E o \in Orders(Parents, Selected(params[r])) : todo' = [todo EXCEPT ![r] = o]
  /\ pc' = [pc EXCEPT ![r] = "next"]
  /\ UNCHANGED <<database, params, table, cursor, batches, batch, written,
                 failed, halted>>

(* run: a selection that leaves out a table between two others: ordering it *)
(* raises before the source is opened.                                      *)
OrderFails(r) ==
  /\ pc[r] = "connect"
  /\ ~ Orderable(Parents, Selected(params[r]))
  /\ pc' = [pc EXCEPT ![r] = "abort"]
  /\ UNCHANGED <<database, local>>

(* _sync_table: one of the four early returns (skipped=True). *)
SkipTable(r) ==
  /\ pc[r] = "next" /\ todo[r] # <<>>
  /\ Head(todo[r]) \in Unsyncable
  /\ todo' = [todo EXCEPT ![r] = Tail(@)]
  /\ UNCHANGED <<database, pc, params, snapshot, table, cursor, batches, batch,
                 written, failed, halted>>

(* _sync_table: the locals are initialised and the stored cursor is read. *)
BeginTable(r) ==
  /\ pc[r] = "next" /\ todo[r] # <<>>
  /\ Head(todo[r]) \notin Unsyncable
  /\ table' = [table EXCEPT ![r] = Head(todo[r])]
  /\ todo' = [todo EXCEPT ![r] = Tail(@)]
  /\ cursor' = [cursor EXCEPT ![r] = StoredCursor(Head(todo[r]))]
  /\ batches' = [batches EXCEPT ![r] = 0]
  /\ halted' = [halted EXCEPT ![r] = FALSE]
  /\ pc' = [pc EXCEPT ![r] = "fetch"]
  /\ UNCHANGED <<database, params, snapshot, batch, written, failed>>

(* _sync_table: the query returns no row; the while loop ends. *)
EndTable(r) ==
  /\ pc[r] = "fetch"
  /\ Window(r) = {}
  /\ pc' = [pc EXCEPT ![r] = "next"]
  /\ UNCHANGED <<database, local>>

(* _sync_table: a batch is read and normalised; rows whose key does not    *)
(* parse are recorded as errors and dropped, the cursor does not move.     *)
FetchBatch(r) ==
  /\ pc[r] = "fetch"
  /\ Window(r) # {} /\ Poisoned(r) = {}
  /\ failed' = [failed EXCEPT ![r] =
                  {Failure(r, x, "invalid_source_pk") : x \in Unparsed(r)}]
  /\ batch' = [batch EXCEPT ![r] = Window(r) \ Unparsed(r)]
  /\ pc' = [pc EXCEPT ![r] = IF Window(r) = Unparsed(r) THEN "commit" ELSE "upsert"]
  /\ UNCHANGED <<database, params, snapshot, todo, table, cursor, batches,
                 written, halted>>

(* _sync_table: normalising a row raises, which only run's handler catches. *)
FetchPoison(r) ==
  /\ pc[r] = "fetch"
  /\ Poisoned(r) # {}
  /\ failed' = [failed EXCEPT ![r] =
                  {Failure(r, x, "invalid_source_pk") : x \in Unparsed(r)}]
  /\ pc' = [pc EXCEPT ![r] = "abort"]
  /\ UNCHANGED <<database, params, snapshot, todo, table, cursor, batches,
                 batch, written, halted>>

(* _sync_table: the whole batch is upserted under one savepoint. *)
UpsertBatch(r) ==
  /\ pc[r] = "upsert"
  /\ Accepts(r, batch[r])
  /\ \E last \in batch[r] :
       /\ \A x \in batch[r] : KeyOf[x] <= KeyOf[last]
       /\ cursor' = [cursor EXCEPT ![r] = KeyOf[last]]
  /\ written' = [written EXCEPT ![r] = Upserted(r, batch[r])]
  /\ batch' = [batch EXCEPT ![r] = {}]
  /\ pc' = [pc EXCEPT ![r] = "commit"]
  /\ UNCHANGED <<database, params, snapshot, todo, table, batches, failed, halted>>

(* _sync_table: the batch statement fails, of a row it refuses or of a       *)
(* passing error of the database; its savepoint is rolled back.             *)
FallBack(r) ==
  /\ pc[r] = "upsert"
  /\ pc' = [pc EXCEPT ![r] = "rows"]
  /\ UNCHANGED <<database, local>>

\* The rows of the batch are taken one by one in key order.
IsNext(r, x) == x \in batch[r] /\ \A y \in batch[r] : KeyOf[x] <= KeyOf[y]

UpsertRow(r) ==
  /\ pc[r] = "rows"
  /\ \E x \in batch[r] :
       /\ IsNext(r, x)
       /\ Accepts(r, {x})
       /\ written' = [written EXCEPT ![r] = Upserted(r, {x})]
       /\ cursor' = [cursor EXCEPT ![r] = Later(@, KeyOf[x])]
       /\ batch' = [batch EXCEPT ![r] = @ \ {x}]
  /\ UNCHANGED <<database, pc, params, snapshot, todo, table, batches, failed, halted>>

(* _sync_table: a skippable error is recorded and the cursor passes the row. *)
SkipRow(r) ==
  /\ pc[r] = "rows"
  /\ \E x \in batch[r] :
       /\ IsNext(r, x)
       /\ SkipCode(r, x) # ""
       /\ failed' = [failed EXCEPT ![r] = @ \cup {Failure(r, x, SkipCode(r, x))}]
       /\ cursor' = [cursor EXCEPT ![r] = Later(@, KeyOf[x])]
       /\ batch' = [batch EXCEPT ![r] = @ \ {x}]
  /\ UNCHANGED <<database, pc, params, snapshot, todo, table, batches, written, halted>>

(* _sync_table: any other failure of the row, lasting or passing, is        *)
(* recorded; the row keeps the cursor below it and the table is left.       *)
RejectRow(r) ==
  /\ pc[r] = "rows"
  /\ \E x \in batch[r] :
       /\ IsNext(r, x)
       /\ failed' = [failed EXCEPT ![r] =
                       @ \cup {Failure(r, x, "mapped_table_upsert_failed")}]
  /\ batch' = [batch EXCEPT ![r] = {}]
  /\ halted' = [halted EXCEPT ![r] = TRUE]
  /\ UNCHANGED <<database, pc, params, snapshot, todo, table, cursor, batches, written>>

(* _sync_table: _upsert_stream_state and commit, then the two break tests. *)
CommitBatch(r) ==
  /\ pc[r] \in {"commit", "rows"} /\ batch[r] = {}
  /\ target' = Seen(r)
  /\ errors' = errors \cup failed[r]
  /\ position' = [position EXCEPT ![table[r]] = cursor[r]]
  /\ written' = [written EXCEPT ![r] = Nothing]
  /\ failed' = [failed EXCEPT ![r] = {}]
  /\ batches' = [batches EXCEPT ![r] = IF params[r].limit = 0 THEN 0 ELSE @ + 1]
  /\ pc' = [pc EXCEPT ![r] =
              IF \/ params[r].limit > 0 /\ batches[r] + 1 >= params[r].limit
                 \/ halted[r]
              THEN "next" ELSE "fetch"]
  /\ UNCHANGED <<source, late, status, params, snapshot, todo, table, cursor,
                 batch, halted>>

\* Mutant of Finish: the errors of the run are not counted.
FinishSuccess(r) ==
  /\ pc[r] = "next" /\ todo[r] = <<>>
  /\ status' = [status EXCEPT ![r] = "success"]
  /\ pc' = [pc EXCEPT ![r] = "done"]
  /\ UNCHANGED <<source, late, target, position, errors, local>>

(* run: every table is done; the run row gets its final status. *)
Finish(r) ==
  /\ pc[r] = "next" /\ todo[r] = <<>>
  /\ status' = [status EXCEPT ![r] =
                  IF \E e \in errors : e.run = r THEN "partial" ELSE "success"]
  /\ pc' = [pc EXCEPT ![r] = "done"]
  /\ UNCHANGED <<source, late, target, position, errors, local>>

(* run: the except branch; its commit also commits errors still pending. *)
Abort(r) ==
  /\ pc[r] = "abort"
  /\ errors' = errors \cup failed[r]
  /\ status' = [status EXCEPT ![r] = "failed"]
  /\ failed' = [failed EXCEPT ![r] = {}]
  /\ pc' = [pc EXCEPT ![r] = "done"]
  /\ UNCHANGED <<source, late, target, position, params, snapshot, todo, table,
                 cursor, batches, batch, written, halted>>

(* A query of the source raises: the same handler. *)
SourceLost(r) ==
  /\ pc[r] \in {"connect", "fetch"}
  /\ pc' = [pc EXCEPT ![r] = "abort"]
  /\ UNCHANGED <<database, local>>

(* The process is killed, or the target connection is lost and the handler  *)
(* cannot write either: the open transaction is gone, the locals with it    *)
(* (snapshot stays, as history), and the run's row says "running" for ever. *)
Die(r) ==
  /\ Live(r)
  /\ pc' = [pc EXCEPT ![r] = "dead"]
  /\ todo' = [todo EXCEPT ![r] = <<>>]
  /\ table' = [table EXCEPT ![r] = NoTable]
  /\ cursor' = [cursor EXCEPT ![r] = 0]
  /\ batches' = [batches EXCEPT ![r] = 0]
  /\ batch' = [batch EXCEPT ![r] = {}]
  /\ written' = [written EXCEPT ![r] = Nothing]
  /\ failed' = [failed EXCEPT ![r] = {}]
  /\ halted' = [halted EXCEPT ![r] = FALSE]
  /\ UNCHANGED <<database, params, snapshot>>

Step(r) ==
  \/ OpenSource(r) \/ OrderFails(r) \/ SkipTable(r) \/ BeginTable(r)
  \/ EndTable(r) \/ FetchBatch(r) \/ FetchPoison(r) \/ UpsertBatch(r) \/ FallBack(r)
  \/ UpsertRow(r) \/ SkipRow(r) \/ RejectRow(r) \/ CommitBatch(r)
  \/ Finish(r) \/ Abort(r)

Next ==
  \/ \E x \in RowId : \E c \in Content[x] : SourceWrite(x, c)
  \/ \E r \in Run : StartRun(r) \/ Step(r) \/ SourceLost(r) \/ Die(r)

Spec == Init /\ [][Next]_vars

(* A run that has been started is a plain loop: it takes its next step. *)
FairSpec == Spec /\ \A r \in Run : WF_vars(Step(r))

-----------------------------------------------------------------------------
(* Properties *)

Pcs == {"new", "connect", "next", "fetch", "upsert", "rows", "commit", "abort",
        "done", "dead"}

(* Type correctness of every variable. *)
TypeOK ==
  /\ source \in [RowId -> Row \cup {NoRow}]
  /\ late \subseteq RowId
  /\ target \in [RowId -> Row \cup {NoRow}]
  /\ position \in [Table -> Nat]
  /\ errors \subseteq Error
  /\ status \in [Run -> {"none", "running", "success", "partial", "failed"}]
  /\ pc \in [Run -> Pcs]
  /\ params \in [Run -> Params]
  /\ snapshot \in [Run -> [RowId -> Row \cup {NoRow}]]
  /\ todo \in [Run -> Seq(Table)]
  /\ table \in [Run -> Table \cup {NoTable}]
  /\ cursor \in [Run -> Nat]
  /\ batches \in [Run -> Nat]
  /\ batch \in [Run -> SUBSET RowId]
  /\ written \in [Run -> [RowId -> Row \cup {NoRow}]]
  /\ failed \in [Run -> SUBSET Error]
  /\ halted \in [Run -> BOOLEAN]

(* A row is replicated in db when it is there under its own key or, in      *)
(* translate, when another row holds the phrase some run read it with: the  *)
(* target has the phrase, and the row's id is nowhere in it.                *)
Merged(db, x) ==
  /\ TableOf[x] = Translate
  /\ \E r \in Run : snapshot[r][x] # NoRow /\ Holders(db, snapshot[r][x]) # {}
Replicated(db, x) == db[x] # NoRow \/ Merged(db, x)
Accounted(x) == Replicated(target, x) \/ \E e \in errors : e.row = x

(* The cursor never outruns the data: a source row at or below the stored   *)
(* cursor of its stream, which no run will ever read again, is replicated   *)
(* (in translate: it, or its phrase) or has a sync_errors row.  It holds    *)
(* across overlapping runs, fallbacks and deaths at any step, because rows, *)
(* errors and cursor share one commit.  The exception is a late row, one    *)
(* that appeared below a larger key: nothing is promised of it.             *)
Coverage ==
  \A x \in Present(source) \ late :
    KeyOf[x] <= position[TableOf[x]] => Accounted(x)

(* Coverage is not inductive: it says nothing of a batch still in flight.   *)
(* What makes it so, for each run r:                                        *)
(*   SnapshotPrefix  what appeared in order since r's snapshot has larger   *)
(*                   keys than anything r reads;                            *)
(*   WritesKeep      r writes rows of its table and no phrase over another; *)
(*   ReadCovers      everything at or below r's local cursor is accounted   *)
(*                   for by the database together with r's transaction;     *)
(*   BatchCovers     between the cursor and a row still to be dealt with    *)
(*                   there are only such rows and rows accounted for;       *)
(*   a cursor, local or stored, is 0 or the key of a source row; and no two *)
(*   open transactions have written the same row.                           *)
AccountedIn(r, x) ==
  Replicated(Seen(r), x) \/ \E e \in errors \cup failed[r] : e.row = x

IsMark(t, k) == k = 0 \/ \E y \in RowId : source[y] # NoRow /\ TableOf[y] = t /\ KeyOf[y] = k

SnapshotPrefix(r) ==
  /\ Present(snapshot[r]) \subseteq Present(source)
  /\ pc[r] \in {"new", "connect"} => Present(snapshot[r]) = {}
  /\ \A x \in Present(source) \ (late \cup Present(snapshot[r])), y \in Present(snapshot[r]) :
       TableOf[x] = TableOf[y] => KeyOf[y] < KeyOf[x]

WritesKeep(r) ==
  \A y \in Present(written[r]) :
    /\ y \in Present(source) /\ TableOf[y] = table[r]
    /\ TableOf[y] = Translate /\ target[y] # NoRow =>
         written[r][y].phrase = target[y].phrase

ReadCovers(r) ==
  pc[r] \in {"fetch", "upsert", "rows", "commit"} =>
    /\ table[r] \in Table
    /\ IsMark(table[r], cursor[r])
    /\ \A x \in Present(source) \ late :
         TableOf[x] = table[r] /\ KeyOf[x] <= cursor[r] => AccountedIn(r, x)

BatchCovers(r) ==
  /\ pc[r] \in {"new", "connect", "next", "fetch"} =>
       Present(written[r]) = {} /\ failed[r] = {}
  /\ pc[r] = "upsert" => Present(written[r]) = {}
  /\ pc[r] \in {"upsert", "rows"} =>
       \A b \in batch[r] :
         /\ b \in Present(snapshot[r]) /\ TableOf[b] = table[r]
         /\ \A x \in Present(snapshot[r]) :
              TableOf[x] = table[r] /\ cursor[r] < KeyOf[x] /\ KeyOf[x] <= KeyOf[b]
                => x \in batch[r] \/ AccountedIn(r, x)

RunInv(r) == SnapshotPrefix(r) /\ WritesKeep(r) /\ ReadCovers(r) /\ BatchCovers(r)

Apart == \A r, s \in Run : r # s => Present(written[r]) \cap Present(written[s]) = {}

CoverageInv ==
  /\ Coverage
  /\ Present(target) \subseteq Present(source)
  /\ \A t \in Table : IsMark(t, position[t])
  /\ Apart
  /\ \A r \in Run : RunInv(r)

(* "success" means caught up: a run without a batch limit that ends as      *)
(* success leaves every row of its snapshot, in the tables it selected,     *)
(* replicated (in translate: it, or its phrase), or left behind by an       *)
(* EARLIER run that recorded the error; but for the late rows.              *)
SuccessIsComplete ==
  \A r \in Run : status[r] = "success" /\ params[r].limit = 0 =>
    \A x \in Present(snapshot[r]) \ late :
      TableOf[x] \in Selected(params[r]) \ Unsyncable =>
        Replicated(target, x) \/ \E e \in errors : e.row = x /\ e.run # r

(* A missing parent is never an artefact of the order of the tables: when a *)
(* run that copies the parent tables in full drops a row for a parent that  *)
(* the source does have, the parent's own stream has an error to show, or   *)
(* the parent appeared out of key order.                                    *)
SkipsExplained ==
  \A e \in errors :
    LET r == e.run
        refs == snapshot[r][e.row].refs
    IN  /\ e.code = "mapped_table_fk_missing_parent"
        /\ params[r].limit = 0
        /\ refs \subseteq Present(snapshot[r])
        /\ {TableOf[y] : y \in refs} \subseteq
             Selected(params[r]) \ (Unsyncable \cup Stuck(Parents, Selected(params[r])))
        => \E y \in refs : \/ y \in late
                           \/ \E f \in errors : TableOf[f.row] = TableOf[y]

(* With runs one at a time, no stored cursor moves back and no replicated   *)
(* row is overwritten with an older content, whatever dies or restarts (a   *)
(* row of translate takes the columns of several source rows, in key order).*)
(* And however runs overlap, a row is never lost, and a row of translate    *)
(* keeps the phrase it was stored with.                                     *)
NoRegression ==
  [][/\ ~ Overlap =>
          /\ \A t \in Table : position'[t] >= position[t]
          /\ \A x \in Present(target) :
               TableOf[x] # Translate => target'[x].ver >= target[x].ver
     /\ \A x \in Present(target) :
          /\ target'[x] # NoRow
          /\ TableOf[x] = Translate => target'[x].phrase = target[x].phrase]_vars

(* The run's loops terminate: each batch moves the cursor or leaves the     *)
(* table.  (Under FairSpec, for sources without an unparsable key.)         *)
RunsEnd == \A r \in Run : pc[r] = "connect" ~> pc[r] \in {"done", "dead"}

(* What a sync promises, see SyncLedger: a batch is one atomic entry that   *)
(* accounts for every row below the mark it sets.                           *)
Ledger == INSTANCE SyncLedger WITH
            Stream <- Table, Item <- RowId, StreamOf <- TableOf,
            offered <- Present(source),
            replica <- {x \in RowId : Replicated(target, x)},
            reported <- {e.row : e \in errors}, mark <- position
ImplementsLedger == Ledger!Spec

=============================================================================

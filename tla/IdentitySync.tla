----------------------------- MODULE IdentitySync -----------------------------
(***************************************************************************)
(* The identity sync: ToonLahmajoIdentitySync.run, _sync_profiles_stream   *)
(* and _sync_users_stream of app/sync/identity_sync.py.                    *)
(*                                                                         *)
(* A run reads the profiles of one source system and then its users, in    *)
(* batches above a cursor, and maps each row to a canonical identity under *)
(* a savepoint of its own.  A row that fails is recorded in sync_errors    *)
(* and does not move the cursor, a row that succeeds does; rows, errors    *)
(* and cursor are committed once per batch.  profile_nick is unique over   *)
(* ALL source systems, so runs of different systems meet in the database:  *)
(* they wait for each other's open transactions and may deadlock.          *)
(***************************************************************************)
EXTENDS Integers, FiniteSets

CONSTANTS
  SourceSystem, \* the source_systems rows
  Profile,      \* source profiles, of all systems
  User,         \* source users, of all systems
  SystemOf,     \* [Profile \cup User -> SourceSystem]
  KeyOf,        \* [Profile \cup User -> positive integer]: the source id
  Nick,         \* profile nicks
  DefaultNick,  \* [Profile -> Nick]: "profile_<id>"
  Content,      \* what the source may say of a row: of a profile a Nick or
                \* Blank, of a user a Profile or Null
  Volatile,     \* rows a source application may still write once runs go on
  Run, BatchSize,
  Overlap,      \* TRUE iff a run may be started while another is going
  Hiccups,      \* TRUE iff the database may fail a row for a passing reason
  Blank, Null, NoNick, NoRow

RowId == Profile \cup User
AnyContent == UNION {Content[x] : x \in RowId}
Stream == SourceSystem \X {"profiles", "profiles_users"}
Seat == User \X Profile
Error == [run : Run, row : RowId, why : {"refused", "canonical_profile_missing"}]

ASSUME RowsAssumption ==
  /\ IsFiniteSet(RowId) /\ Profile \cap User = {}
  /\ SystemOf \in [RowId -> SourceSystem]
  /\ KeyOf \in [RowId -> Nat \ {0}]
  /\ \A x, y \in RowId : /\ SystemOf[x] = SystemOf[y] /\ KeyOf[x] = KeyOf[y]
                         /\ x \in Profile <=> y \in Profile
                         => x = y
ASSUME ContentAssumption ==
  /\ DefaultNick \in [Profile -> Nick]
  /\ DOMAIN Content = RowId /\ Volatile \subseteq RowId
  /\ \A p \in Profile : Content[p] \subseteq Nick \cup {Blank}
  /\ \A u \in User : Content[u] \subseteq {p \in Profile : SystemOf[p] = SystemOf[u]} \cup {Null}
  /\ Blank \notin Nick /\ NoNick \notin Nick /\ Null \notin Profile
  /\ NoRow \notin Nick \cup Profile \cup {Blank, Null}
ASSUME RunsAssumption ==
  BatchSize \in Nat \ {0} /\ Overlap \in BOOLEAN /\ Hiccups \in BOOLEAN

VARIABLES
  source,    \* the source databases: [RowId -> content or NoRow]
  late,      \* history: rows that appeared below a larger key of their stream
  nick,      \* canonical_profiles and profile_source_maps: [Profile -> Nick or NoNick]
  seats,     \* canonical_users and canonical_source_maps: users under profiles
  errors,    \* sync_errors
  position,  \* sync_state.last_cursor of each stream
  status,    \* sync_runs.status ("none": not created)
  pc,        \* where each run is
  system,    \* the source system each run is for
  snapshot,  \* what its source transaction reads
  stream,    \* "profiles" or "profiles_users"
  cursor,    \* the local cursor
  rows,      \* rows of the batch not yet dealt with
  draftNick, draftSeats, draftErrors  \* the open transaction

database == <<source, late, nick, seats, errors, position, status>>
drafts   == <<draftNick, draftSeats, draftErrors>>
local    == <<system, snapshot, stream, cursor, rows, drafts>>
vars     == <<database, pc, local>>

-----------------------------------------------------------------------------
Present(db) == {x \in RowId : db[x] # NoRow}
StreamOf == [x \in RowId |-> <<SystemOf[x], IF x \in Profile THEN "profiles"
                                                            ELSE "profiles_users">>]
Current(r) == <<system[r], stream[r]>>
Live(r) == pc[r] \notin {"new", "done", "dead"}

\* Mutant of Unread: every query starts from the beginning.
UnreadAll(r) == {x \in Present(snapshot[r]) : StreamOf[x] = Current(r)}
Unread(r) == {x \in Present(snapshot[r]) :
                StreamOf[x] = Current(r) /\ KeyOf[x] > cursor[r]}
Window(r) == {x \in Unread(r) :
                Cardinality({y \in Unread(r) : KeyOf[y] < KeyOf[x]}) < BatchSize}
IsNext(r, x) == x \in rows[r] /\ \A y \in rows[r] : KeyOf[x] <= KeyOf[y]

\* The nick the sync asks for; a blank nic column gets the default.
NickOf(r, p) == IF snapshot[r][p] = Blank THEN DefaultNick[p] ELSE snapshot[r][p]

\* The canonical profiles the open transaction of run r sees.
NickSeen(r, p) == IF draftNick[r][p] # NoNick THEN draftNick[r][p] ELSE nick[p]
\* Mutant of Taken: a nick is unique within its system only.
TakenInSystem(r, x) ==
  \E q \in Profile \ {x} : SystemOf[q] = SystemOf[x] /\ NickSeen(r, q) = NickOf(r, x)
Taken(r, x) == \E q \in Profile \ {x} : NickSeen(r, q) = NickOf(r, x)

\* Run r cannot go on before run s has committed or rolled back: s holds the
\* row r writes (or refers to), or has a nick r asks for in an open change.
WaitsFor(r, s) ==
  /\ pc[r] = "rows" /\ s # r
  /\ \E x \in rows[r] :
       /\ IsNext(r, x)
       /\ \/ /\ x \in Profile
             /\ \/ \E seat \in draftSeats[s] : seat[2] = x
                \/ \E q \in Profile : /\ draftNick[s][q] # NoNick
                                      /\ q = x \/ NickOf(r, x) \in {draftNick[s][q], nick[q]}
          \/ /\ x \in User /\ snapshot[r][x] \in Profile
             /\ NickSeen(r, snapshot[r][x]) # NoNick
             /\ \/ draftNick[s][snapshot[r][x]] # NoNick
                \/ <<x, snapshot[r][x]>> \in draftSeats[s]
Waits(r) == \E s \in Run : WaitsFor(r, s)
Deadlocked(r) ==
  \E C \in SUBSET Run : r \in C /\ \A s \in C : \E t \in C : WaitsFor(s, t)

-----------------------------------------------------------------------------
Init ==
  /\ \E given \in SUBSET RowId, db \in [RowId -> AnyContent] :
       /\ \A x \in given : db[x] \in Content[x]
       /\ source = [x \in RowId |-> IF x \in given THEN db[x] ELSE NoRow]
  /\ late = {}
  /\ nick = [p \in Profile |-> NoNick]
  /\ seats = {} /\ errors = {}
  /\ position = [s \in Stream |-> 0]
  /\ status = [r \in Run |-> "none"]
  /\ pc = [r \in Run |-> "new"]
  /\ system \in [Run -> SourceSystem]
  /\ snapshot = [r \in Run |-> [x \in RowId |-> NoRow]]
  /\ stream = [r \in Run |-> "profiles"]
  /\ cursor = [r \in Run |-> 0]
  /\ rows = [r \in Run |-> {}]
  /\ draftNick = [r \in Run |-> [p \in Profile |-> NoNick]]
  /\ draftSeats = [r \in Run |-> {}]
  /\ draftErrors = [r \in Run |-> {}]

(* A source application inserts a row or changes it. *)
SourceWrite(x, c) ==
  /\ x \in Volatile /\ source[x] # c
  /\ source' = [source EXCEPT ![x] = c]
  /\ late' = IF /\ source[x] = NoRow
                /\ \E y \in Present(source) :
                     StreamOf[y] = StreamOf[x] /\ KeyOf[y] > KeyOf[x]
             THEN late \cup {x} ELSE late
  /\ UNCHANGED <<nick, seats, errors, position, status, pc, local>>

(* run: the SyncRun row is inserted as "running" and committed. *)
StartRun(r) ==
  /\ pc[r] = "new"
  /\ Overlap \/ \A s \in Run : ~ Live(s)
  /\ status' = [status EXCEPT ![r] = "running"]
  /\ pc' = [pc EXCEPT ![r] = "connect"]
  /\ UNCHANGED <<source, late, nick, seats, errors, position, local>>

(* run and _sync_profiles_stream: connect, read the profiles' cursor. *)
OpenSource(r) ==
  /\ pc[r] = "connect"
  /\ snapshot' = [snapshot EXCEPT ![r] = source]
  /\ cursor' = [cursor EXCEPT ![r] = position[<<system[r], "profiles">>]]
  /\ pc' = [pc EXCEPT ![r] = "fetch"]
  /\ UNCHANGED <<database, system, stream, rows, drafts>>

FetchBatch(r) ==
  /\ pc[r] = "fetch" /\ Window(r) # {}
  /\ rows' = [rows EXCEPT ![r] = Window(r)]
  /\ pc' = [pc EXCEPT ![r] = "rows"]
  /\ UNCHANGED <<database, system, snapshot, stream, cursor, drafts>>

\* Mutant of BeginUsers: the profiles need not have run out.
BeginUsersAnyTime(r) ==
  /\ pc[r] = "fetch" /\ stream[r] = "profiles"
  /\ stream' = [stream EXCEPT ![r] = "profiles_users"]
  /\ cursor' = [cursor EXCEPT ![r] = position[<<system[r], "profiles_users">>]]
  /\ UNCHANGED <<database, pc, system, snapshot, rows, drafts>>

(* _sync_users_stream begins when the profiles have run out. *)
BeginUsers(r) ==
  /\ pc[r] = "fetch" /\ Window(r) = {} /\ stream[r] = "profiles"
  /\ stream' = [stream EXCEPT ![r] = "profiles_users"]
  /\ cursor' = [cursor EXCEPT ![r] = position[<<system[r], "profiles_users">>]]
  /\ UNCHANGED <<database, pc, system, snapshot, rows, drafts>>

\* The next row is done with; the cursor goes to k.
Leave(r, x, k) ==
  /\ rows' = [rows EXCEPT ![r] = @ \ {x}]
  /\ cursor' = [cursor EXCEPT ![r] = k]
  /\ UNCHANGED <<database, pc, system, snapshot, stream>>

UpsertProfile(r, x) ==
  /\ x \in Profile /\ ~ Taken(r, x)
  /\ draftNick' = [draftNick EXCEPT ![r][x] = NickOf(r, x)]
  /\ UNCHANGED <<draftSeats, draftErrors>>
  /\ Leave(r, x, KeyOf[x])

UpsertUser(r, x) ==
  /\ x \in User /\ snapshot[r][x] \in Profile
  /\ NickSeen(r, snapshot[r][x]) # NoNick
  /\ draftSeats' = [draftSeats EXCEPT ![r] = @ \cup {<<x, snapshot[r][x]>>}]
  /\ UNCHANGED <<draftNick, draftErrors>>
  /\ Leave(r, x, KeyOf[x])

\* Mutants of Fail: a failing row moves the cursor, unrecorded or recorded.
FailSilently(r, x, why) == UNCHANGED drafts /\ Leave(r, x, KeyOf[x])
FailAndPass(r, x, why) ==
  /\ draftErrors' = [draftErrors EXCEPT ![r] = @ \cup {[run |-> r, row |-> x, why |-> why]}]
  /\ UNCHANGED <<draftNick, draftSeats>>
  /\ Leave(r, x, KeyOf[x])

\* The row's savepoint is rolled back, the error recorded, the cursor kept.
Fail(r, x, why) ==
  /\ draftErrors' = [draftErrors EXCEPT ![r] = @ \cup {[run |-> r, row |-> x, why |-> why]}]
  /\ UNCHANGED <<draftNick, draftSeats>>
  /\ Leave(r, x, cursor[r])

RefuseNick(r, x)   == x \in Profile /\ Taken(r, x) /\ Fail(r, x, "refused")
RefuseOrphan(r, x) == /\ x \in User /\ snapshot[r][x] \in Profile
                      /\ NickSeen(r, snapshot[r][x]) = NoNick
                      /\ Fail(r, x, "canonical_profile_missing")

(* A row of the batch is taken, in key order. *)
TakeRow(r) ==
  /\ pc[r] = "rows" /\ ~ Waits(r)
  /\ \E x \in rows[r] :
       /\ IsNext(r, x)
       /\ \/ UpsertProfile(r, x) \/ RefuseNick(r, x)
          \/ UpsertUser(r, x) \/ RefuseOrphan(r, x)

(* PostgreSQL ends a cycle of waiting transactions by failing a statement. *)
BreakDeadlock(r) ==
  /\ Deadlocked(r)
  /\ \E x \in rows[r] : IsNext(r, x) /\ Fail(r, x, "refused")

(* A passing error of the database fails any row. *)
Hiccup(r) ==
  /\ Hiccups
  /\ pc[r] = "rows"
  /\ \E x \in rows[r] : IsNext(r, x) /\ snapshot[r][x] # Null /\ Fail(r, x, "refused")

(* int(row["profile_id"]) raises on NULL, outside the row's try. *)
RaiseRow(r) ==
  /\ pc[r] = "rows"
  /\ \E x \in rows[r] : IsNext(r, x) /\ snapshot[r][x] = Null
  /\ pc' = [pc EXCEPT ![r] = "abort"]
  /\ UNCHANGED <<database, local>>

\* A commit publishes the open transaction of run r.
Publish(r) ==
  /\ nick' = [p \in Profile |-> NickSeen(r, p)]
  /\ seats' = seats \cup draftSeats[r]
  /\ errors' = errors \cup draftErrors[r]
  /\ draftNick' = [draftNick EXCEPT ![r] = [p \in Profile |-> NoNick]]
  /\ draftSeats' = [draftSeats EXCEPT ![r] = {}]
  /\ draftErrors' = [draftErrors EXCEPT ![r] = {}]
  /\ UNCHANGED <<source, late>>

CommitBatch(r) ==
  /\ pc[r] = "rows" /\ rows[r] = {}
  /\ Publish(r)
  /\ position' = [position EXCEPT ![Current(r)] = cursor[r]]
  /\ pc' = [pc EXCEPT ![r] = "fetch"]
  /\ UNCHANGED <<status, system, snapshot, stream, cursor, rows>>

\* Mutant of Finish: errors are not counted.
FinishSuccess(r) ==
  /\ pc[r] = "fetch" /\ Window(r) = {} /\ stream[r] = "profiles_users"
  /\ status' = [status EXCEPT ![r] = "success"]
  /\ pc' = [pc EXCEPT ![r] = "done"]
  /\ UNCHANGED <<source, late, nick, seats, errors, position, local>>

(* run: both streams have run out. *)
Finish(r) ==
  /\ pc[r] = "fetch" /\ Window(r) = {} /\ stream[r] = "profiles_users"
  /\ status' = [status EXCEPT ![r] =
                  IF \E e \in errors : e.run = r THEN "partial" ELSE "success"]
  /\ pc' = [pc EXCEPT ![r] = "done"]
  /\ UNCHANGED <<source, late, nick, seats, errors, position, local>>

(* run: the except branch.  Its commit also commits the rows and the errors *)
(* of the batch that raised, but no cursor.                                 *)
Abort(r) ==
  /\ pc[r] = "abort"
  /\ Publish(r)
  /\ status' = [status EXCEPT ![r] = "failed"]
  /\ pc' = [pc EXCEPT ![r] = "done"]
  /\ UNCHANGED <<position, system, snapshot, stream, cursor, rows>>

(* A query of the source raises: the same handler. *)
SourceLost(r) ==
  /\ pc[r] \in {"connect", "fetch"}
  /\ pc' = [pc EXCEPT ![r] = "abort"]
  /\ UNCHANGED <<database, local>>

(* The process or its target connection is gone, the transaction with it. *)
Die(r) ==
  /\ Live(r)
  /\ pc' = [pc EXCEPT ![r] = "dead"]
  /\ rows' = [rows EXCEPT ![r] = {}]
  /\ cursor' = [cursor EXCEPT ![r] = 0]
  /\ draftNick' = [draftNick EXCEPT ![r] = [p \in Profile |-> NoNick]]
  /\ draftSeats' = [draftSeats EXCEPT ![r] = {}]
  /\ draftErrors' = [draftErrors EXCEPT ![r] = {}]
  /\ UNCHANGED <<database, system, snapshot, stream>>

Step(r) ==
  \/ OpenSource(r) \/ FetchBatch(r) \/ BeginUsers(r) \/ TakeRow(r)
  \/ BreakDeadlock(r) \/ RaiseRow(r) \/ CommitBatch(r) \/ Finish(r) \/ Abort(r)

Next ==
  \/ \E x \in RowId : \E c \in Content[x] : SourceWrite(x, c)
  \/ \E r \in Run : StartRun(r) \/ Step(r) \/ Hiccup(r) \/ SourceLost(r) \/ Die(r)

Spec == Init /\ [][Next]_vars

(* A started run takes its next step, and PostgreSQL breaks deadlocks. *)
FairSpec == Spec /\ \A r \in Run : WF_vars(Step(r))

-----------------------------------------------------------------------------
(* Properties *)

(* Type correctness of every variable. *)
TypeOK ==
  /\ source \in [RowId -> AnyContent \cup {NoRow}]
  /\ late \subseteq RowId
  /\ nick \in [Profile -> Nick \cup {NoNick}]
  /\ seats \subseteq Seat /\ errors \subseteq Error
  /\ position \in [Stream -> Nat]
  /\ status \in [Run -> {"none", "running", "success", "partial", "failed"}]
  /\ pc \in [Run -> {"new", "connect", "fetch", "rows", "abort", "done", "dead"}]
  /\ system \in [Run -> SourceSystem]
  /\ snapshot \in [Run -> [RowId -> AnyContent \cup {NoRow}]]
  /\ stream \in [Run -> {"profiles", "profiles_users"}]
  /\ cursor \in [Run -> Nat] /\ rows \in [Run -> SUBSET RowId]
  /\ draftNick \in [Run -> [Profile -> Nick \cup {NoNick}]]
  /\ draftSeats \in [Run -> SUBSET Seat] /\ draftErrors \in [Run -> SUBSET Error]

\* Rows with a canonical identity.
Mapped == {p \in Profile : nick[p] # NoNick} \cup {s[1] : s \in seats}

(* "success" means caught up: every row of the run's snapshot that appeared *)
(* in key order has a canonical identity, or an earlier run recorded that   *)
(* it could not get one and moved on.                                       *)
SuccessIsComplete ==
  \A r \in Run : status[r] = "success" =>
    \A x \in Present(snapshot[r]) \ late :
      SystemOf[x] = system[r] =>
        x \in Mapped \/ \E e \in errors : e.row = x /\ e.run # r

(* A user is never refused for a profile the sync could have mapped: when a *)
(* run says canonical_profile_missing of a profile that its own snapshot    *)
(* has, that profile failed, or had appeared out of key order.              *)
OrphansExplained ==
  \A e \in errors : e.why = "canonical_profile_missing" =>
    LET p == snapshot[e.run][e.row] IN
      p \in Present(snapshot[e.run]) \ late => \E f \in errors : f.row = p

(* A stored cursor follows its stream: it never goes to a row the run that  *)
(* stored it could not map.  (A cursor may still pass such a row.)          *)
CursorIsMapped ==
  \A s \in Stream : position[s] > 0 =>
    \E x \in Mapped : StreamOf[x] = s /\ KeyOf[x] = position[s]

(* A run none of whose rows fails comes to its end, and runs that meet do   *)
(* not stop each other.                                                     *)
CleanRunsEnd ==
  \A r \in Run : pc[r] = "connect" ~>
    pc[r] \in {"done", "dead"} \/ \E e \in errors \cup draftErrors[r] : e.run = r

(* README.md: "identity sync completes".  The code loops for ever when the  *)
(* last rows of a stream fail: they do not move the cursor, so they are     *)
(* read again, and fail again (run `completes`).                            *)
RunsEnd == \A r \in Run : pc[r] = "connect" ~> pc[r] \in {"done", "dead"}

(* The same promise as the mapped-table sync, see SyncLedger. *)
Ledger == INSTANCE SyncLedger WITH
            Item <- RowId, offered <- Present(source), replica <- Mapped,
            reported <- {e.row : e \in errors}, mark <- position
ImplementsLedger == Ledger!Spec

(* What the readers of the canonical tables rely on, see CanonicalStore:    *)
(* however runs of several systems wait for each other, fail and deadlock,  *)
(* no commit takes a nick twice, a mapping back, or a user to a profile of  *)
(* another system.                                                          *)
Store == INSTANCE CanonicalStore
ImplementsStore == Store!Spec
=============================================================================

-------------------------- MODULE IdentitySync_proofs --------------------------
(***************************************************************************)
(* What the identity sync promises, for any systems, profiles, users,      *)
(* nicks and runs, whatever fails, dies or waits.                          *)
(***************************************************************************)
EXTENDS IdentitySync, FiniteSetTheorems, WellFoundedInduction, TLAPS

-----------------------------------------------------------------------------
(* Type correctness *)

\* A row has a content of its own, and a run deals with rows of its stream.
RowsInv ==
  /\ \A x \in RowId : source[x] \in Content[x] \cup {NoRow}
  /\ \A r \in Run : \A x \in RowId : snapshot[r][x] \in Content[x] \cup {NoRow}
  /\ \A r \in Run : \A x \in rows[r] : x \in Present(snapshot[r]) /\ StreamOf[x] = Current(r)
  /\ \A r \in Run : pc[r] \in {"new", "connect", "fetch"} => rows[r] = {}
Typed == TypeOK /\ RowsInv

LEMMA ContentType == \A x \in RowId : Content[x] \subseteq AnyContent /\ NoRow \notin Content[x]
BY ContentAssumption DEF AnyContent, RowId

LEMMA NickType ==
  ASSUME Typed, NEW r \in Run, NEW x \in rows[r], x \in Profile
  PROVE  NickOf(r, x) \in Nick
<1>1. x \in RowId /\ snapshot[r][x] \in Content[x]
  BY DEF Typed, RowsInv, Present
<1> QED  BY <1>1, ContentAssumption DEF NickOf

LEMMA SeatType ==
  ASSUME Typed, NEW r \in Run, NEW x \in rows[r], x \in User, snapshot[r][x] \in Profile
  PROVE  <<x, snapshot[r][x]>> \in Seat /\ SystemOf[snapshot[r][x]] = SystemOf[x]
<1>1. x \in RowId /\ snapshot[r][x] \in Content[x]
  BY DEF Typed, RowsInv, Present
<1> QED  BY <1>1, ContentAssumption DEF Seat

LEMMA StreamType == StreamOf \in [RowId -> Stream]
BY RowsAssumption DEF StreamOf, Stream

LEMMA SameRow ==
  ASSUME NEW x \in RowId, NEW y \in RowId, StreamOf[x] = StreamOf[y], KeyOf[x] = KeyOf[y]
  PROVE  x = y
<1>1. x \in Profile <=> y \in Profile  BY DEF StreamOf
<1>2. SystemOf[x] = SystemOf[y]  BY DEF StreamOf
<1> QED  BY ONLY <1>1, <1>2, x \in RowId, y \in RowId, KeyOf[x] = KeyOf[y], RowsAssumption

LEMMA TypedInit == Init => Typed
<1> SUFFICES ASSUME Init PROVE Typed  OBVIOUS
<1>1. PICK given \in SUBSET RowId, db \in [RowId -> AnyContent] :
        /\ \A x \in given : db[x] \in Content[x]
        /\ source = [x \in RowId |-> IF x \in given THEN db[x] ELSE NoRow]
  BY DEF Init
<1>2. source \in [RowId -> AnyContent \cup {NoRow}]
      /\ \A x \in RowId : source[x] \in Content[x] \cup {NoRow}
  BY <1>1
<1> QED  BY <1>2 DEF Init, Typed, TypeOK, RowsInv

LEMMA TypedTake ==
  ASSUME Typed, NEW r \in Run, TakeRow(r) \/ BreakDeadlock(r) \/ Hiccup(r)
  PROVE  Typed'
<1> USE DEF Typed, TypeOK
<1>1. PICK x \in rows[r] :
        \/ UpsertProfile(r, x) \/ UpsertUser(r, x)
        \/ \E why \in {"refused", "canonical_profile_missing"} : Fail(r, x, why)
  BY DEF TakeRow, BreakDeadlock, Hiccup, RefuseNick, RefuseOrphan
<1>2. x \in RowId /\ KeyOf[x] \in Nat  BY RowsAssumption
<1>3. /\ rows' = [rows EXCEPT ![r] = @ \ {x}]
      /\ UNCHANGED <<database, pc, system, snapshot, stream>>
      /\ cursor' = [cursor EXCEPT ![r] = cursor'[r]] /\ cursor'[r] \in Nat
  BY <1>1, <1>2 DEF UpsertProfile, UpsertUser, Fail, Leave
<1>4. RowsInv'
  <2>1. \A s \in Run : rows'[s] \subseteq rows[s]  BY <1>3
  <2>2. pc' = pc /\ snapshot' = snapshot /\ source' = source
        /\ \A s \in Run : Current(s)' = Current(s)
    BY <1>3 DEF Current, database
  <2> QED  BY <2>1, <2>2 DEF RowsInv, Present
<1>5. CASE UpsertProfile(r, x)
  <2>1. NickOf(r, x) \in Nick  BY <1>5, NickType DEF UpsertProfile
  <2>2. draftNick' \in [Run -> [Profile -> Nick \cup {NoNick}]]
    BY <1>5, <2>1 DEF UpsertProfile
  <2> QED  BY <1>3, <1>4, <1>5, <2>2 DEF UpsertProfile, database
<1>6. CASE UpsertUser(r, x)
  <2>1. <<x, snapshot[r][x]>> \in Seat  BY <1>6, SeatType DEF UpsertUser
  <2>2. draftSeats' \in [Run -> SUBSET Seat]  BY <1>6, <2>1 DEF UpsertUser
  <2> QED  BY <1>3, <1>4, <1>6, <2>2 DEF UpsertUser, database
<1>7. ASSUME NEW why \in {"refused", "canonical_profile_missing"}, Fail(r, x, why)
      PROVE  Typed'
  <2>1. draftErrors' \in [Run -> SUBSET Error]  BY <1>2, <1>7 DEF Fail, Error
  <2> QED  BY <1>3, <1>4, <1>7, <2>1 DEF Fail, database
<1> QED  BY <1>1, <1>5, <1>6, <1>7

LEMMA TypedPublish ==
  ASSUME TypeOK, NEW r \in Run, Publish(r)
  PROVE  /\ nick' \in [Profile -> Nick \cup {NoNick}]
         /\ seats' \subseteq Seat /\ errors' \subseteq Error
         /\ draftNick' \in [Run -> [Profile -> Nick \cup {NoNick}]]
         /\ draftSeats' \in [Run -> SUBSET Seat] /\ draftErrors' \in [Run -> SUBSET Error]
BY DEF TypeOK, Publish, NickSeen

LEMMA TypedNext == Typed /\ [Next]_vars => Typed'
<1> SUFFICES ASSUME Typed, [Next]_vars PROVE Typed'  OBVIOUS
<1> USE DEF Typed, TypeOK, RowsInv, Present, Current
<1>1. CASE UNCHANGED vars  BY <1>1 DEF vars, database, local, drafts
<1>2. ASSUME NEW x \in RowId, NEW c \in Content[x], SourceWrite(x, c) PROVE Typed'
  BY <1>2, ContentType DEF SourceWrite, local, drafts
<1>3. ASSUME NEW r \in Run, StartRun(r) PROVE Typed'
  BY <1>3 DEF StartRun, local, drafts
<1>12. ASSUME NEW r \in Run, OpenSource(r) PROVE Typed'
  <2>1. position[<<system[r], "profiles">>] \in Nat
    <3>1. <<system[r], "profiles">> \in Stream  BY DEF Stream
    <3> QED  BY <3>1
  <2>2. snapshot' \in [Run -> [RowId -> AnyContent \cup {NoRow}]]  BY <1>12 DEF OpenSource
  <2>3. TypeOK'  BY <1>12, <2>1, <2>2 DEF OpenSource, database, drafts
  <2>4. /\ source' = source /\ rows' = rows /\ rows[r] = {} /\ system' = system
        /\ stream' = stream
        /\ \A s \in Run \ {r} : snapshot'[s] = snapshot[s] /\ pc'[s] = pc[s]
        /\ snapshot'[r] = source
    BY <1>12 DEF OpenSource, database
  <2>5. RowsInv'
    <3>1. \A s \in Run : \A x \in RowId : snapshot'[s][x] \in Content[x] \cup {NoRow}
      BY <2>4
    <3>2. \A s \in Run : \A x \in rows'[s] :
            x \in Present(snapshot'[s]) /\ StreamOf[x] = Current(s)'
      <4> SUFFICES ASSUME NEW s \in Run, NEW x \in rows'[s]
                   PROVE  x \in Present(snapshot'[s]) /\ StreamOf[x] = Current(s)'
        OBVIOUS
      <4>1. s # r /\ x \in rows[s]  BY <2>4
      <4> QED  BY <2>4, <4>1
    <3> QED  BY <2>4, <3>1, <3>2
  <2> QED  BY <2>3, <2>5
<1>4. ASSUME NEW r \in Run, FetchBatch(r) PROVE Typed'
  BY <1>4 DEF FetchBatch, Window, Unread, database, drafts
<1>5. ASSUME NEW r \in Run, BeginUsers(r) PROVE Typed'
  BY <1>5 DEF BeginUsers, Stream, database, drafts
<1>6. ASSUME NEW r \in Run, TakeRow(r) \/ BreakDeadlock(r) \/ Hiccup(r) PROVE Typed'
  BY <1>6, TypedTake
<1>7. ASSUME NEW r \in Run, RaiseRow(r) \/ SourceLost(r) PROVE Typed'
  <2>1. UNCHANGED <<database, local>> /\ pc' = [pc EXCEPT ![r] = "abort"]
    BY <1>7 DEF RaiseRow, SourceLost
  <2>2. TypeOK'  BY <2>1 DEF database, local, drafts
  <2>3. RowsInv'  BY <2>1 DEF database, local
  <2> QED  BY <2>2, <2>3
<1>8. ASSUME NEW r \in Run, CommitBatch(r) PROVE Typed'
  <2>1. Current(r) \in Stream  BY DEF Stream
  <2>2. /\ position' \in [Stream -> Nat] /\ pc' \in [Run -> {"new", "connect", "fetch", "rows",
                                                         "abort", "done", "dead"}]
        /\ UNCHANGED <<source, late, status, system, snapshot, stream, cursor, rows>>
    BY <1>8, <2>1 DEF CommitBatch, Publish
  <2>3. TypeOK'  BY <1>8, <2>2, TypedPublish DEF CommitBatch
  <2>4. rows[r] = {}  BY <1>8 DEF CommitBatch
  <2>5. pc' = [pc EXCEPT ![r] = "fetch"]  BY <1>8 DEF CommitBatch
  <2>6. RowsInv'  BY <2>2, <2>4, <2>5
  <2> QED  BY <2>3, <2>6
<1>9. ASSUME NEW r \in Run, Finish(r) PROVE Typed'
  BY <1>9 DEF Finish, local, drafts
<1>10. ASSUME NEW r \in Run, Abort(r) PROVE Typed'
  BY ZenonT(60), <1>10, TypedPublish DEF Abort, Publish
<1>11. ASSUME NEW r \in Run, Die(r) PROVE Typed'
  <2>1. /\ \A s \in Run : rows'[s] = rows[s] \/ rows'[s] = {}
        /\ \A s \in Run : pc'[s] = pc[s] \/ pc'[s] = "dead"
        /\ UNCHANGED <<database, snapshot, stream, system>>
    BY <1>11 DEF Die
  <2>2. TypeOK'  BY <1>11 DEF Die, database
  <2>3. RowsInv'
    <3>1. \A s \in Run : \A x \in rows'[s] : x \in rows[s]  BY <2>1
    <3>2. \A s \in Run : \A x \in rows'[s] :
            x \in Present(snapshot'[s]) /\ StreamOf[x] = Current(s)'
      BY <2>1, <3>1
    <3>3. \A s \in Run : pc'[s] \in {"new", "connect", "fetch"} => rows'[s] = {}
      BY <2>1
    <3> QED  BY <2>1, <3>2, <3>3 DEF database
  <2> QED  BY <2>2, <2>3
<1> QED
  BY <1>1, <1>2, <1>3, <1>4, <1>5, <1>6, <1>7, <1>8, <1>9, <1>10, <1>11, <1>12 DEF Next, Step

LEMMA TypedInvariant == Spec => []Typed
BY TypedInit, TypedNext, PTL DEF Spec

(* Every variable of the identity sync keeps its type: canonical tables,    *)
(* ledger tables and the locals of the two streams.                         *)
THEOREM TypeCorrect == Spec => []TypeOK
<1>1. Typed => TypeOK  BY DEF Typed
<1> QED  BY <1>1, TypedInvariant, PTL

-----------------------------------------------------------------------------
(* What a step does to a run and to the database *)

Moves(r) == StartRun(r) \/ Step(r) \/ Hiccup(r) \/ SourceLost(r) \/ Die(r)
Canon == <<source, late, nick, seats, errors>>

\* Run s is left alone.
Apart(s) ==
  /\ pc'[s] = pc[s] /\ status'[s] = status[s] /\ system'[s] = system[s]
  /\ snapshot'[s] = snapshot[s] /\ stream'[s] = stream[s]
  /\ cursor'[s] = cursor[s] /\ rows'[s] = rows[s] /\ draftNick'[s] = draftNick[s]
  /\ draftSeats'[s] = draftSeats[s] /\ draftErrors'[s] = draftErrors[s]

LEMMA OthersApart ==
  ASSUME Typed, NEW r \in Run, NEW s \in Run, r # s, Moves(r)
  PROVE  Apart(s)
<1> USE DEF Typed, TypeOK, Apart
<1>1. CASE StartRun(r) \/ SourceLost(r)
  BY <1>1 DEF StartRun, SourceLost, database, local, drafts
<1>2. CASE OpenSource(r) \/ FetchBatch(r) \/ BeginUsers(r)
  BY <1>2 DEF OpenSource, FetchBatch, BeginUsers, database, local, drafts
<1>3. CASE TakeRow(r) \/ BreakDeadlock(r) \/ Hiccup(r)
  <2>1. PICK x \in rows[r] :
          \/ UpsertProfile(r, x) \/ UpsertUser(r, x)
          \/ \E why \in {"refused", "canonical_profile_missing"} : Fail(r, x, why)
    BY <1>3 DEF TakeRow, BreakDeadlock, Hiccup, RefuseNick, RefuseOrphan
  <2> QED  BY <2>1 DEF UpsertProfile, UpsertUser, Fail, Leave, database
<1>4. CASE RaiseRow(r) \/ Finish(r)
  BY <1>4 DEF RaiseRow, Finish, database, local, drafts
<1>5. CASE CommitBatch(r) \/ Abort(r)
  BY <1>5 DEF CommitBatch, Abort, Publish
<1>6. CASE Die(r)
  BY <1>6 DEF Die, database
<1> QED  BY <1>1, <1>2, <1>3, <1>4, <1>5, <1>6 DEF Moves, Step

\* Only a commit changes the canonical tables.
LEMMA CanonMoves ==
  ASSUME NEW r \in Run, Moves(r)
  PROVE  \/ UNCHANGED Canon
         \/ (CommitBatch(r) \/ Abort(r)) /\ Publish(r)
<1> USE DEF Canon, database
<1>1. CASE StartRun(r) \/ SourceLost(r) \/ OpenSource(r) \/ FetchBatch(r) \/ BeginUsers(r)
           \/ RaiseRow(r) \/ Finish(r) \/ Die(r)
  BY <1>1 DEF StartRun, SourceLost, OpenSource, FetchBatch, BeginUsers, RaiseRow, Finish, Die
<1>2. CASE TakeRow(r) \/ BreakDeadlock(r) \/ Hiccup(r)
  <2>1. PICK x \in rows[r] :
          \/ UpsertProfile(r, x) \/ UpsertUser(r, x)
          \/ \E why \in {"refused", "canonical_profile_missing"} : Fail(r, x, why)
    BY <1>2 DEF TakeRow, BreakDeadlock, Hiccup, RefuseNick, RefuseOrphan
  <2> QED  BY <2>1 DEF UpsertProfile, UpsertUser, Fail, Leave
<1>3. CASE CommitBatch(r) \/ Abort(r)
  BY <1>3 DEF CommitBatch, Abort
<1> QED  BY <1>1, <1>2, <1>3 DEF Moves, Step

\* A row of a batch is mapped in the open transaction or fails.
LEMMA TakeCases ==
  ASSUME NEW r \in Run, TakeRow(r) \/ BreakDeadlock(r) \/ Hiccup(r)
  PROVE  /\ pc[r] = "rows"
         /\ \E x \in rows[r] :
              /\ IsNext(r, x)
              /\ \/ ~ Waits(r) /\ (UpsertProfile(r, x) \/ UpsertUser(r, x))
                 \/ \E why \in {"refused", "canonical_profile_missing"} :
                      /\ Fail(r, x, why)
                      /\ why = "canonical_profile_missing" =>
                           /\ x \in User /\ snapshot[r][x] \in Profile
                           /\ NickSeen(r, snapshot[r][x]) = NoNick
<1>1. CASE TakeRow(r)
  BY <1>1 DEF TakeRow, RefuseNick, RefuseOrphan
<1>2. CASE BreakDeadlock(r)
  <2>1. pc[r] = "rows"  BY <1>2 DEF BreakDeadlock, Deadlocked, WaitsFor
  <2> QED  BY <1>2, <2>1 DEF BreakDeadlock
<1>3. CASE Hiccup(r)
  BY <1>3 DEF Hiccup
<1> QED  BY <1>1, <1>2, <1>3

\* What is mapped, reported or late stays so.
Lasting ==
  /\ Mapped \subseteq Mapped' /\ errors \subseteq errors' /\ late \subseteq late'
  /\ \A p \in Profile : nick[p] # NoNick => nick'[p] # NoNick
  /\ seats \subseteq seats'

LEMMA ThingsLast == ASSUME Typed, [Next]_vars PROVE Lasting
<1> SUFFICES /\ errors \subseteq errors' /\ late \subseteq late' /\ seats \subseteq seats'
             /\ \A p \in Profile : nick[p] # NoNick => nick'[p] # NoNick
  BY DEF Lasting, Mapped
<1>1. CASE UNCHANGED vars  BY <1>1 DEF vars, database
<1>2. ASSUME NEW x \in RowId, NEW c \in Content[x], SourceWrite(x, c)
      PROVE  /\ errors \subseteq errors' /\ late \subseteq late' /\ seats \subseteq seats'
             /\ \A p \in Profile : nick[p] # NoNick => nick'[p] # NoNick
  BY <1>2 DEF SourceWrite
<1>3. ASSUME NEW r \in Run, Moves(r)
      PROVE  /\ errors \subseteq errors' /\ late \subseteq late' /\ seats \subseteq seats'
             /\ \A p \in Profile : nick[p] # NoNick => nick'[p] # NoNick
  BY <1>3, CanonMoves DEF Canon, Publish, NickSeen
<1> QED  BY <1>1, <1>2, <1>3 DEF Next, Moves

LEMMA WriteAdds ==
  ASSUME Typed, NEW x \in RowId, NEW c \in Content[x], SourceWrite(x, c)
  PROVE  /\ Present(source)' = Present(source) \cup {x}
         /\ x \notin late' /\ x \notin Present(source) =>
              \A y \in Present(source) : StreamOf[y] = StreamOf[x] => KeyOf[y] <= KeyOf[x]
         /\ \A s \in Run : Apart(s)
         /\ UNCHANGED <<nick, seats, errors, position>> /\ late \subseteq late'
<1>1. c # NoRow  BY ContentType
<1>2. Present(source)' = Present(source) \cup {x}
  BY <1>1 DEF SourceWrite, Present, Typed, TypeOK
<1>3. x \notin late' /\ x \notin Present(source) =>
        \A y \in Present(source) : StreamOf[y] = StreamOf[x] => KeyOf[y] <= KeyOf[x]
  BY RowsAssumption DEF SourceWrite, Present
<1> QED  BY <1>2, <1>3 DEF SourceWrite, Apart, local, drafts

-----------------------------------------------------------------------------
(* What a run reads and what it has in its open transaction *)

\* A snapshot has all of the source up to any of its rows, but for late rows.
SnapshotPrefix(r) ==
  /\ Present(snapshot[r]) \subseteq Present(source)
  /\ \A x \in Present(source) \ late : \A y \in Present(snapshot[r]) :
       StreamOf[x] = StreamOf[y] /\ KeyOf[x] <= KeyOf[y] => x \in Present(snapshot[r])

\* The transaction has rows of the current stream, read in the snapshot.
Enters(r) ==
  /\ \A p \in Profile : draftNick[r][p] # NoNick =>
       p \in Present(snapshot[r]) /\ StreamOf[p] = Current(r)
  /\ \A z \in draftSeats[r] :
       /\ z[1] \in Present(snapshot[r]) /\ StreamOf[z[1]] = Current(r)
       /\ SystemOf[z[1]] = SystemOf[z[2]] /\ NickSeen(r, z[2]) # NoNick
  /\ \A e \in draftErrors[r] :
       e.run = r /\ e.row \in Present(snapshot[r]) /\ StreamOf[e.row] = Current(r)

\* No transaction is open.
Empty(r) ==
  draftNick[r] = [p \in Profile |-> NoNick] /\ draftSeats[r] = {} /\ draftErrors[r] = {}

Reads(r) ==
  /\ SnapshotPrefix(r) /\ Enters(r)
  /\ pc[r] \in {"rows", "abort"} \/ Empty(r)
  /\ pc[r] \in {"new", "connect"} => stream[r] = "profiles" /\ \A e \in errors : e.run # r
ReadsInv == \A r \in Run : Reads(r)

LEMMA EmptyEnters == ASSUME NEW r \in Run, Empty(r) PROVE Enters(r)
BY DEF Empty, Enters

LEMMA ReadsInit == Init => ReadsInv
<1> SUFFICES ASSUME Init, NEW r \in Run PROVE Reads(r)  BY DEF ReadsInv
<1>1. Empty(r) /\ pc[r] = "new" /\ stream[r] = "profiles" /\ errors = {}
      /\ Present(snapshot[r]) = {}
  BY DEF Init, Empty, Present
<1> QED  BY <1>1, EmptyEnters DEF Reads, SnapshotPrefix

\* The run's own reading does not change.
LEMMA ReadsAlone ==
  ASSUME Typed, NEW s \in Run, Reads(s), Apart(s), Lasting,
         SnapshotPrefix(s)', \A e \in errors' : e \in errors \/ e.run # s
  PROVE  Reads(s)'
<1>1. Enters(s)'
  <2>1. \A p \in Profile : NickSeen(s, p) # NoNick => NickSeen(s, p)' # NoNick
    BY DEF Apart, NickSeen, Lasting
  <2>2. \A z \in draftSeats[s] : z[2] \in Profile  BY DEF Typed, TypeOK, Seat
  <2> QED  BY <2>1, <2>2 DEF Enters, Reads, Apart, Present, Current
<1>2. pc'[s] \in {"rows", "abort"} \/ Empty(s)'  BY DEF Reads, Apart, Empty
<1> QED  BY <1>1, <1>2 DEF Reads, Apart

LEMMA PrefixAlone ==
  ASSUME NEW s \in Run, SnapshotPrefix(s), Apart(s), UNCHANGED <<source, late>>
  PROVE  SnapshotPrefix(s)'
BY DEF SnapshotPrefix, Apart, Present

\* The run's step leaves its snapshot, its stream and the canonical tables.
LEMMA ReadsOwn ==
  ASSUME Typed, NEW s \in Run, Reads(s), UNCHANGED Canon, pc'[s] \notin {"new", "connect"},
         snapshot'[s] = snapshot[s],
         pc'[s] \in {"rows", "abort"} \/ Empty(s)', Enters(s)'
  PROVE  Reads(s)'
<1>1. SnapshotPrefix(s)'  BY DEF Canon, Reads, SnapshotPrefix, Present
<1> QED  BY <1>1 DEF Reads

LEMMA ReadsTake ==
  ASSUME Typed, NEW s \in Run, Reads(s), TakeRow(s) \/ BreakDeadlock(s) \/ Hiccup(s)
  PROVE  Reads(s)'
<1> USE DEF Typed, TypeOK
<1>1. PICK x \in rows[s] :
        \/ UpsertProfile(s, x) \/ UpsertUser(s, x)
        \/ \E why \in {"refused", "canonical_profile_missing"} : Fail(s, x, why)
  BY TakeCases
<1>2. pc[s] = "rows"  BY TakeCases
<1>3. x \in Present(snapshot[s]) /\ StreamOf[x] = Current(s) /\ x \in RowId
  BY DEF RowsInv
<1>4. /\ UNCHANGED <<source, late, nick, seats, errors, pc, system, snapshot, stream>>
      /\ Present(snapshot[s])' = Present(snapshot[s]) /\ Current(s)' = Current(s)
  BY <1>1 DEF UpsertProfile, UpsertUser, Fail, Leave, database, Present, Current
<1>5. CASE UpsertProfile(s, x)
  <2>1. NickOf(s, x) \in Nick  BY <1>5, NickType DEF UpsertProfile
  <2>2. /\ draftSeats' = draftSeats /\ draftErrors' = draftErrors
        /\ \A p \in Profile : draftNick'[s][p] = IF p = x THEN NickOf(s, x) ELSE draftNick[s][p]
    BY <1>5 DEF UpsertProfile
  <2>3. \A p \in Profile : NickSeen(s, p) # NoNick => NickSeen(s, p)' # NoNick
    BY <1>4, <2>1, <2>2, ContentAssumption DEF NickSeen
  <2>4. \A z \in draftSeats[s] : z[2] \in Profile  BY DEF Seat
  <2>5. Enters(s)'  BY <1>3, <1>4, <2>2, <2>3, <2>4 DEF Enters, Reads
  <2> QED  BY <1>2, <1>4, <2>5, ReadsOwn DEF Canon
<1>6. CASE UpsertUser(s, x)
  <2>1. /\ draftNick' = draftNick /\ draftErrors' = draftErrors
        /\ draftSeats'[s] = draftSeats[s] \cup {<<x, snapshot[s][x]>>}
        /\ NickSeen(s, snapshot[s][x]) # NoNick
    BY <1>6 DEF UpsertUser
  <2>2. SystemOf[x] = SystemOf[snapshot[s][x]]
    BY <1>6, SeatType DEF UpsertUser
  <2>3. \A p : NickSeen(s, p)' = NickSeen(s, p)  BY <1>4, <2>1 DEF NickSeen
  <2>4. Enters(s)'  BY <1>3, <1>4, <2>1, <2>2, <2>3 DEF Enters, Reads
  <2> QED  BY <1>2, <1>4, <2>4, ReadsOwn DEF Canon
<1>7. ASSUME NEW why \in {"refused", "canonical_profile_missing"}, Fail(s, x, why)
      PROVE  Reads(s)'
  <2>1. /\ draftNick' = draftNick /\ draftSeats' = draftSeats
        /\ draftErrors'[s] = draftErrors[s] \cup {[run |-> s, row |-> x, why |-> why]}
    BY <1>7 DEF Fail
  <2>2. \A p : NickSeen(s, p)' = NickSeen(s, p)  BY <1>4, <2>1 DEF NickSeen
  <2>3. Enters(s)'  BY <1>3, <1>4, <2>1, <2>2 DEF Enters, Reads
  <2> QED  BY <1>2, <1>4, <2>3, ReadsOwn DEF Canon
<1> QED  BY <1>1, <1>5, <1>6, <1>7

LEMMA ReadsNext == Typed /\ ReadsInv /\ [Next]_vars => ReadsInv'
<1> SUFFICES ASSUME Typed, ReadsInv, [Next]_vars, NEW s \in Run PROVE Reads(s)'
  BY DEF ReadsInv
<1> USE DEF Typed, TypeOK
<1>0. Reads(s) /\ Lasting  BY ThingsLast DEF ReadsInv
<1>1. CASE UNCHANGED vars
  <2>1. Apart(s) /\ UNCHANGED Canon  BY <1>1 DEF vars, database, local, drafts, Apart, Canon
  <2> QED  BY <1>0, <2>1, ReadsAlone, PrefixAlone DEF Canon, Reads
<1>2. ASSUME NEW x \in RowId, NEW c \in Content[x], SourceWrite(x, c) PROVE Reads(s)'
  <2>1. SnapshotPrefix(s)'
    <3>1. Present(snapshot[s])' = Present(snapshot[s])
      BY <1>2, WriteAdds DEF Apart, Present
    <3>2. SnapshotPrefix(s)  BY <1>0 DEF Reads
    <3>3. Present(snapshot[s]) \subseteq Present(source)'
      <4>1. Present(source)' = Present(source) \cup {x}  BY <1>2, WriteAdds
      <4> QED  BY <3>2, <4>1 DEF SnapshotPrefix
    <3> SUFFICES ASSUME NEW z \in Present(source)' \ late', NEW y \in Present(snapshot[s]),
                        StreamOf[z] = StreamOf[y], KeyOf[z] <= KeyOf[y]
                 PROVE  z \in Present(snapshot[s])
      BY <3>1, <3>3 DEF SnapshotPrefix
    <3>4. CASE z \in Present(source)
      BY <1>2, <3>2, <3>4, WriteAdds DEF SnapshotPrefix
    <3>5. CASE z \notin Present(source)
      <4>1. z = x /\ x \notin late' /\ y \in Present(source)
        BY <1>2, <3>2, <3>5, WriteAdds DEF SnapshotPrefix
      <4>2. KeyOf[y] <= KeyOf[x]  BY <1>2, <3>5, <4>1, WriteAdds
      <4>3. KeyOf[x] \in Nat /\ KeyOf[y] \in Nat /\ x \in RowId /\ y \in RowId
        BY RowsAssumption DEF Present
      <4>4. KeyOf[x] <= KeyOf[y]  BY <4>1
      <4>5. StreamOf[x] = StreamOf[y]  BY <4>1
      <4>6. KeyOf[x] = KeyOf[y]  BY ONLY <4>2, <4>3, <4>4
      <4>7. x = y  BY <4>3, <4>5, <4>6, SameRow
      <4> QED  BY <4>1, <4>7
    <3> QED  BY <3>4, <3>5
  <2> QED  BY <1>0, <1>2, <2>1, ReadsAlone, WriteAdds
<1>3. ASSUME NEW r \in Run, r # s, Moves(r) PROVE Reads(s)'
  <2>1. Apart(s)  BY <1>3, OthersApart
  <2>2. UNCHANGED <<source, late>>  BY <1>3, CanonMoves DEF Canon, Publish
  <2>3. \A e \in errors' : e \in errors \/ e.run = r
    BY <1>3, CanonMoves DEF Canon, Publish, ReadsInv, Reads, Enters
  <2> QED  BY <1>0, <1>3, <2>1, <2>2, <2>3, ReadsAlone, PrefixAlone DEF Reads
<1>4. CASE StartRun(s)
  <2>1. /\ UNCHANGED Canon /\ snapshot' = snapshot /\ stream' = stream
        /\ Enters(s)' /\ Empty(s)' /\ pc'[s] = "connect" /\ pc[s] = "new"
    BY <1>0, <1>4, EmptyEnters DEF StartRun, local, drafts, Canon, Reads, Empty, Enters
  <2>2. SnapshotPrefix(s)'  BY <1>0, <2>1 DEF Reads, Canon, SnapshotPrefix, Present
  <2> QED  BY <1>0, <2>1, <2>2 DEF Reads, Canon
<1>5. CASE OpenSource(s)
  <2>1. /\ snapshot'[s] = source /\ pc'[s] = "fetch" /\ UNCHANGED Canon
        /\ Empty(s)'
    BY <1>0, <1>5 DEF OpenSource, database, drafts, Canon, Reads, Empty
  <2>2. Enters(s)'  BY <2>1 DEF Empty, Enters
  <2>3. SnapshotPrefix(s)'  BY <2>1 DEF SnapshotPrefix, Canon, Present
  <2> QED  BY <2>1, <2>2, <2>3 DEF Reads
<1>6. CASE FetchBatch(s) \/ BeginUsers(s) \/ Finish(s)
  <2>1. /\ UNCHANGED Canon /\ snapshot' = snapshot /\ pc[s] = "fetch" /\ drafts' = drafts
        /\ pc'[s] \notin {"new", "connect"}
    BY <1>6 DEF FetchBatch, BeginUsers, Finish, database, local, Canon
  <2>2. Empty(s)'  BY <1>0, <2>1 DEF Reads, Empty, drafts
  <2>3. Enters(s)'  BY <2>2 DEF Empty, Enters
  <2> QED  BY <1>0, <2>1, <2>2, <2>3, ReadsOwn
<1>7. CASE TakeRow(s) \/ BreakDeadlock(s) \/ Hiccup(s)  BY <1>0, <1>7, ReadsTake
<1>8. CASE RaiseRow(s) \/ SourceLost(s)
  <2>1. pc'[s] = "abort" /\ UNCHANGED <<database, local>>
    BY <1>8 DEF RaiseRow, SourceLost
  <2>2. Enters(s)'
    BY <1>0, <2>1 DEF Reads, Enters, local, drafts, database, Present, Current, NickSeen
  <2> QED  BY <1>0, <2>1, <2>2, ReadsOwn DEF Canon, database, local
<1>9. CASE CommitBatch(s) \/ Abort(s)
  <2>1. /\ UNCHANGED <<source, late, snapshot>> /\ pc'[s] \in {"fetch", "done"}
        /\ Publish(s)
    BY <1>9 DEF CommitBatch, Abort, Publish
  <2>2. Empty(s)'  BY <2>1 DEF Publish, Empty
  <2>3. Enters(s)'  BY <2>2 DEF Empty, Enters
  <2>4. SnapshotPrefix(s)'  BY <1>0, <2>1 DEF Reads, SnapshotPrefix, Present
  <2> QED  BY <2>1, <2>2, <2>3, <2>4 DEF Reads
<1>10. CASE Die(s)
  <2>1. UNCHANGED Canon /\ snapshot' = snapshot /\ pc'[s] = "dead" /\ Empty(s)'
    BY <1>10 DEF Die, database, Canon, Empty
  <2>2. Enters(s)'  BY <2>1 DEF Empty, Enters
  <2> QED  BY <1>0, <2>1, <2>2, ReadsOwn
<1> QED
  BY <1>1, <1>2, <1>3, <1>4, <1>5, <1>6, <1>7, <1>8, <1>9, <1>10 DEF Next, Moves, Step

LEMMA ReadsInvariant == Spec => []ReadsInv
BY ReadsInit, ReadsNext, TypedInvariant, PTL DEF Spec

-----------------------------------------------------------------------------
(* Where the cursors stand *)

Reported == {e.row : e \in errors}
\* The rows run r knows to be mapped, and those it has dealt with.
Known(r) ==
  Mapped \cup {p \in Profile : draftNick[r][p] # NoNick} \cup {z[1] : z \in draftSeats[r]}
Dealt(r) == Known(r) \cup Reported \cup {e.row : e \in draftErrors[r]}

\* A cursor is 0 or the key of a mapped row of its stream.
Follows(t, k, M) == k = 0 \/ \E x \in M : StreamOf[x] = t /\ KeyOf[x] = k

Covers(t, k, D) ==
  \A x \in Present(source) \ late : StreamOf[x] = t /\ KeyOf[x] <= k => x \in D

\* Rows below a row of the batch are in the batch or dealt with.
BatchCovers(r) ==
  \A y \in rows[r] : \A x \in Present(source) \ late :
    StreamOf[x] = Current(r) /\ KeyOf[x] < KeyOf[y] => x \in rows[r] \cup Dealt(r)

Proceeds(r) ==
  /\ Follows(Current(r), cursor[r], Known(r))
  /\ Covers(Current(r), cursor[r], Dealt(r))
  /\ BatchCovers(r)
Marks ==
  /\ Mapped \subseteq Present(source)
  /\ \A t \in Stream : /\ Follows(t, position[t], Mapped)
                       /\ Covers(t, position[t], Mapped \cup Reported)
MarksInv == Marks /\ \A r \in Run : Proceeds(r)

LEMMA KeyType == \A x \in RowId : KeyOf[x] \in Nat /\ KeyOf[x] > 0
BY RowsAssumption

LEMMA MarksInit == Init => MarksInv
<1> SUFFICES ASSUME Init PROVE MarksInv  OBVIOUS
<1>1. Mapped = {}  BY DEF Init, Mapped
<1>2. \A t, D : Covers(t, 0, D)  BY KeyType DEF Covers, Present
<1>3. Marks  BY <1>1, <1>2 DEF Marks, Init, Follows
<1>4. \A r \in Run : Proceeds(r)  BY <1>2 DEF Init, Proceeds, Follows, BatchCovers
<1> QED  BY <1>3, <1>4 DEF MarksInv

\* A commit makes known to all what the run knew.
LEMMA PublishKnown ==
  ASSUME Typed, NEW r \in Run, Publish(r)
  PROVE  /\ Mapped' = Known(r) /\ Known(r)' = Known(r)
         /\ Mapped' \cup Reported' = Dealt(r) /\ Dealt(r)' = Dealt(r)
<1> USE DEF Typed, TypeOK
<1>1. \A p \in Profile : nick'[p] # NoNick <=> nick[p] # NoNick \/ draftNick[r][p] # NoNick
  BY DEF Publish, NickSeen
<1>2. {z[1] : z \in seats'} = {z[1] : z \in seats} \cup {z[1] : z \in draftSeats[r]}
  BY DEF Publish
<1>3. Mapped' = Known(r)  BY <1>1, <1>2 DEF Mapped, Known
<1>4. Reported' = Reported \cup {e.row : e \in draftErrors[r]}  BY DEF Publish, Reported
<1>5. /\ \A p \in Profile : draftNick'[r][p] = NoNick
      /\ draftSeats'[r] = {} /\ draftErrors'[r] = {}
  BY DEF Publish
<1>6. Known(r)' = Mapped' /\ Dealt(r)' = Mapped' \cup Reported'
  BY <1>5 DEF Known, Dealt
<1>7. Dealt(r) = Known(r) \cup Reported \cup {e.row : e \in draftErrors[r]}
  BY DEF Dealt
<1> QED  BY <1>3, <1>4, <1>6, <1>7

LEMMA KnownLasts ==
  ASSUME NEW s \in Run, Lasting, draftNick'[s] = draftNick[s], draftSeats'[s] = draftSeats[s],
         draftErrors'[s] = draftErrors[s]
  PROVE  Known(s) \subseteq Known(s)' /\ Dealt(s) \subseteq Dealt(s)'
BY DEF Lasting, Known, Dealt, Reported

LEMMA CoversMore ==
  ASSUME NEW t, NEW k, NEW D, NEW E, D \subseteq E, Covers(t, k, D)
  PROVE  Covers(t, k, E)
BY DEF Covers

\* The run stays where it is and forgets nothing.
LEMMA ProceedsAlone ==
  ASSUME NEW s \in Run, Proceeds(s), UNCHANGED <<source, late>>, Current(s)' = Current(s),
         cursor'[s] = cursor[s], rows'[s] = rows[s],
         Known(s) \subseteq Known(s)', Dealt(s) \subseteq Dealt(s)'
  PROVE  Proceeds(s)'
<1>1. Follows(Current(s), cursor[s], Known(s))'  BY DEF Proceeds, Follows
<1>2. Covers(Current(s), cursor[s], Dealt(s))'  BY DEF Proceeds, Covers, Present
<1>3. BatchCovers(s)'  BY DEF Proceeds, BatchCovers, Present
<1> QED  BY <1>1, <1>2, <1>3 DEF Proceeds

\* The run begins a stream where its last run left it.
LEMMA ProceedsFrom ==
  ASSUME Typed, Marks, NEW s \in Run, UNCHANGED Canon, rows'[s] = {},
         Current(s)' \in Stream, cursor'[s] = position[Current(s)']
  PROVE  Proceeds(s)'
<1>1. Mapped \subseteq Known(s)' /\ Mapped \cup Reported \subseteq Dealt(s)'
  BY DEF Canon, Known, Dealt, Reported, Mapped
<1>2. Follows(Current(s), cursor[s], Known(s))'  BY <1>1 DEF Marks, Follows
<1>3. Covers(Current(s), cursor[s], Dealt(s))'
  BY <1>1 DEF Marks, Covers, Canon, Present
<1> QED  BY <1>2, <1>3 DEF Proceeds, BatchCovers

LEMMA ProceedsFetch ==
  ASSUME Typed, NEW s \in Run, SnapshotPrefix(s), Proceeds(s), UNCHANGED Canon,
         Current(s)' = Current(s), cursor'[s] = cursor[s], rows'[s] = Window(s),
         Known(s)' = Known(s), Dealt(s)' = Dealt(s)
  PROVE  Proceeds(s)'
<1>1. Follows(Current(s), cursor[s], Known(s))'  BY DEF Proceeds, Follows
<1>2. Covers(Current(s), cursor[s], Dealt(s))'  BY DEF Proceeds, Covers, Canon, Present
<1>3. ASSUME NEW y \in Window(s), NEW x \in Present(source) \ late,
             StreamOf[x] = Current(s), KeyOf[x] < KeyOf[y]
      PROVE  x \in Window(s) \cup Dealt(s)
  <2>1. /\ y \in Unread(s) /\ Unread(s) \subseteq RowId /\ x \in RowId
        /\ Cardinality({z \in Unread(s) : KeyOf[z] < KeyOf[y]}) < BatchSize
    BY DEF Window, Unread, Present
  <2>2. x \in Present(snapshot[s])
    <3>1. KeyOf[x] <= KeyOf[y]  BY <1>3, <2>1, KeyType
    <3> QED  BY <1>3, <2>1, <3>1 DEF SnapshotPrefix, Unread
  <2>3. CASE KeyOf[x] <= cursor[s]
    BY <1>3, <2>3 DEF Proceeds, Covers
  <2>4. CASE ~ (KeyOf[x] <= cursor[s])
    <3> DEFINE Below(k) == {z \in Unread(s) : KeyOf[z] < k}
    <3>1. KeyOf[x] \in Nat /\ KeyOf[y] \in Nat /\ cursor[s] \in Nat
          /\ \A z \in Unread(s) : KeyOf[z] \in Nat
      BY <2>1, KeyType DEF Typed, TypeOK
    <3>2. x \in Unread(s)  BY <1>3, <2>2, <2>4, <3>1 DEF Unread
    <3>3. Below(KeyOf[x]) \subseteq Below(KeyOf[y])  BY <1>3, <3>1
    <3>4. IsFiniteSet(Below(KeyOf[y])) /\ Below(KeyOf[y]) \subseteq RowId
      BY <2>1, FS_Subset, RowsAssumption
    <3> HIDE DEF Below
    <3>5. /\ Cardinality(Below(KeyOf[x])) <= Cardinality(Below(KeyOf[y]))
          /\ Cardinality(Below(KeyOf[x])) \in Nat /\ Cardinality(Below(KeyOf[y])) \in Nat
      BY <3>3, <3>4, FS_Subset, FS_CardinalityType
    <3>6. Cardinality(Below(KeyOf[y])) < BatchSize  BY <2>1 DEF Below
    <3>7. Cardinality(Below(KeyOf[x])) < BatchSize  BY <3>5, <3>6, RunsAssumption
    <3> QED  BY <3>2, <3>7 DEF Window, Below
  <2> QED  BY <2>3, <2>4
<1>4. BatchCovers(s)'  BY <1>3 DEF BatchCovers, Canon, Present
<1> QED  BY <1>1, <1>2, <1>4 DEF Proceeds

\* The next row of the batch is dealt with.
LEMMA ProceedsTake ==
  ASSUME Typed, NEW s \in Run, Proceeds(s), UNCHANGED Canon, Current(s)' = Current(s),
         NEW x \in rows[s], IsNext(s, x), rows'[s] = rows[s] \ {x},
         Known(s) \subseteq Known(s)', Dealt(s) \cup {x} \subseteq Dealt(s)',
         \/ cursor'[s] = cursor[s]
         \/ cursor'[s] = KeyOf[x] /\ x \in Known(s)'
  PROVE  Proceeds(s)'
<1>1. /\ StreamOf[x] = Current(s) /\ x \in RowId /\ KeyOf[x] \in Nat
      /\ rows[s] \subseteq RowId /\ \A z \in RowId : KeyOf[z] \in Nat
  BY KeyType DEF Typed, TypeOK, RowsInv
<1>2. Follows(Current(s), cursor[s], Known(s))'  BY <1>1 DEF Proceeds, Follows
<1>3. Covers(Current(s), cursor[s], Dealt(s))'
  <2>1. CASE cursor'[s] = cursor[s]
    BY <2>1 DEF Proceeds, Covers, Canon, Present
  <2>2. CASE cursor'[s] = KeyOf[x]
    <3> SUFFICES ASSUME NEW z \in Present(source) \ late, StreamOf[z] = Current(s),
                        KeyOf[z] <= KeyOf[x]
                 PROVE  z \in Dealt(s)'
      BY <2>2 DEF Covers, Canon, Present
    <3>1. z \in RowId  BY DEF Present
    <3>2. CASE KeyOf[z] = KeyOf[x]
      BY <1>1, <3>1, <3>2, SameRow
    <3>3. CASE KeyOf[z] < KeyOf[x]
      <4>1. z \in rows[s] \cup Dealt(s)  BY <3>3 DEF Proceeds, BatchCovers
      <4>2. z \notin rows[s]  BY <1>1, <3>1, <3>3 DEF IsNext
      <4> QED  BY <4>1, <4>2
    <3> QED  BY <1>1, <3>1, <3>2, <3>3
  <2> QED  BY <2>1, <2>2
<1>4. BatchCovers(s)'  BY DEF Proceeds, BatchCovers, Canon, Present
<1> QED  BY <1>2, <1>3, <1>4 DEF Proceeds

\* A new row of the source lies above every cursor, or is late.
LEMMA NewIsAbove ==
  ASSUME Typed, ReadsInv, MarksInv, NEW x \in RowId, NEW c \in Content[x], SourceWrite(x, c),
         NEW z \in Present(source)' \ late', z \notin Present(source),
         NEW y \in Present(source), StreamOf[y] = StreamOf[z]
  PROVE  KeyOf[y] < KeyOf[z]
<1>1. z = x /\ y \in RowId  BY WriteAdds DEF Present
<1>2. KeyOf[y] <= KeyOf[x]  BY <1>1, WriteAdds
<1>3. KeyOf[y] # KeyOf[x]  BY <1>1, SameRow
<1> QED  BY <1>1, <1>2, <1>3, KeyType

LEMMA CoversWrite ==
  ASSUME Typed, ReadsInv, MarksInv, NEW x \in RowId, NEW c \in Content[x], SourceWrite(x, c),
         NEW t, NEW k \in Nat, NEW M, Follows(t, k, M), M \subseteq Present(source),
         NEW D, Covers(t, k, D)
  PROVE  \A z \in Present(source)' \ late' : StreamOf[z] = t /\ KeyOf[z] <= k => z \in D
<1> SUFFICES ASSUME NEW z \in Present(source)' \ late', StreamOf[z] = t, KeyOf[z] <= k
             PROVE  z \in D
  OBVIOUS
<1>0. z \in RowId /\ KeyOf[z] \in Nat /\ KeyOf[z] > 0  BY KeyType DEF Present
<1>1. CASE z \in Present(source)
  BY <1>1, WriteAdds DEF Covers
<1>2. CASE z \notin Present(source)
  <2>1. PICK y \in M : StreamOf[y] = t /\ KeyOf[y] = k  BY <1>0 DEF Follows
  <2>2. KeyOf[y] < KeyOf[z]  BY <1>2, <2>1, NewIsAbove
  <2> QED  BY <1>0, <2>1, <2>2
<1> QED  BY <1>1, <1>2

\* Known rows are in the source.
LEMMA KnownOffered ==
  ASSUME Typed, ReadsInv, MarksInv, NEW r \in Run
  PROVE  Known(r) \subseteq Present(source)
<1>1. Enters(r) /\ SnapshotPrefix(r)  BY DEF ReadsInv, Reads
<1> QED  BY <1>1 DEF Known, Enters, SnapshotPrefix, MarksInv, Marks

LEMMA ProceedsOwn ==
  ASSUME Typed, Typed', ReadsInv, MarksInv, [Next]_vars, NEW s \in Run, Moves(s)
  PROVE  Proceeds(s)'
<1> USE DEF Typed, TypeOK
<1>0. /\ Proceeds(s) /\ Marks /\ Reads(s) /\ Lasting /\ \A r \in Run : Current(r) \in Stream
  BY ThingsLast DEF MarksInv, ReadsInv, Current, Stream
<1>1. CASE StartRun(s) \/ SourceLost(s) \/ RaiseRow(s) \/ Finish(s)
  <2>1. UNCHANGED local /\ UNCHANGED Canon
    BY <1>1 DEF StartRun, SourceLost, RaiseRow, Finish, database, Canon
  <2>2. Known(s) \subseteq Known(s)' /\ Dealt(s) \subseteq Dealt(s)'
    BY <1>0, <2>1, KnownLasts DEF local, drafts
  <2> QED  BY <1>0, <2>1, <2>2, ProceedsAlone DEF local, Canon, Current
<1>2. CASE OpenSource(s) \/ BeginUsers(s)
  <2>1. UNCHANGED Canon /\ rows' = rows /\ rows[s] = {} /\ system' = system
        /\ position' = position
    BY <1>2 DEF OpenSource, BeginUsers, database, Canon, RowsInv
  <2>2. Current(s)' \in Stream  BY DEF Current, Stream
  <2>3. cursor'[s] = position[Current(s)']
    <3>1. CASE OpenSource(s)
      BY <1>0, <3>1 DEF OpenSource, Current, Reads
    <3>2. CASE BeginUsers(s)
      BY <3>2 DEF BeginUsers, Current
    <3> QED  BY <1>2, <3>1, <3>2
  <2> QED  BY <1>0, <2>1, <2>2, <2>3, ProceedsFrom
<1>3. CASE FetchBatch(s)
  <2>1. /\ UNCHANGED Canon /\ UNCHANGED drafts /\ Current(s)' = Current(s)
        /\ cursor' = cursor /\ rows'[s] = Window(s)
    BY <1>3 DEF FetchBatch, database, Canon, Current
  <2>2. Known(s)' = Known(s) /\ Dealt(s)' = Dealt(s)
    BY <2>1 DEF Canon, drafts, Known, Dealt, Mapped, Reported
  <2> QED  BY <1>0, <2>1, <2>2, ProceedsFetch DEF Reads
<1>4. CASE TakeRow(s) \/ BreakDeadlock(s) \/ Hiccup(s)
  <2>1. PICK x \in rows[s] :
          /\ IsNext(s, x)
          /\ \/ UpsertProfile(s, x) \/ UpsertUser(s, x)
             \/ \E why \in {"refused", "canonical_profile_missing"} : Fail(s, x, why)
    BY <1>4, TakeCases
  <2>2. /\ UNCHANGED Canon /\ Current(s)' = Current(s) /\ rows'[s] = rows[s] \ {x}
        /\ Mapped' = Mapped /\ Reported' = Reported
    BY <2>1 DEF UpsertProfile, UpsertUser, Fail, Leave, database, Canon, Current, Mapped, Reported
  <2>3. CASE UpsertProfile(s, x)
    <3>1. NickOf(s, x) \in Nick /\ NoNick \notin Nick
      BY <2>3, NickType, ContentAssumption DEF UpsertProfile
    <3>2. /\ \A p \in Profile : draftNick'[s][p] = IF p = x THEN NickOf(s, x)
                                                   ELSE draftNick[s][p]
          /\ draftSeats' = draftSeats /\ draftErrors' = draftErrors /\ x \in Profile
          /\ cursor'[s] = KeyOf[x]
      BY <2>3 DEF UpsertProfile, Leave
    <3>3. Known(s) \cup {x} \subseteq Known(s)'  BY <2>2, <3>1, <3>2 DEF Known
    <3>4. Dealt(s) \cup {x} \subseteq Dealt(s)'  BY <2>2, <3>2, <3>3 DEF Dealt
    <3> QED  BY <1>0, <2>1, <2>2, <3>2, <3>3, <3>4, ProceedsTake
  <2>4. CASE UpsertUser(s, x)
    <3>1. /\ draftSeats'[s] = draftSeats[s] \cup {<<x, snapshot[s][x]>>}
          /\ draftNick' = draftNick /\ draftErrors' = draftErrors
          /\ cursor'[s] = KeyOf[x]
      BY <2>4 DEF UpsertUser, Leave
    <3>a. <<x, snapshot[s][x]>>[1] = x  OBVIOUS
    <3>b. {z[1] : z \in draftSeats'[s]} = {z[1] : z \in draftSeats[s]} \cup {x}
      BY ONLY <3>1, <3>a
    <3>2. Known(s) \cup {x} \subseteq Known(s)'  BY <2>2, <3>1, <3>b DEF Known
    <3>3. Dealt(s) \cup {x} \subseteq Dealt(s)'  BY <2>2, <3>1, <3>2 DEF Dealt
    <3> QED  BY <1>0, <2>1, <2>2, <3>1, <3>2, <3>3, ProceedsTake
  <2>5. ASSUME NEW why \in {"refused", "canonical_profile_missing"}, Fail(s, x, why)
        PROVE  Proceeds(s)'
    <3>1. /\ draftErrors'[s] = draftErrors[s] \cup {[run |-> s, row |-> x, why |-> why]}
          /\ draftNick' = draftNick /\ draftSeats' = draftSeats
          /\ cursor'[s] = cursor[s]
      BY <2>5 DEF Fail, Leave
    <3>2. Known(s)' = Known(s)  BY <2>2, <3>1 DEF Known
    <3>a. [run |-> s, row |-> x, why |-> why].row = x  OBVIOUS
    <3>b. {e.row : e \in draftErrors'[s]} = {e.row : e \in draftErrors[s]} \cup {x}
      BY ONLY <3>1, <3>a
    <3>3. Dealt(s) \cup {x} \subseteq Dealt(s)'  BY <2>2, <3>2, <3>b DEF Dealt
    <3> QED  BY <1>0, <2>1, <2>2, <3>1, <3>2, <3>3, ProceedsTake
  <2> QED  BY <2>1, <2>3, <2>4, <2>5
<1>5. CASE CommitBatch(s) \/ Abort(s)
  <2>1. /\ Publish(s) /\ UNCHANGED <<source, late, cursor, rows>> /\ Current(s)' = Current(s)
    BY <1>5 DEF CommitBatch, Abort, Publish, Current
  <2>2. Known(s)' = Known(s) /\ Dealt(s)' = Dealt(s)  BY <2>1, PublishKnown
  <2> QED  BY <1>0, <2>1, <2>2, ProceedsAlone
<1>6. CASE Die(s)
  <2>1. cursor'[s] = 0 /\ rows'[s] = {}  BY <1>6 DEF Die
  <2> QED  BY <2>1, KeyType DEF Proceeds, Follows, Covers, BatchCovers, Present
<1> QED  BY <1>1, <1>2, <1>3, <1>4, <1>5, <1>6 DEF Moves, Step

LEMMA MarksMove ==
  ASSUME Typed, ReadsInv, MarksInv, NEW r \in Run, Moves(r), Lasting
  PROVE  Marks'
<1>1. CASE CommitBatch(r) \/ Abort(r)
  <2>1. Publish(r) /\ UNCHANGED <<source, late>> /\ Present(source)' = Present(source)
    BY <1>1 DEF CommitBatch, Abort, Publish, Present
  <2>2. /\ Mapped' = Known(r) /\ Mapped' \cup Reported' = Dealt(r)
        /\ Mapped \subseteq Mapped' /\ Mapped \cup Reported \subseteq Mapped' \cup Reported'
    BY <2>1, PublishKnown DEF Known, Dealt
  <2>3. Mapped' \subseteq Present(source)'  BY <2>1, <2>2, KnownOffered
  <2>4. /\ Follows(Current(r), cursor[r], Mapped') /\ Covers(Current(r), cursor[r], Dealt(r))
    BY <2>2 DEF MarksInv, Proceeds
  <2>5. \A t \in Stream : \/ position'[t] = position[t]
                          \/ t = Current(r) /\ position'[t] = cursor[r]
    BY <1>1 DEF CommitBatch, Abort, Typed, TypeOK
  <2>6. ASSUME NEW t \in Stream
        PROVE  Follows(t, position'[t], Mapped')
               /\ Covers(t, position'[t], Mapped' \cup Reported')
    <3>1. Follows(t, position[t], Mapped')  BY <2>2 DEF MarksInv, Marks, Follows
    <3>2. Covers(t, position[t], Mapped' \cup Reported')
      BY <2>2, CoversMore DEF MarksInv, Marks
    <3> QED  BY <2>2, <2>4, <2>5, <3>1, <3>2
  <2>7. ASSUME NEW t \in Stream
        PROVE  Follows(t, position[t], Mapped)' /\ Covers(t, position[t], Mapped \cup Reported)'
    BY <2>1, <2>6 DEF Follows, Covers
  <2> QED  BY <2>3, <2>7 DEF Marks
<1>2. CASE UNCHANGED Canon /\ UNCHANGED position
  <2>1. Mapped' = Mapped /\ Reported' = Reported /\ Present(source)' = Present(source)
    BY <1>2 DEF Canon, Mapped, Reported, Present
  <2> QED  BY <1>2, <2>1 DEF MarksInv, Marks, Follows, Covers, Canon
<1>3. CommitBatch(r) \/ Abort(r) \/ (UNCHANGED Canon /\ UNCHANGED position)
  <2>1. CASE TakeRow(r) \/ BreakDeadlock(r) \/ Hiccup(r)
    <3>1. PICK x \in rows[r] :
            \/ UpsertProfile(r, x) \/ UpsertUser(r, x)
            \/ \E why \in {"refused", "canonical_profile_missing"} : Fail(r, x, why)
      BY <2>1, TakeCases
    <3> QED  BY <3>1 DEF UpsertProfile, UpsertUser, Fail, Leave, database, Canon
  <2> QED
    BY <2>1 DEF Moves, Step, StartRun, SourceLost, OpenSource, FetchBatch, BeginUsers, RaiseRow,
       Finish, Die, database, Canon
<1> QED  BY <1>1, <1>2, <1>3

LEMMA MarksNext == Typed /\ Typed' /\ ReadsInv /\ MarksInv /\ [Next]_vars => MarksInv'
<1> SUFFICES ASSUME Typed, Typed', ReadsInv, MarksInv, [Next]_vars PROVE MarksInv'
  OBVIOUS
<1>0. Lasting  BY ThingsLast
<1>1. CASE UNCHANGED vars
  <2>1. UNCHANGED <<source, late, nick, seats, errors, position, cursor, rows, draftNick,
                    draftSeats, draftErrors, system, stream>>
    BY <1>1 DEF vars, database, local, drafts
  <2>2. /\ Mapped' = Mapped /\ Reported' = Reported /\ Present(source)' = Present(source)
        /\ \A s \in Run : /\ Known(s)' = Known(s) /\ Dealt(s)' = Dealt(s)
                          /\ Current(s)' = Current(s)
    BY <2>1 DEF Known, Dealt, Mapped, Reported, Present, Current
  <2>3. Marks'  BY <2>1, <2>2 DEF MarksInv, Marks, Follows, Covers
  <2>4. \A s \in Run : Proceeds(s)'
    BY <2>1, <2>2, ProceedsAlone DEF MarksInv
  <2> QED  BY <2>3, <2>4 DEF MarksInv
<1>2. ASSUME NEW x \in RowId, NEW c \in Content[x], SourceWrite(x, c) PROVE MarksInv'
  <2>1. /\ Mapped' = Mapped /\ Reported' = Reported /\ position' = position
        /\ Present(source) \subseteq Present(source)'
    BY <1>2, WriteAdds DEF Mapped, Reported
  <2>2. Marks'
    <3> SUFFICES ASSUME NEW t \in Stream
                 PROVE  Follows(t, position[t], Mapped)'
                        /\ Covers(t, position[t], Mapped \cup Reported)'
      BY <2>1 DEF MarksInv, Marks
    <3>1. /\ Follows(t, position[t], Mapped) /\ Covers(t, position[t], Mapped \cup Reported)
          /\ Mapped \subseteq Present(source) /\ position[t] \in Nat
      BY DEF MarksInv, Marks, Typed, TypeOK
    <3>2. \A z \in Present(source)' \ late' :
            StreamOf[z] = t /\ KeyOf[z] <= position[t] => z \in Mapped \cup Reported
      BY <1>2, <3>1, CoversWrite
    <3> QED  BY <2>1, <3>1, <3>2 DEF Follows, Covers
  <2>3. ASSUME NEW s \in Run PROVE Proceeds(s)'
    <3>1. Apart(s) /\ Proceeds(s)  BY <1>2, WriteAdds DEF MarksInv
    <3>2. Known(s)' = Known(s) /\ Dealt(s)' = Dealt(s) /\ Current(s)' = Current(s)
      BY <2>1, <3>1 DEF Apart, Known, Dealt, Current
    <3>3. Known(s) \subseteq Present(source)  BY KnownOffered
    <3>4. Follows(Current(s), cursor[s], Known(s))'
      BY <3>1, <3>2 DEF Apart, Proceeds, Follows
    <3>5. \A z \in Present(source)' \ late' :
            StreamOf[z] = Current(s) /\ KeyOf[z] <= cursor[s] => z \in Dealt(s)
      <4>1. cursor[s] \in Nat  BY DEF Typed, TypeOK
      <4> QED  BY <1>2, <3>1, <3>3, <4>1, CoversWrite DEF Proceeds
    <3>6. Covers(Current(s), cursor[s], Dealt(s))'
      BY <3>1, <3>2, <3>5 DEF Apart, Covers
    <3>7. ASSUME NEW y \in rows[s], NEW z \in Present(source)' \ late',
                 StreamOf[z] = Current(s), KeyOf[z] < KeyOf[y]
          PROVE  z \in rows[s] \cup Dealt(s)
      <4>1. CASE z \in Present(source)
        BY <1>2, <3>1, <3>7, <4>1, WriteAdds DEF Proceeds, BatchCovers
      <4>2. CASE z \notin Present(source)
        <5>1. y \in Present(source) /\ StreamOf[y] = Current(s)
          BY DEF Typed, RowsInv, ReadsInv, Reads, SnapshotPrefix
        <5>2. KeyOf[y] < KeyOf[z]  BY <1>2, <3>7, <4>2, <5>1, NewIsAbove
        <5>3. KeyOf[y] \in Nat /\ KeyOf[z] \in Nat  BY <5>1, KeyType DEF Present
        <5> QED  BY <3>7, <5>2, <5>3
      <4> QED  BY <4>1, <4>2
    <3>8. BatchCovers(s)'  BY <3>1, <3>2, <3>7 DEF Apart, BatchCovers
    <3> QED  BY <3>4, <3>6, <3>8 DEF Proceeds
  <2> QED  BY <2>2, <2>3 DEF MarksInv
<1>3. ASSUME NEW r \in Run, Moves(r) PROVE MarksInv'
  <2>1. Marks'  BY <1>0, <1>3, MarksMove
  <2>2. ASSUME NEW s \in Run, s # r PROVE Proceeds(s)'
    <3>1. Apart(s)  BY <1>3, <2>2, OthersApart
    <3>2. Known(s) \subseteq Known(s)' /\ Dealt(s) \subseteq Dealt(s)'
      BY <1>0, <3>1, KnownLasts DEF Apart
    <3>3. UNCHANGED <<source, late>>  BY <1>3, CanonMoves DEF Canon, Publish
    <3>4. Current(s)' = Current(s) /\ cursor'[s] = cursor[s] /\ rows'[s] = rows[s]
      BY <3>1 DEF Apart, Current
    <3> QED  BY <3>2, <3>3, <3>4, ProceedsAlone DEF MarksInv
  <2>3. Proceeds(r)'  BY <1>3, ProceedsOwn
  <2> QED  BY <2>1, <2>2, <2>3 DEF MarksInv
<1> QED  BY <1>1, <1>2, <1>3 DEF Next, Moves

LEMMA MarksInvariant == Spec => []MarksInv
BY MarksInit, MarksNext, TypedInvariant, ReadsInvariant, PTL DEF Spec

(* However rows fail, batches are lost and runs overlap, a stored cursor is *)
(* at a row of its stream that has a canonical identity.                    *)
THEOREM CursorsAreMapped == Spec => []CursorIsMapped
<1>1. MarksInv => CursorIsMapped
  BY DEF MarksInv, Marks, Follows, CursorIsMapped
<1> QED  BY <1>1, MarksInvariant, PTL

-----------------------------------------------------------------------------
(* The sync implements the ledger *)

Entries == <<source, late, nick, seats, errors, position>>

LEMMA Quietly == UNCHANGED Entries => UNCHANGED Ledger!vars
BY DEF Entries, Ledger!vars, Present, Mapped

LEMMA OfferStep ==
  ASSUME Typed, NEW x \in RowId, NEW c \in Content[x], SourceWrite(x, c)
  PROVE  [Ledger!Next]_(Ledger!vars)
<1>1. /\ Present(source)' = Present(source) \cup {x} /\ Mapped' = Mapped
      /\ UNCHANGED <<errors, position>>
  BY WriteAdds DEF Mapped
<1>2. CASE x \in Present(source)
  <2>1. late' = late /\ Present(source)' = Present(source)
    BY <1>1, <1>2 DEF SourceWrite, Present
  <2> QED  BY <1>1, <2>1 DEF Ledger!vars
<1>3. CASE x \notin Present(source)
  <2>1. late' = IF \E y \in Present(source) : StreamOf[y] = StreamOf[x] /\ KeyOf[y] > KeyOf[x]
                THEN late \cup {x} ELSE late
    BY <1>3 DEF SourceWrite, Present
  <2>2. Ledger!Offer(x)  BY <1>1, <1>3, <2>1 DEF Ledger!Offer
  <2> QED  BY <2>2 DEF Ledger!Next
<1> QED  BY <1>2, <1>3

\* A commit is an entry of the run's stream, at its cursor or at the old mark.
LEMMA EnterStep ==
  ASSUME Typed, ReadsInv, MarksInv, NEW r \in Run, Publish(r), NEW k \in Nat,
         NEW t \in Stream, t = Current(r), position' = [position EXCEPT ![t] = k],
         k = cursor[r] \/ k = position[t]
  PROVE  Ledger!Next
<1> DEFINE mine == {x \in Present(source) : StreamOf[x] = t}
<1>1. /\ Present(source)' = Present(source) /\ UNCHANGED <<source, late>>
      /\ Enters(r) /\ SnapshotPrefix(r) /\ Marks /\ Proceeds(r)
  BY DEF Publish, Present, ReadsInv, Reads, MarksInv
<1>2. /\ Mapped' = Known(r) /\ Mapped' \cup Reported' = Dealt(r)
  BY PublishKnown
<1>3. Mapped \subseteq Mapped' /\ Mapped' \subseteq Mapped \cup mine
  BY <1>1, <1>2 DEF Known, Enters, SnapshotPrefix
<1>4. Reported \subseteq Reported' /\ Reported' \subseteq Reported \cup mine
  BY <1>1 DEF Publish, Reported, Enters, SnapshotPrefix
<1>5. k \in {0} \cup {KeyOf[x] : x \in mine}
  <2>1. Follows(t, k, Known(r))
    BY <1>1 DEF Marks, Proceeds, Follows, Known
  <2>2. Known(r) \subseteq Present(source)  BY KnownOffered
  <2> QED  BY <2>1, <2>2 DEF Follows
<1>6. Covers(t, k, Mapped' \cup Reported')
  <2>1. Mapped \cup Reported \subseteq Dealt(r)  BY DEF Dealt, Known
  <2>2. Covers(t, position[t], Dealt(r))  BY <1>1, <2>1, CoversMore DEF Marks
  <2> QED  BY <1>1, <1>2, <2>2 DEF Proceeds
<1>7. Ledger!Enter(t)
  <2>1. Ledger!Covers(t, k, Mapped', Reported')
    BY <1>6 DEF Covers, Ledger!Covers
  <2> QED
    BY <1>1, <1>3, <1>4, <1>5, <2>1 DEF Ledger!Enter, Reported
<1> QED  BY <1>7 DEF Ledger!Next

LEMMA LedgerStep ==
  Typed /\ ReadsInv /\ MarksInv /\ [Next]_vars => [Ledger!Next]_(Ledger!vars)
<1> SUFFICES ASSUME Typed, ReadsInv, MarksInv, [Next]_vars
             PROVE  [Ledger!Next]_(Ledger!vars)
  OBVIOUS
<1>1. CASE UNCHANGED vars
  BY <1>1, Quietly DEF vars, database, Entries
<1>2. ASSUME NEW x \in RowId, NEW c \in Content[x], SourceWrite(x, c)
      PROVE  [Ledger!Next]_(Ledger!vars)
  BY <1>2, OfferStep
<1>3. ASSUME NEW r \in Run, CommitBatch(r) PROVE Ledger!Next
  <2>1. cursor[r] \in Nat /\ Current(r) \in Stream
    BY DEF Typed, TypeOK, Current, Stream
  <2> QED  BY <1>3, <2>1, EnterStep DEF CommitBatch
<1>4. ASSUME NEW r \in Run, Abort(r) PROVE Ledger!Next
  <2>1. Current(r) \in Stream /\ position[Current(r)] \in Nat
    BY DEF Typed, TypeOK, Current, Stream
  <2>2. position' = [position EXCEPT ![Current(r)] = position[Current(r)]]
    BY <1>4, <2>1 DEF Abort, Typed, TypeOK
  <2> QED  BY <1>4, <2>1, <2>2, EnterStep DEF Abort
<1>5. ASSUME NEW r \in Run, Moves(r), ~ CommitBatch(r), ~ Abort(r)
      PROVE  UNCHANGED Ledger!vars
  <2>1. CASE TakeRow(r) \/ BreakDeadlock(r) \/ Hiccup(r)
    <3>1. PICK x \in rows[r] :
            \/ UpsertProfile(r, x) \/ UpsertUser(r, x)
            \/ \E why \in {"refused", "canonical_profile_missing"} : Fail(r, x, why)
      BY <2>1, TakeCases
    <3> QED  BY <3>1, Quietly DEF UpsertProfile, UpsertUser, Fail, Leave, database, Entries
  <2> QED
    BY <1>5, <2>1, Quietly DEF Moves, Step, StartRun, SourceLost, OpenSource, FetchBatch,
       BeginUsers, RaiseRow, Finish, Die, database, Entries
<1> QED  BY <1>1, <1>2, <1>3, <1>4, <1>5 DEF Next, Moves

(* Whatever runs of any systems overlap, fail or die, each commit is an     *)
(* entry of the ledger: rows of one stream, its errors, and a cursor below  *)
(* which every row is mapped or reported.                                   *)
THEOREM LedgerKept == Spec => ImplementsLedger
<1>1. Init => Ledger!Init
  <2> SUFFICES ASSUME Init PROVE Ledger!Init  OBVIOUS
  <2>1. Mapped = {} /\ errors = {} /\ late = {} /\ position = [t \in Stream |-> 0]
    BY DEF Init, Mapped
  <2>2. Present(source) \in SUBSET RowId  BY DEF Present
  <2>3. {e.row : e \in errors} = {}  BY <2>1
  <2> QED  BY <2>1, <2>2, <2>3 DEF Ledger!Init
<1> QED
  BY <1>1, LedgerStep, TypedInvariant, ReadsInvariant, MarksInvariant, PTL
     DEF Spec, ImplementsLedger, Ledger!Spec

-----------------------------------------------------------------------------
(* What the end of a run and its errors mean *)

\* The profiles of the snapshot are done with when the users begin.
Profiled(r) ==
  stream[r] = "profiles_users" =>
    \A p \in Profile : p \in Present(snapshot[r]) \ late /\ SystemOf[p] = system[r] =>
      p \in Mapped \cup Reported
Ended(r) ==
  status[r] = "success" =>
    /\ pc[r] = "done"
    /\ \A x \in Present(snapshot[r]) \ late :
         SystemOf[x] = system[r] =>
           x \in Mapped \/ \E e \in errors : e.row = x /\ e.run # r
Explained(e) ==
  e.why = "canonical_profile_missing" =>
    LET p == snapshot[e.run][e.row] IN p \in Present(snapshot[e.run]) \ late => p \in Reported
OutcomeInv ==
  /\ \A r \in Run : Profiled(r) /\ Ended(r)
  /\ \A e \in errors : Explained(e)
  /\ \A r \in Run : \A e \in draftErrors[r] : Explained(e)

\* A batch is empty only when no row is left above the cursor.
LEMMA NothingUnread ==
  ASSUME Typed, NEW r \in Run, Window(r) = {}
  PROVE  Unread(r) = {}
<1> SUFFICES ASSUME Unread(r) # {} PROVE FALSE  OBVIOUS
<1>1. Unread(r) \subseteq RowId  BY DEF Unread, Present
<1> DEFINE Keys == {KeyOf[x] : x \in Unread(r)}
<1>2. Keys \subseteq Nat /\ Keys # {}  BY <1>1, RowsAssumption
<1>3. PICK k \in Keys : \A j \in Keys : ~ (<<j, k>> \in OpToRel(<, Nat))
  BY <1>2, WFMin, NatLessThanWellFounded
<1>4. PICK x \in Unread(r) : KeyOf[x] = k  OBVIOUS
<1>5. ASSUME NEW y \in Unread(r), KeyOf[y] < KeyOf[x] PROVE FALSE
  <2>1. <<KeyOf[y], KeyOf[x]>> \in Nat \X Nat /\ KeyOf[y] \in Keys  BY <1>2, <1>4
  <2> QED  BY <1>3, <1>4, <1>5, <2>1 DEF OpToRel
<1>6. {y \in Unread(r) : KeyOf[y] < KeyOf[x]} = {}  BY <1>5
<1>7. Cardinality({}) = 0  BY FS_EmptySet
<1>8. Cardinality({y \in Unread(r) : KeyOf[y] < KeyOf[x]}) < BatchSize
  BY <1>6, <1>7, RunsAssumption
<1> QED  BY <1>4, <1>8 DEF Window

\* At the end of a stream every row of it is mapped or reported.
LEMMA StreamDone ==
  ASSUME Typed, ReadsInv, MarksInv, NEW r \in Run, pc[r] = "fetch", Window(r) = {},
         NEW x \in Present(snapshot[r]) \ late, StreamOf[x] = Current(r)
  PROVE  x \in Mapped \cup Reported
<1>1. /\ x \in RowId /\ KeyOf[x] \in Nat /\ cursor[r] \in Nat /\ x \in Present(source)
  BY KeyType DEF Typed, TypeOK, Present, ReadsInv, Reads, SnapshotPrefix
<1>2. ~ (KeyOf[x] > cursor[r])  BY NothingUnread DEF Unread
<1>3. KeyOf[x] <= cursor[r]  BY <1>1, <1>2
<1>4. x \in Dealt(r)  BY <1>1, <1>3 DEF MarksInv, Proceeds, Covers
<1>5. Empty(r)  BY DEF ReadsInv, Reads
<1>6. Dealt(r) = Mapped \cup Reported
  BY <1>5 DEF Empty, Dealt, Known
<1> QED  BY <1>4, <1>6

LEMMA OutcomeInit == Init => OutcomeInv
BY DEF Init, OutcomeInv, Profiled, Ended

LEMMA ExplainedLasts ==
  ASSUME Lasting, NEW e \in Error, Explained(e), snapshot'[e.run] = snapshot[e.run]
  PROVE  Explained(e)'
BY DEF Lasting, Explained, Present, Reported

LEMMA ProfiledLasts ==
  ASSUME Lasting, NEW r \in Run, Profiled(r), stream'[r] = stream[r],
         system'[r] = system[r], snapshot'[r] = snapshot[r]
  PROVE  Profiled(r)'
BY DEF Lasting, Profiled, Present, Reported

LEMMA EndedLasts ==
  ASSUME Lasting, NEW r \in Run, Ended(r), status'[r] = status[r], pc'[r] = pc[r],
         system'[r] = system[r], snapshot'[r] = snapshot[r]
  PROVE  Ended(r)'
BY DEF Lasting, Ended, Present

LEMMA OutcomeProfiled ==
  ASSUME Typed, ReadsInv, MarksInv, OutcomeInv, [Next]_vars, NEW s \in Run
  PROVE  Profiled(s)'
<1> USE DEF Typed, TypeOK
<1>0. Profiled(s) /\ Lasting  BY ThingsLast DEF OutcomeInv
<1>1. CASE UNCHANGED vars  BY <1>0, <1>1, ProfiledLasts DEF vars, local
<1>2. ASSUME NEW x \in RowId, NEW c \in Content[x], SourceWrite(x, c) PROVE Profiled(s)'
  BY <1>0, <1>2, ProfiledLasts, WriteAdds DEF Apart
<1>3. ASSUME NEW r \in Run, r # s, Moves(r) PROVE Profiled(s)'
  BY <1>0, <1>3, ProfiledLasts, OthersApart DEF Apart
<1>4. CASE OpenSource(s)
  <2>1. stream'[s] = "profiles"  BY <1>4 DEF OpenSource, ReadsInv, Reads
  <2> QED  BY <2>1 DEF Profiled
<1>5. CASE BeginUsers(s)
  <2>1. /\ pc[s] = "fetch" /\ Window(s) = {} /\ stream[s] = "profiles"
        /\ UNCHANGED Canon /\ UNCHANGED <<system, snapshot>>
    BY <1>5 DEF BeginUsers, database, Canon
  <2>2. \A p \in Profile : SystemOf[p] = system[s] => StreamOf[p] = Current(s)
    BY <2>1 DEF StreamOf, RowId, Current
  <2>3. \A p \in Profile : p \in Present(snapshot[s]) \ late /\ SystemOf[p] = system[s] =>
          p \in Mapped \cup Reported
    BY <2>1, <2>2, StreamDone
  <2> QED  BY <2>1, <2>3 DEF Profiled, Canon, Present, Mapped, Reported
<1>6. CASE Moves(s) /\ ~ OpenSource(s) /\ ~ BeginUsers(s)
  <2>1. UNCHANGED <<system, snapshot, stream>>
    <3>1. CASE TakeRow(s) \/ BreakDeadlock(s) \/ Hiccup(s)
      <4>1. PICK x \in rows[s] :
              \/ UpsertProfile(s, x) \/ UpsertUser(s, x)
              \/ \E why \in {"refused", "canonical_profile_missing"} : Fail(s, x, why)
        BY <3>1, TakeCases
      <4> QED  BY <4>1 DEF UpsertProfile, UpsertUser, Fail, Leave
    <3> QED
      BY <1>6, <3>1 DEF Moves, Step, StartRun, SourceLost, FetchBatch, RaiseRow, Finish,
         CommitBatch, Abort, Die, local
  <2> QED  BY <1>0, <2>1, ProfiledLasts
<1> QED  BY <1>1, <1>2, <1>3, <1>4, <1>5, <1>6 DEF Next, Moves, Step

LEMMA OutcomeEnded ==
  ASSUME Typed, ReadsInv, MarksInv, OutcomeInv, [Next]_vars, NEW s \in Run
  PROVE  Ended(s)'
<1> USE DEF Typed, TypeOK
<1>0. Ended(s) /\ Profiled(s) /\ Lasting  BY ThingsLast DEF OutcomeInv
<1>1. CASE UNCHANGED vars  BY <1>0, <1>1, EndedLasts DEF vars, local, database
<1>2. ASSUME NEW x \in RowId, NEW c \in Content[x], SourceWrite(x, c) PROVE Ended(s)'
  BY <1>0, <1>2, EndedLasts, WriteAdds DEF Apart
<1>3. ASSUME NEW r \in Run, r # s, Moves(r) PROVE Ended(s)'
  BY <1>0, <1>3, EndedLasts, OthersApart DEF Apart
<1>4. CASE Finish(s)
  <2>1. /\ pc[s] = "fetch" /\ Window(s) = {} /\ stream[s] = "profiles_users"
        /\ UNCHANGED Canon /\ UNCHANGED <<system, snapshot>> /\ pc'[s] = "done"
        /\ status'[s] = IF \E e \in errors : e.run = s THEN "partial" ELSE "success"
    BY <1>4 DEF Finish, local, Canon
  <2> SUFFICES ASSUME status'[s] = "success", NEW x \in Present(snapshot[s]) \ late,
                      SystemOf[x] = system[s]
               PROVE  x \in Mapped \/ \E e \in errors : e.row = x /\ e.run # s
    BY <2>1 DEF Ended, Canon, Present, Mapped
  <2>2. \A e \in errors : e.run # s  BY <2>1
  <2>3. x \in Mapped \cup Reported
    <3>1. CASE x \in Profile  BY <1>0, <2>1, <3>1 DEF Profiled
    <3>2. CASE x \notin Profile
      <4>1. StreamOf[x] = Current(s)  BY <2>1, <3>2 DEF StreamOf, Current, Present
      <4> QED  BY <2>1, <4>1, StreamDone
    <3> QED  BY <3>1, <3>2
  <2> QED  BY <2>2, <2>3 DEF Reported
<1>5. CASE StartRun(s) \/ Abort(s)
  BY <1>5 DEF StartRun, Abort, Ended
<1>6. CASE Moves(s) /\ ~ Finish(s) /\ ~ StartRun(s) /\ ~ Abort(s)
  <2>1. status' = status /\ pc[s] # "done"
    <3>1. CASE TakeRow(s) \/ BreakDeadlock(s) \/ Hiccup(s)
      <4>1. PICK x \in rows[s] :
              \/ UpsertProfile(s, x) \/ UpsertUser(s, x)
              \/ \E why \in {"refused", "canonical_profile_missing"} : Fail(s, x, why)
        BY <3>1, TakeCases
      <4>2. pc[s] = "rows"  BY <3>1, TakeCases
      <4> QED  BY <4>1, <4>2 DEF UpsertProfile, UpsertUser, Fail, Leave, database
    <3> QED
      BY <1>6, <3>1 DEF Moves, Step, OpenSource, BeginUsers, SourceLost, FetchBatch, RaiseRow,
         CommitBatch, Die, Live, database
  <2> QED  BY <1>0, <2>1 DEF Ended
<1> QED  BY <1>1, <1>2, <1>3, <1>4, <1>5, <1>6 DEF Next, Moves, Step

\* A user is refused only for a profile that the profiles' stream left out.
LEMMA OrphanExplained ==
  ASSUME Typed, OutcomeInv, NEW s \in Run, NEW x \in rows[s], x \in User,
         snapshot[s][x] \in Profile, NickSeen(s, snapshot[s][x]) = NoNick
  PROVE  snapshot[s][x] \in Present(snapshot[s]) \ late => snapshot[s][x] \in Reported
<1> DEFINE p == snapshot[s][x]
<1>1. StreamOf[x] = Current(s) /\ x \in RowId /\ x \notin Profile
  BY RowsAssumption DEF Typed, TypeOK, RowsInv
<1>2. system[s] = SystemOf[x] /\ stream[s] = "profiles_users"
  BY <1>1 DEF StreamOf, Current
<1>3. SystemOf[p] = SystemOf[x]  BY SeatType
<1>4. p \notin Mapped
  <2>1. nick[p] = NoNick  BY DEF NickSeen
  <2>2. \A z \in seats : z[1] \in User  BY DEF Typed, TypeOK, Seat
  <2> QED  BY <2>1, <2>2, RowsAssumption DEF Mapped
<1>5. Profiled(s)  BY DEF OutcomeInv
<1> QED  BY <1>2, <1>3, <1>4, <1>5 DEF Profiled

LEMMA OutcomeErrors ==
  ASSUME Typed, ReadsInv, OutcomeInv, [Next]_vars
  PROVE  /\ \A e \in errors' : Explained(e)'
         /\ \A s \in Run : \A e \in draftErrors'[s] : Explained(e)'
<1> USE DEF Typed, TypeOK
<1>0. Lasting  BY ThingsLast
<1>1. /\ errors \subseteq Error /\ \A e \in errors : Explained(e) /\ e.run \in Run
      /\ \A s \in Run : \A e \in draftErrors[s] : e \in Error /\ Explained(e) /\ e.run = s
  BY DEF OutcomeInv, Error, ReadsInv, Reads, Enters
<1>2. CASE UNCHANGED snapshot /\ UNCHANGED errors
           /\ \A s \in Run : draftErrors'[s] \subseteq draftErrors[s]
  BY <1>0, <1>1, <1>2, ExplainedLasts
<1>3. ASSUME NEW x \in RowId, NEW c \in Content[x], SourceWrite(x, c)
      PROVE  UNCHANGED <<snapshot, errors, draftErrors>>
  BY <1>3 DEF SourceWrite, local, drafts
<1>4. ASSUME NEW r \in Run, OpenSource(r)
      PROVE  /\ \A e \in errors' : Explained(e)'
             /\ \A s \in Run : \A e \in draftErrors'[s] : Explained(e)'
  <2>1. /\ UNCHANGED <<errors, draftErrors>> /\ \A e \in errors : e.run # r
        /\ draftErrors[r] = {} /\ \A s \in Run \ {r} : snapshot'[s] = snapshot[s]
    <3>1. pc[r] = "connect" /\ Reads(r)  BY <1>4 DEF OpenSource, ReadsInv
    <3>2. draftErrors[r] = {} /\ \A e \in errors : e.run # r  BY <3>1 DEF Reads, Empty
    <3> QED  BY <1>4, <3>2 DEF OpenSource, database, drafts
  <2>2. ASSUME NEW e \in errors PROVE Explained(e)'
    <3>1. e.run \in Run \ {r} /\ e \in Error /\ Explained(e)  BY <1>1, <2>1
    <3> QED  BY <1>0, <2>1, <3>1, ExplainedLasts
  <2>3. ASSUME NEW s \in Run, NEW e \in draftErrors[s] PROVE Explained(e)'
    <3>1. e.run \in Run \ {r} /\ e \in Error /\ Explained(e)  BY <1>1, <2>1
    <3> QED  BY <1>0, <2>1, <3>1, ExplainedLasts
  <2> QED  BY <2>1, <2>2, <2>3
<1>5. ASSUME NEW r \in Run, TakeRow(r) \/ BreakDeadlock(r) \/ Hiccup(r)
      PROVE  /\ \A e \in errors' : Explained(e)'
             /\ \A s \in Run : \A e \in draftErrors'[s] : Explained(e)'
  <2>1. PICK x \in rows[r] :
          \/ UpsertProfile(r, x) \/ UpsertUser(r, x)
          \/ \E why \in {"refused", "canonical_profile_missing"} :
               /\ Fail(r, x, why)
               /\ why = "canonical_profile_missing" =>
                    /\ x \in User /\ snapshot[r][x] \in Profile
                    /\ NickSeen(r, snapshot[r][x]) = NoNick
    BY <1>5, TakeCases
  <2>2. CASE UpsertProfile(r, x) \/ UpsertUser(r, x)
    <3>1. UNCHANGED <<snapshot, errors, draftErrors>>
      BY <2>2 DEF UpsertProfile, UpsertUser, Leave, database
    <3> QED  BY <1>2, <3>1
  <2>3. ASSUME NEW why \in {"refused", "canonical_profile_missing"}, Fail(r, x, why),
               why = "canonical_profile_missing" =>
                 /\ x \in User /\ snapshot[r][x] \in Profile
                 /\ NickSeen(r, snapshot[r][x]) = NoNick
        PROVE  /\ \A e \in errors' : Explained(e)'
               /\ \A s \in Run : \A e \in draftErrors'[s] : Explained(e)'
    <3> DEFINE new == [run |-> r, row |-> x, why |-> why]
    <3>1. /\ UNCHANGED <<snapshot, errors, late>> /\ draftErrors'[r] = draftErrors[r] \cup {new}
          /\ \A s \in Run \ {r} : draftErrors'[s] = draftErrors[s]
      BY <2>3 DEF Fail, Leave, database
    <3>2. new.run = r /\ new.row = x /\ new.why = why  OBVIOUS
    <3>3. Explained(new)  BY <2>3, <3>2, OrphanExplained DEF Explained
    <3>4. Explained(new)'
      BY <3>1, <3>3 DEF Explained, Reported, Present
    <3>5. \A e \in errors : Explained(e)'  BY <1>0, <1>1, <3>1, ExplainedLasts
    <3>6. \A s \in Run : \A e \in draftErrors[s] : Explained(e)'
      BY <1>0, <1>1, <3>1, ExplainedLasts
    <3> HIDE DEF new
    <3>7. ASSUME NEW s \in Run, NEW e \in draftErrors'[s] PROVE Explained(e)'
      <4>1. e \in draftErrors[s] \/ e = new  BY <3>1, <3>7
      <4> QED  BY <3>4, <3>6, <4>1
    <3> QED  BY <3>1, <3>5, <3>7
  <2> QED  BY <2>1, <2>2, <2>3
<1>6. ASSUME NEW r \in Run, CommitBatch(r) \/ Abort(r)
      PROVE  /\ \A e \in errors' : Explained(e)'
             /\ \A s \in Run : \A e \in draftErrors'[s] : Explained(e)'
  <2>1. /\ errors' = errors \cup draftErrors[r] /\ UNCHANGED snapshot
        /\ \A s \in Run : draftErrors'[s] \subseteq draftErrors[s]
    BY <1>6 DEF CommitBatch, Abort, Publish
  <2> QED  BY <1>0, <1>1, <2>1, ExplainedLasts
<1>7. ASSUME NEW r \in Run,
             StartRun(r) \/ FetchBatch(r) \/ BeginUsers(r) \/ RaiseRow(r) \/ Finish(r)
             \/ SourceLost(r) \/ Die(r)
      PROVE  UNCHANGED snapshot /\ UNCHANGED errors
             /\ \A s \in Run : draftErrors'[s] \subseteq draftErrors[s]
  BY <1>7 DEF StartRun, FetchBatch, BeginUsers, RaiseRow, Finish, SourceLost, Die, database,
     local, drafts
<1>8. CASE UNCHANGED vars
  <2>1. UNCHANGED <<snapshot, errors, draftErrors>>
    BY <1>8 DEF vars, database, local, drafts
  <2> QED  BY <1>2, <2>1
<1> QED  BY <1>2, <1>3, <1>4, <1>5, <1>6, <1>7, <1>8 DEF Next, Step

LEMMA OutcomeInvariant == Spec => []OutcomeInv
<1>1. Typed /\ ReadsInv /\ MarksInv /\ OutcomeInv /\ [Next]_vars => OutcomeInv'
  BY OutcomeProfiled, OutcomeEnded, OutcomeErrors DEF OutcomeInv
<1> QED
  BY <1>1, OutcomeInit, TypedInvariant, ReadsInvariant, MarksInvariant, PTL DEF Spec

(* An identity run that reports "success" has mapped every row it read, or  *)
(* an earlier run has recorded the error, whatever other runs do.           *)
THEOREM SuccessMeansCaughtUp == Spec => []SuccessIsComplete
<1>1. OutcomeInv => SuccessIsComplete  BY DEF OutcomeInv, Ended, SuccessIsComplete
<1> QED  BY <1>1, OutcomeInvariant, PTL

(* canonical_profile_missing is said of a profile that failed itself or     *)
(* appeared late: the order of the two streams never is the reason.         *)
THEOREM OrphansHaveReasons == Spec => []OrphansExplained
<1>1. OutcomeInv => OrphansExplained
  <2> SUFFICES ASSUME OutcomeInv, NEW e \in errors, e.why = "canonical_profile_missing",
                      snapshot[e.run][e.row] \in Present(snapshot[e.run]) \ late
               PROVE  \E f \in errors : f.row = snapshot[e.run][e.row]
    BY DEF OrphansExplained
  <2>1. snapshot[e.run][e.row] \in Reported  BY DEF OutcomeInv, Explained
  <2> QED  BY <2>1 DEF Reported
<1> QED  BY <1>1, OutcomeInvariant, PTL

-----------------------------------------------------------------------------
(* Runs that meet in the database *)

Sole(n) == \A p, q \in Profile : p # q /\ n[p] # NoNick => n[p] # n[q]
Seen(r) == [p \in Profile |-> NickSeen(r, p)]

\* Open transactions do not ask for the same nick for two profiles.
Disjoint(r, s) ==
  \A p, q \in Profile :
    p # q /\ draftNick[r][p] # NoNick => draftNick[r][p] # draftNick[s][q]
NicksInv ==
  /\ Sole(nick) /\ \A r \in Run : Sole(Seen(r))
  /\ \A r, s \in Run : r # s => Disjoint(r, s)
  /\ \A z \in seats : nick[z[2]] # NoNick /\ SystemOf[z[1]] = SystemOf[z[2]]

LEMMA NicksInit == Init => NicksInv
BY DEF Init, NicksInv, Sole, Seen, NickSeen, Disjoint

\* Nothing of the canonical tables and the open changes of nicks moves.
LEMMA NicksAlone ==
  ASSUME NicksInv, nick' = nick, seats' = seats,
         \A s \in Run : draftNick'[s] = draftNick[s]
  PROVE  NicksInv'
<1>1. \A s \in Run : Seen(s)' = Seen(s)  BY DEF Seen, NickSeen
<1>2. \A r, s \in Run : Disjoint(r, s) => Disjoint(r, s)'  BY DEF Disjoint
<1>3. Sole(nick)' /\ \A s \in Run : Sole(Seen(s))'  BY <1>1 DEF NicksInv, Sole
<1> QED  BY <1>2, <1>3 DEF NicksInv

LEMMA NicksUpsert ==
  ASSUME Typed, NicksInv, NEW r \in Run, NEW x \in rows[r], IsNext(r, x), pc[r] = "rows",
         ~ Waits(r), UpsertProfile(r, x)
  PROVE  NicksInv'
<1> USE DEF Typed, TypeOK
<1> DEFINE n == NickOf(r, x)
<1>1. /\ x \in Profile /\ n \in Nick /\ n # NoNick
      /\ \A q \in Profile \ {x} : NickSeen(r, q) # n
  BY NickType, ContentAssumption DEF UpsertProfile, Taken
<1>2. /\ nick' = nick /\ seats' = seats
      /\ \A s \in Run \ {r} : draftNick'[s] = draftNick[s]
      /\ \A p \in Profile : draftNick'[r][p] = IF p = x THEN n ELSE draftNick[r][p]
  BY DEF UpsertProfile, Leave, database
<1> HIDE DEF n
<1>3. ASSUME NEW s \in Run, s # r PROVE \A q \in Profile : draftNick[s][q] # n
  <2>1. ~ WaitsFor(r, s)  BY DEF Waits
  <2>2. \A q \in Profile : draftNick[s][q] # NoNick => NickOf(r, x) # draftNick[s][q]
    BY <1>1, <1>3, <2>1 DEF WaitsFor
  <2> QED  BY <1>1, <2>2 DEF n
<1>4. \A s \in Run \ {r} : Seen(s)' = Seen(s)  BY <1>2 DEF Seen, NickSeen
<1>5. /\ Seen(r)'[x] = n
      /\ \A p \in Profile \ {x} : Seen(r)'[p] = Seen(r)[p] /\ Seen(r)[p] # n
  BY <1>1, <1>2 DEF Seen, NickSeen
<1>6. Sole(nick)'  BY <1>2 DEF NicksInv, Sole
<1>7. ASSUME NEW s \in Run PROVE Sole(Seen(s))'
  <2>1. CASE s # r  BY <1>4, <2>1 DEF NicksInv, Sole
  <2>2. CASE s = r
    <3>1. Sole(Seen(r))  BY DEF NicksInv
    <3> QED  BY <1>5, <2>2, <3>1 DEF Sole
  <2> QED  BY <2>1, <2>2
<1>8. ASSUME NEW s \in Run, NEW t \in Run, s # t PROVE Disjoint(s, t)'
  <2>1. Disjoint(s, t)  BY <1>8 DEF NicksInv
  <2>2. CASE s = r  BY <1>2, <1>3, <1>8, <2>1, <2>2 DEF Disjoint
  <2>3. CASE t = r  BY <1>2, <1>3, <1>8, <2>1, <2>3 DEF Disjoint
  <2>4. CASE s # r /\ t # r  BY <1>2, <2>1, <2>4 DEF Disjoint
  <2> QED  BY <2>2, <2>3, <2>4
<1> QED  BY <1>2, <1>6, <1>7, <1>8 DEF NicksInv

\* Changes of nicks that end stay disjoint from those that remain.
LEMMA DisjointLess ==
  ASSUME NEW s \in Run, NEW t \in Run, Disjoint(s, t),
         \A p \in Profile : /\ draftNick'[s][p] \in {draftNick[s][p], NoNick}
                            /\ draftNick'[t][p] \in {draftNick[t][p], NoNick}
  PROVE  Disjoint(s, t)'
<1> SUFFICES ASSUME NEW p \in Profile, NEW q \in Profile, p # q, draftNick'[s][p] # NoNick
             PROVE  draftNick'[s][p] # draftNick'[t][q]
  BY DEF Disjoint
<1>1. draftNick'[s][p] = draftNick[s][p]  OBVIOUS
<1>2. draftNick[s][p] # draftNick[t][q]  BY <1>1 DEF Disjoint
<1> QED  BY <1>1, <1>2

LEMMA NicksPublish ==
  ASSUME Typed, ReadsInv, NicksInv, NEW r \in Run, Publish(r)
  PROVE  NicksInv'
<1> USE DEF Typed, TypeOK
<1>1. /\ \A p \in Profile : nick'[p] = Seen(r)[p]
      /\ \A s \in Run \ {r} : draftNick'[s] = draftNick[s]
      /\ \A p \in Profile : draftNick'[r][p] = NoNick
      /\ seats' = seats \cup draftSeats[r]
  BY DEF Publish, Seen
<1>2. Sole(Seen(r))  BY DEF NicksInv
<1>3. Sole(nick)'  BY <1>1, <1>2 DEF Sole
<1>4. ASSUME NEW s \in Run PROVE Sole(Seen(s))'
  <2>1. CASE s = r
    <3>1. \A p \in Profile : Seen(r)'[p] = Seen(r)[p]  BY <1>1 DEF Seen, NickSeen
    <3> QED  BY <1>2, <2>1, <3>1 DEF Sole
  <2>2. CASE s # r
    <3>1. /\ \A p \in Profile :
               Seen(s)'[p] = IF draftNick[s][p] # NoNick THEN draftNick[s][p]
                             ELSE IF draftNick[r][p] # NoNick THEN draftNick[r][p] ELSE nick[p]
          /\ \A p \in Profile :
               Seen(s)[p] = IF draftNick[s][p] # NoNick THEN draftNick[s][p] ELSE nick[p]
          /\ \A p \in Profile :
               Seen(r)[p] = IF draftNick[r][p] # NoNick THEN draftNick[r][p] ELSE nick[p]
      BY <1>1, <2>2 DEF Seen, NickSeen
    <3>2. Sole(Seen(s)) /\ Disjoint(r, s) /\ Disjoint(s, r)  BY <2>2 DEF NicksInv
    <3> SUFFICES ASSUME NEW p \in Profile, NEW q \in Profile, p # q, Seen(s)'[p] # NoNick
                 PROVE  Seen(s)'[p] # Seen(s)'[q]
      BY DEF Sole
    <3>3. Seen(s)[p] # NoNick => Seen(s)[p] # Seen(s)[q]  BY <3>2 DEF Sole
    <3>4. Seen(r)[p] # NoNick => Seen(r)[p] # Seen(r)[q]  BY <1>2 DEF Sole
    <3>5. /\ draftNick[r][p] # NoNick => draftNick[r][p] # draftNick[s][q]
          /\ draftNick[s][p] # NoNick => draftNick[s][p] # draftNick[r][q]
      BY <3>2 DEF Disjoint
    <3> QED  BY <3>1, <3>3, <3>4, <3>5
  <2> QED  BY <2>1, <2>2
<1>5. ASSUME NEW s \in Run, NEW t \in Run, s # t PROVE Disjoint(s, t)'
  <2>1. Disjoint(s, t)  BY <1>5 DEF NicksInv
  <2>2. \A p \in Profile : /\ draftNick'[s][p] \in {draftNick[s][p], NoNick}
                           /\ draftNick'[t][p] \in {draftNick[t][p], NoNick}
    BY <1>1
  <2> QED  BY <2>1, <2>2, DisjointLess
<1>6. \A z \in seats' : nick'[z[2]] # NoNick /\ SystemOf[z[1]] = SystemOf[z[2]]
  <2>1. Enters(r) /\ \A z \in seats \cup draftSeats[r] : z[2] \in Profile
    BY DEF ReadsInv, Reads, Seat
  <2>2. \A z \in draftSeats[r] : nick'[z[2]] # NoNick /\ SystemOf[z[1]] = SystemOf[z[2]]
    BY <1>1, <2>1 DEF Enters, Seen
  <2>3. \A z \in seats : nick'[z[2]] # NoNick /\ SystemOf[z[1]] = SystemOf[z[2]]
    BY <1>1, <2>1 DEF NicksInv, Seen, NickSeen
  <2> QED  BY <1>1, <2>2, <2>3
<1> QED  BY <1>3, <1>4, <1>5, <1>6 DEF NicksInv

LEMMA NicksDie ==
  ASSUME Typed, NicksInv, NEW r \in Run, Die(r)
  PROVE  NicksInv'
<1> USE DEF Typed, TypeOK
<1>1. /\ nick' = nick /\ seats' = seats /\ \A s \in Run \ {r} : draftNick'[s] = draftNick[s]
      /\ \A p \in Profile : draftNick'[r][p] = NoNick
  BY DEF Die, database
<1>2. Sole(nick)'  BY <1>1 DEF NicksInv, Sole
<1>3. ASSUME NEW s \in Run PROVE Sole(Seen(s))'
  <2>1. CASE s = r
    <3>1. \A p \in Profile : Seen(r)'[p] = nick[p]  BY <1>1 DEF Seen, NickSeen
    <3> QED  BY <2>1, <3>1 DEF NicksInv, Sole
  <2>2. CASE s # r
    <3>1. Seen(s)' = Seen(s)  BY <1>1, <2>2 DEF Seen, NickSeen
    <3> QED  BY <3>1 DEF NicksInv, Sole
  <2> QED  BY <2>1, <2>2
<1>4. ASSUME NEW s \in Run, NEW t \in Run, s # t PROVE Disjoint(s, t)'
  <2>1. Disjoint(s, t)  BY <1>4 DEF NicksInv
  <2>2. \A p \in Profile : /\ draftNick'[s][p] \in {draftNick[s][p], NoNick}
                           /\ draftNick'[t][p] \in {draftNick[t][p], NoNick}
    BY <1>1
  <2> QED  BY <2>1, <2>2, DisjointLess
<1> QED  BY <1>1, <1>2, <1>3, <1>4 DEF NicksInv

LEMMA NicksNext == Typed /\ ReadsInv /\ NicksInv /\ [Next]_vars => NicksInv'
<1> SUFFICES ASSUME Typed, ReadsInv, NicksInv, [Next]_vars PROVE NicksInv'  OBVIOUS
<1>1. CASE UNCHANGED vars
  BY <1>1, NicksAlone DEF vars, database, local, drafts
<1>2. ASSUME NEW x \in RowId, NEW c \in Content[x], SourceWrite(x, c) PROVE NicksInv'
  BY <1>2, NicksAlone DEF SourceWrite, local, drafts
<1>3. ASSUME NEW r \in Run, TakeRow(r) \/ BreakDeadlock(r) \/ Hiccup(r) PROVE NicksInv'
  <2>1. PICK x \in rows[r] :
          /\ IsNext(r, x)
          /\ \/ ~ Waits(r) /\ (UpsertProfile(r, x) \/ UpsertUser(r, x))
             \/ \E why \in {"refused", "canonical_profile_missing"} : Fail(r, x, why)
    BY <1>3, TakeCases
  <2>2. pc[r] = "rows"  BY <1>3, TakeCases
  <2>3. CASE ~ Waits(r) /\ UpsertProfile(r, x)  BY <2>1, <2>2, <2>3, NicksUpsert
  <2>4. CASE UpsertUser(r, x) \/ \E why \in {"refused", "canonical_profile_missing"} :
                                   Fail(r, x, why)
    BY <2>4, NicksAlone DEF UpsertUser, Fail, Leave, database
  <2> QED  BY <2>1, <2>3, <2>4
<1>4. ASSUME NEW r \in Run, CommitBatch(r) \/ Abort(r) PROVE NicksInv'
  BY <1>4, NicksPublish DEF CommitBatch, Abort
<1>5. ASSUME NEW r \in Run, Die(r) PROVE NicksInv'
  BY <1>5, NicksDie
<1>6. ASSUME NEW r \in Run,
             StartRun(r) \/ OpenSource(r) \/ FetchBatch(r) \/ BeginUsers(r) \/ RaiseRow(r)
             \/ Finish(r) \/ SourceLost(r)
      PROVE  NicksInv'
  BY <1>6, NicksAlone DEF StartRun, OpenSource, FetchBatch, BeginUsers, RaiseRow, Finish,
     SourceLost, database, local, drafts
<1> QED  BY <1>1, <1>2, <1>3, <1>4, <1>5, <1>6 DEF Next, Step

LEMMA NicksInvariant == Spec => []NicksInv
BY NicksInit, NicksNext, TypedInvariant, ReadsInvariant, PTL DEF Spec

LEMMA StoreStep ==
  Typed /\ Typed' /\ NicksInv' /\ [Next]_vars => [Store!Commit]_<<nick, seats>>
<1> SUFFICES ASSUME Typed, Typed', NicksInv', [Next]_vars PROVE Store!Commit
  OBVIOUS
<1>1. nick' \in [Profile -> Nick \cup {NoNick}] /\ seats' \subseteq User \X Profile
  BY DEF Typed, TypeOK, Seat
<1>2. seats' \in SUBSET Store!Seat  BY <1>1 DEF NicksInv, Store!Seat
<1>3. Store!Consistent(nick', seats')  BY DEF NicksInv, Sole, Store!Consistent
<1>4. Lasting  BY ThingsLast
<1> QED  BY <1>1, <1>2, <1>3, <1>4 DEF Lasting, Store!Commit

(* Runs of any systems that wait for each other, deadlock, fail and die     *)
(* leave the canonical tables consistent at every commit: no nick is given  *)
(* twice, no mapping is taken back, no user sits under a profile of another *)
(* system or under one that is not mapped.                                  *)
THEOREM StoreKept == Spec => ImplementsStore
<1>1. Init => Store!Init  BY DEF Init, Store!Init
<1> QED
  BY <1>1, StoreStep, TypedInvariant, NicksInvariant, PTL DEF Spec, ImplementsStore, Store!Spec

=============================================================================

------------------------- MODULE AgentRuntime_proofs --------------------------
(***************************************************************************)
(* The recording of AgentRuntime for any number of requests, chats and     *)
(* processes: the invariants of the run "records", and that it implements  *)
(* ConversationLog.                                                        *)
(***************************************************************************)
EXTENDS AgentRuntime, TLAPS

(* What the open transaction of r holds at each step. *)
Drafted(r) ==
  /\ pc[r] \notin {"create", "commitStart"} => ~ newChat[r]
  /\ pc[r] \notin {"commitStart", "message", "commitFinish"} => draftRun[r] = NoRun
  /\ pc[r] # "commitFinish" => draftMessage[r] = "none"
  /\ pc[r] = "commitStart" =>
       draftRun[r] = Started /\ (newChat[r] \/ chatOf[r] \in chats)
  /\ pc[r] \in {"message", "commitFinish"} =>
       draftRun[r] = RunColumns(outcome[r]) /\ runs[r] # NoRun
  /\ pc[r] = "commitFinish" => draftMessage[r] = StatusOf(outcome[r])

Starting == {"new", "lookup", "insert", "create", "commitStart"}
Unrecorded == Starting \cup {"graph", "finish", "message", "commitFinish"}
Excuses == {"persistence_unavailable", "persistence_invalid_identity"}

(* What is on record of r, and what r knows of it, at each step. *)
Staged(r) ==
  /\ pc[r] \in Starting =>
       runs[r] = NoRun /\ r \notin gone /\ ~ context[r] /\ warnings[r] = {}
  /\ pc[r] \in Unrecorded => messages[r] = "none" /\ warnings[r] \subseteq Excuses
  /\ pc[r] \in {"graph", "finish"} =>
       IF context[r] THEN runs[r] # NoRun \/ r \in gone ELSE warnings[r] # {}
  /\ pc[r] \in {"finish", "message", "commitFinish", "reply", "answered", "raised"} =>
       outcome[r] \in Statuses \cup Errors
  /\ pc[r] = "answered" => outcome[r] \notin Errors
  /\ pc[r] \in {"reply", "answered"} /\ warnings[r] = {} =>
       messages[r] = StatusOf(outcome[r]) \/ r \in gone
  /\ r \in gone => runs[r] = NoRun

(* RecordedWhole and WarningsTell, of one request. *)
Recorded(r) ==
  /\ messages[r] = "none" <=> runs[r] \in {NoRun, Started}
  /\ messages[r] # "none" => runs[r] \in {RunColumns(messages[r])} \cup
       {RunColumns(e) : e \in {x \in Errors : messages[r] = "failed"}}
  /\ runs[r] # NoRun => chatOf[r] \in chats
Told(r) ==
  /\ warnings[r] \cap {"persistence_missing_context", "persistence_invalid_input"} # {}
       => messages[r] = "none"
  /\ "persistence_missing_context" \in warnings[r] => warnings[r] \cap Excuses # {}
  /\ "persistence_not_found" \in warnings[r] => r \in gone

Sound(r) == Drafted(r) /\ Staged(r) /\ Recorded(r) /\ Told(r)

(* The inductive invariant. *)
IInv == TypeOK /\ \A r \in Request : Sound(r)

-----------------------------------------------------------------------------
(* The columns of a run *)

LEMMA Rows == NoRun \in RunRows /\ Started \in RunRows /\ NoRun # Started
  BY DEF RunRows, NoRun, Started

(* What finish_run stores is a terminal run, and its message says the same. *)
LEMMA Columns ==
  ASSUME NEW o \in Statuses \cup Errors
  PROVE  /\ RunColumns(o) \in RunRows \ {NoRun, Started}
         /\ StatusOf(o) \in Statuses /\ (o \notin Errors => StatusOf(o) = o)
         /\ RunColumns(o) \in {RunColumns(StatusOf(o))} \cup
              {RunColumns(e) : e \in {x \in Errors : StatusOf(o) = "failed"}}
<1>1. CASE o \in Errors
  <2>1. StatusOf(o) = "failed" /\ RunColumns(o) = <<"failed", o>>
    BY <1>1 DEF StatusOf, RunColumns
  <2>2. <<"failed", o>> \in RunRows \ {NoRun, Started}
    BY <1>1 DEF RunRows, NoRun, Started, Errors
  <2>3. "failed" \in Statuses
    BY DEF Statuses
  <2> QED BY <1>1, <2>1, <2>2, <2>3
<1>2. CASE o \in Statuses /\ o \notin Errors
  <2>1. StatusOf(o) = o /\ RunColumns(o) = DbStatus(o)
    BY <1>2 DEF StatusOf, RunColumns
  <2>2. DbStatus(o) \in RunRows \ {NoRun, Started}
    BY <1>2 DEF DbStatus, RunRows, NoRun, Started, Statuses
  <2> QED BY <1>2, <2>1, <2>2
<1> QED BY <1>1, <1>2

-----------------------------------------------------------------------------
(* A step of one request leaves what is said of the others alone. *)

Keeps(r) ==
  /\ chats \subseteq chats' /\ chatOf' = chatOf
  /\ \A s \in Request \ {r} :
       /\ runs'[s] = runs[s] /\ messages'[s] = messages[s] /\ (s \in gone' <=> s \in gone)
       /\ pc'[s] = pc[s] /\ context'[s] = context[s]
       /\ outcome'[s] = outcome[s] /\ warnings'[s] = warnings[s]
       /\ newChat'[s] = newChat[s] /\ draftRun'[s] = draftRun[s]
       /\ draftMessage'[s] = draftMessage[s]

LEMMA OneRequest ==
  ASSUME NEW r \in Request, IInv, TypeOK', Keeps(r), Sound(r)'
  PROVE  IInv'
<1> SUFFICES ASSUME NEW s \in Request \ {r} PROVE Sound(s)'
  BY DEF IInv
<1> USE DEF Keeps
<1>1. Drafted(s)' BY DEF IInv, Sound, Drafted
<1>2. Staged(s)' BY DEF IInv, Sound, Staged
<1>3. Recorded(s)' BY DEF IInv, Sound, Recorded
<1>4. Told(s)' BY DEF IInv, Sound, Told
<1> QED BY <1>1, <1>2, <1>3, <1>4 DEF Sound

-----------------------------------------------------------------------------
(* The steps of a request *)

LEMMA ArriveSteps ==
  ASSUME NEW r \in Request, IInv, Arrive(r)
  PROVE  IInv'
<1> USE DEF Arrive, Live, Go, database, asked, drafts
<1>1. TypeOK'
  BY Rows DEF IInv, TypeOK, Statuses, Errors
<1>2. Keeps(r)
  BY DEF IInv, TypeOK, Keeps
<1>3. Drafted(r)'
  BY DEF IInv, TypeOK, Sound, Drafted, Staged, Starting, Unrecorded
<1>4. Staged(r)'
  BY DEF IInv, TypeOK, Sound, Drafted, Staged, Starting, Unrecorded, Excuses
<1>5. Recorded(r)'
  BY Rows DEF IInv, TypeOK, Sound, Drafted, Staged, Recorded, Starting, Unrecorded
<1>6. Told(r)'
  BY DEF IInv, TypeOK, Sound, Drafted, Staged, Told, Starting, Unrecorded, Excuses
<1> QED BY <1>1, <1>2, <1>3, <1>4, <1>5, <1>6, OneRequest DEF Sound

(* RefuseNick, ChatTaken, ChatGone and StartFails. *)
LEMMA StartGivesUp ==
  ASSUME NEW r \in Request, IInv, NEW w \in Excuses,
         pc[r] \in Starting \ {"new"}, StartWithout(r, w)
  PROVE  IInv'
<1> USE DEF StartWithout, Warn, Rollback, Go, database, asked, Starting, Excuses, Warnings
<1>1. TypeOK'
  BY Rows DEF IInv, TypeOK, Statuses, Errors
<1>2. Keeps(r)
  BY DEF IInv, TypeOK, Keeps
<1>3. Drafted(r)'
  BY DEF IInv, TypeOK, Sound, Drafted, Staged, Starting, Unrecorded
<1>4. Staged(r)'
  BY DEF IInv, TypeOK, Sound, Drafted, Staged, Starting, Unrecorded, Excuses
<1>5. Recorded(r)'
  BY Rows DEF IInv, TypeOK, Sound, Drafted, Staged, Recorded, Starting, Unrecorded
<1>6. Told(r)'
  BY DEF IInv, TypeOK, Sound, Drafted, Staged, Told, Starting, Unrecorded, Excuses
<1> QED BY <1>1, <1>2, <1>3, <1>4, <1>5, <1>6, OneRequest DEF Sound

LEMMA LookUpChatSteps ==
  ASSUME NEW r \in Request, IInv, LookUpChat(r)
  PROVE  IInv'
<1> USE DEF LookUpChat, Go, database, asked, drafts
<1>1. TypeOK'
  BY Rows DEF IInv, TypeOK, Statuses, Errors
<1>2. Keeps(r)
  BY DEF IInv, TypeOK, Keeps
<1>3. Drafted(r)'
  BY DEF IInv, TypeOK, Sound, Drafted, Staged, Starting, Unrecorded
<1>4. Staged(r)'
  BY DEF IInv, TypeOK, Sound, Drafted, Staged, Starting, Unrecorded, Excuses
<1>5. Recorded(r)'
  BY Rows DEF IInv, TypeOK, Sound, Drafted, Staged, Recorded, Starting, Unrecorded
<1>6. Told(r)'
  BY DEF IInv, TypeOK, Sound, Drafted, Staged, Told, Starting, Unrecorded, Excuses
<1> QED BY <1>1, <1>2, <1>3, <1>4, <1>5, <1>6, OneRequest DEF Sound

LEMMA InsertChatSteps ==
  ASSUME NEW r \in Request, IInv, InsertChat(r)
  PROVE  IInv'
<1> USE DEF InsertChat, Go, database, asked, drafts
<1>1. TypeOK'
  BY Rows DEF IInv, TypeOK, Statuses, Errors
<1>2. Keeps(r)
  BY DEF IInv, TypeOK, Keeps
<1>3. Drafted(r)'
  BY DEF IInv, TypeOK, Sound, Drafted, Staged, Starting, Unrecorded
<1>4. Staged(r)'
  BY DEF IInv, TypeOK, Sound, Drafted, Staged, Starting, Unrecorded, Excuses
<1>5. Recorded(r)'
  BY Rows DEF IInv, TypeOK, Sound, Drafted, Staged, Recorded, Starting, Unrecorded
<1>6. Told(r)'
  BY DEF IInv, TypeOK, Sound, Drafted, Staged, Told, Starting, Unrecorded, Excuses
<1> QED BY <1>1, <1>2, <1>3, <1>4, <1>5, <1>6, OneRequest DEF Sound

LEMMA UseChatSteps ==
  ASSUME NEW r \in Request, IInv, UseChat(r)
  PROVE  IInv'
<1> USE DEF UseChat, Go, database, asked, drafts
<1>1. TypeOK'
  BY Rows DEF IInv, TypeOK, Statuses, Errors
<1>2. Keeps(r)
  BY DEF IInv, TypeOK, Keeps
<1>3. Drafted(r)'
  BY DEF IInv, TypeOK, Sound, Drafted, Staged, Starting, Unrecorded
<1>4. Staged(r)'
  BY DEF IInv, TypeOK, Sound, Drafted, Staged, Starting, Unrecorded, Excuses
<1>5. Recorded(r)'
  BY Rows DEF IInv, TypeOK, Sound, Drafted, Staged, Recorded, Starting, Unrecorded
<1>6. Told(r)'
  BY DEF IInv, TypeOK, Sound, Drafted, Staged, Told, Starting, Unrecorded, Excuses
<1> QED BY <1>1, <1>2, <1>3, <1>4, <1>5, <1>6, OneRequest DEF Sound

LEMMA CreateRunSteps ==
  ASSUME NEW r \in Request, IInv, CreateRun(r)
  PROVE  IInv'
<1> USE DEF CreateRun, Go, database, asked, drafts
<1>1. TypeOK'
  BY Rows DEF IInv, TypeOK, Statuses, Errors
<1>2. Keeps(r)
  BY DEF IInv, TypeOK, Keeps
<1>3. Drafted(r)'
  BY DEF IInv, TypeOK, Sound, Drafted, Staged, Starting, Unrecorded
<1>4. Staged(r)'
  BY DEF IInv, TypeOK, Sound, Drafted, Staged, Starting, Unrecorded, Excuses
<1>5. Recorded(r)'
  BY Rows DEF IInv, TypeOK, Sound, Drafted, Staged, Recorded, Starting, Unrecorded
<1>6. Told(r)'
  BY DEF IInv, TypeOK, Sound, Drafted, Staged, Told, Starting, Unrecorded, Excuses
<1> QED BY <1>1, <1>2, <1>3, <1>4, <1>5, <1>6, OneRequest DEF Sound

LEMMA CommitStartSteps ==
  ASSUME NEW r \in Request, IInv, NEW seen \in BOOLEAN, CommitStart(r, seen)
  PROVE  IInv'
<1> USE DEF CommitStart, Publish, Warn, Rollback, Go, asked, Warnings, Excuses
<1>1. TypeOK'
  <2>1. chats' \subseteq Chat /\ runs' \in [Request -> RunRows]
        /\ messages' \in [Request -> Statuses \cup {"none"}]
    BY DEF IInv, TypeOK
  <2>2. warnings' \in [Request -> SUBSET Warnings] /\ context' \in [Request -> BOOLEAN]
    BY DEF IInv, TypeOK
  <2> QED BY Rows, <2>1, <2>2 DEF IInv, TypeOK
<1>2. Keeps(r)
  BY DEF IInv, TypeOK, Keeps
<1>3. Drafted(r)'
  BY DEF IInv, TypeOK, Sound, Drafted, Staged, Starting, Unrecorded
<1>4. Staged(r)'
  <2>1. pc[r] = "commitStart" /\ pc'[r] = "graph" /\ runs'[r] = Started
        /\ messages'[r] = "none" /\ r \notin gone'
    BY DEF IInv, TypeOK, Sound, Drafted, Staged, Starting
  <2>2. warnings[r] = {}
    BY <2>1 DEF IInv, Sound, Staged, Starting
  <2>3. warnings'[r] \subseteq Excuses
    BY <2>2 DEF IInv, TypeOK
  <2>4. CASE seen = TRUE
    BY <2>1, <2>3, <2>4, Rows DEF IInv, TypeOK, Staged, Starting, Unrecorded
  <2>5. CASE seen = FALSE
    <3>1. "persistence_unavailable" \in warnings'[r] /\ ~ context'[r]
      BY <2>5 DEF IInv, TypeOK
    <3> QED BY <2>1, <2>3, <3>1 DEF Staged, Starting, Unrecorded
  <2> QED BY <2>4, <2>5
<1>5. Recorded(r)'
  BY Rows DEF IInv, TypeOK, Sound, Drafted, Staged, Recorded, Starting, Unrecorded
<1>6. Told(r)'
  BY DEF IInv, TypeOK, Sound, Drafted, Staged, Told, Starting, Unrecorded, Excuses
<1> QED BY <1>1, <1>2, <1>3, <1>4, <1>5, <1>6, OneRequest DEF Sound

LEMMA RunGraphSteps ==
  ASSUME NEW r \in Request, IInv, RunGraph(r)
  PROVE  IInv'
<1> USE DEF RunGraph, Go, database, asked, drafts
<1>1. TypeOK'
  BY Rows DEF IInv, TypeOK, Statuses, Errors
<1>2. Keeps(r)
  BY DEF IInv, TypeOK, Keeps
<1>3. Drafted(r)'
  BY DEF IInv, TypeOK, Sound, Drafted, Staged, Starting, Unrecorded
<1>4. Staged(r)'
  BY DEF IInv, TypeOK, Sound, Drafted, Staged, Starting, Unrecorded, Excuses
<1>5. Recorded(r)'
  BY Rows DEF IInv, TypeOK, Sound, Drafted, Staged, Recorded, Starting, Unrecorded
<1>6. Told(r)'
  BY DEF IInv, TypeOK, Sound, Drafted, Staged, Told, Starting, Unrecorded, Excuses
<1> QED BY <1>1, <1>2, <1>3, <1>4, <1>5, <1>6, OneRequest DEF Sound

(* MissContext, RunGone, RefuseQuestion and FinishFails. *)
LEMMA FinishGivesUp ==
  ASSUME NEW r \in Request, IInv, NEW w \in Warnings,
         pc[r] \in {"finish", "message", "commitFinish"}, FinishWithout(r, w),
         w = "persistence_missing_context" => pc[r] = "finish" /\ ~ context[r],
         w = "persistence_not_found" => r \in gone
  PROVE  IInv'
<1> USE DEF FinishWithout, Warn, Rollback, Go, database, asked
<1>1. TypeOK'
  BY Rows DEF IInv, TypeOK, Statuses, Errors
<1>2. Keeps(r)
  BY DEF IInv, TypeOK, Keeps
<1>3. Drafted(r)'
  BY DEF IInv, TypeOK, Sound, Drafted, Staged, Starting, Unrecorded
<1>4. Staged(r)'
  BY DEF IInv, TypeOK, Sound, Drafted, Staged, Starting, Unrecorded, Excuses
<1>5. Recorded(r)'
  BY Rows DEF IInv, TypeOK, Sound, Drafted, Staged, Recorded, Starting, Unrecorded
<1>6. Told(r)'
  BY DEF IInv, TypeOK, Sound, Drafted, Staged, Told, Starting, Unrecorded, Excuses
<1> QED BY <1>1, <1>2, <1>3, <1>4, <1>5, <1>6, OneRequest DEF Sound

LEMMA UpdateRunSteps ==
  ASSUME NEW r \in Request, IInv, UpdateRun(r)
  PROVE  IInv'
<1> USE DEF UpdateRun, Go, database, asked
<1>0. RunColumns(outcome[r]) \in RunRows
  BY Columns DEF IInv, Sound, Staged
<1>1. TypeOK'
  BY Rows, <1>0 DEF IInv, TypeOK, Statuses, Errors
<1>2. Keeps(r)
  BY DEF IInv, TypeOK, Keeps
<1>3. Drafted(r)'
  BY <1>0 DEF IInv, TypeOK, Sound, Drafted, Staged, Starting, Unrecorded
<1>4. Staged(r)'
  BY <1>0 DEF IInv, TypeOK, Sound, Drafted, Staged, Starting, Unrecorded, Excuses
<1>5. Recorded(r)'
  BY Rows, <1>0 DEF IInv, TypeOK, Sound, Drafted, Staged, Recorded, Starting, Unrecorded
<1>6. Told(r)'
  BY <1>0 DEF IInv, TypeOK, Sound, Drafted, Staged, Told, Starting, Unrecorded, Excuses
<1> QED BY <1>1, <1>2, <1>3, <1>4, <1>5, <1>6, OneRequest DEF Sound

LEMMA WriteMessageSteps ==
  ASSUME NEW r \in Request, IInv, WriteMessage(r)
  PROVE  IInv'
<1> USE DEF WriteMessage, Go, database, asked
<1>0. StatusOf(outcome[r]) \in Statuses
  BY Columns DEF IInv, Sound, Staged
<1>1. TypeOK'
  BY Rows, <1>0 DEF IInv, TypeOK, Statuses, Errors
<1>2. Keeps(r)
  BY DEF IInv, TypeOK, Keeps
<1>3. Drafted(r)'
  BY <1>0 DEF IInv, TypeOK, Sound, Drafted, Staged, Starting, Unrecorded
<1>4. Staged(r)'
  BY <1>0 DEF IInv, TypeOK, Sound, Drafted, Staged, Starting, Unrecorded, Excuses
<1>5. Recorded(r)'
  BY Rows, <1>0 DEF IInv, TypeOK, Sound, Drafted, Staged, Recorded, Starting, Unrecorded
<1>6. Told(r)'
  BY <1>0 DEF IInv, TypeOK, Sound, Drafted, Staged, Told, Starting, Unrecorded, Excuses
<1> QED BY <1>1, <1>2, <1>3, <1>4, <1>5, <1>6, OneRequest DEF Sound

LEMMA CommitFinishSteps ==
  ASSUME NEW r \in Request, IInv, NEW seen \in BOOLEAN, CommitFinish(r, seen)
  PROVE  IInv'
<1> USE DEF CommitFinish, Publish, Warn, Rollback, Go, asked, Warnings, Excuses
<1>0. draftMessage[r] # "none" /\ outcome[r] \in Statuses \cup Errors
  BY Columns DEF IInv, TypeOK, Sound, Staged, Drafted, Statuses
<1>1. TypeOK'
  BY Rows, <1>0, Columns DEF IInv, TypeOK, Statuses, Errors
<1>2. Keeps(r)
  BY DEF IInv, TypeOK, Keeps
<1>3. Drafted(r)'
  BY <1>0, Columns DEF IInv, TypeOK, Sound, Drafted, Staged, Starting, Unrecorded
<1>4. Staged(r)'
  BY <1>0, Columns DEF IInv, TypeOK, Sound, Drafted, Staged, Starting, Unrecorded, Excuses
<1>5. Recorded(r)'
  BY Rows, <1>0, Columns DEF IInv, TypeOK, Sound, Drafted, Staged, Recorded, Starting, Unrecorded
<1>6. Told(r)'
  BY <1>0, Columns DEF IInv, TypeOK, Sound, Drafted, Staged, Told, Starting, Unrecorded, Excuses
<1> QED BY <1>1, <1>2, <1>3, <1>4, <1>5, <1>6, OneRequest DEF Sound

LEMMA ReplySteps ==
  ASSUME NEW r \in Request, IInv, Reply(r)
  PROVE  IInv'
<1> USE DEF Reply, Go, database, asked, drafts
<1>1. TypeOK'
  BY Rows DEF IInv, TypeOK, Statuses, Errors
<1>2. Keeps(r)
  BY DEF IInv, TypeOK, Keeps
<1>3. Drafted(r)'
  BY DEF IInv, TypeOK, Sound, Drafted, Staged, Starting, Unrecorded
<1>4. Staged(r)'
  BY DEF IInv, TypeOK, Sound, Drafted, Staged, Starting, Unrecorded, Excuses
<1>5. Recorded(r)'
  BY Rows DEF IInv, TypeOK, Sound, Drafted, Staged, Recorded, Starting, Unrecorded
<1>6. Told(r)'
  BY DEF IInv, TypeOK, Sound, Drafted, Staged, Told, Starting, Unrecorded, Excuses
<1> QED BY <1>1, <1>2, <1>3, <1>4, <1>5, <1>6, OneRequest DEF Sound

LEMMA DieSteps ==
  ASSUME NEW r \in Request, IInv, Die(r)
  PROVE  IInv'
<1> USE DEF Die, Live, Rollback, Go, database, asked
<1>1. TypeOK'
  BY Rows DEF IInv, TypeOK, Statuses, Errors
<1>2. Keeps(r)
  BY DEF IInv, TypeOK, Keeps
<1>3. Drafted(r)'
  BY DEF IInv, TypeOK, Sound, Drafted, Staged, Starting, Unrecorded
<1>4. Staged(r)'
  BY DEF IInv, TypeOK, Sound, Drafted, Staged, Starting, Unrecorded, Excuses
<1>5. Recorded(r)'
  BY Rows DEF IInv, TypeOK, Sound, Drafted, Staged, Recorded, Starting, Unrecorded
<1>6. Told(r)'
  BY DEF IInv, TypeOK, Sound, Drafted, Staged, Told, Starting, Unrecorded, Excuses
<1> QED BY <1>1, <1>2, <1>3, <1>4, <1>5, <1>6, OneRequest DEF Sound

-----------------------------------------------------------------------------
(* All steps *)

(* A chat goes when no open transaction refers to it, and its rows with it. *)
LEMMA DeleteChatSteps ==
  ASSUME IInv, NEW c \in Chat, DeleteChat(c)
  PROVE  IInv'
<1> DEFINE mine == {r \in Request : chatOf[r] = c /\ runs[r] # NoRun}
<1>0. /\ \A r \in Request : chatOf[r] = c => draftRun[r] = NoRun
      /\ chats' = chats \ {c} /\ gone' = gone \cup mine
      /\ runs' = [r \in Request |-> IF r \in mine THEN NoRun ELSE runs[r]]
      /\ messages' = [r \in Request |-> IF r \in mine THEN "none" ELSE messages[r]]
      /\ UNCHANGED <<chatOf, input, server, pc, found, context, outcome, warnings,
                     newChat, draftRun, draftMessage>>
  BY DEF DeleteChat, asked, drafts
<1>1. TypeOK'
  BY <1>0, Rows DEF IInv, TypeOK
<1> SUFFICES ASSUME NEW r \in Request PROVE Sound(r)'
  BY <1>1 DEF IInv
<1> HIDE DEF mine
<1>2. IF r \in mine
      THEN chatOf[r] = c /\ runs[r] # NoRun
      ELSE chatOf[r] = c => runs[r] = NoRun
  BY DEF mine
<1>3. pc[r] \in {"message", "commitFinish"} => r \notin mine
  BY <1>0, <1>2, Columns DEF IInv, Sound, Drafted, Staged
<1>4. r \in mine => pc[r] \notin Starting
  BY <1>2 DEF IInv, Sound, Staged
<1>5. Drafted(r)'
  BY <1>0, <1>3, Rows DEF IInv, Sound, Drafted
<1>6. Staged(r)'
  BY <1>0, <1>4 DEF IInv, Sound, Staged
<1>7. Recorded(r)'
  BY <1>0, <1>2 DEF IInv, TypeOK, Sound, Recorded
<1>8. Told(r)'
  BY <1>0 DEF IInv, Sound, Told
<1> QED BY <1>5, <1>6, <1>7, <1>8 DEF Sound

LEMMA Initially == Init => IInv
<1> SUFFICES ASSUME Init PROVE IInv
  OBVIOUS
<1>1. TypeOK
  BY Rows DEF Init, TypeOK
<1>2. ASSUME NEW r \in Request PROVE Sound(r)
  BY DEF Init, Sound, Drafted, Staged, Recorded, Told, Starting, Unrecorded, Excuses
<1> QED BY <1>1, <1>2 DEF IInv

LEMMA Inductive == IInv /\ [Next]_vars => IInv'
<1> SUFFICES ASSUME IInv, [Next]_vars PROVE IInv'
  OBVIOUS
<1>1. ASSUME NEW r \in Request, Step(r) PROVE IInv'
  <2>1. CASE RefuseNick(r) \/ ChatTaken(r) \/ ChatGone(r)
    BY <2>1, StartGivesUp DEF RefuseNick, ChatTaken, ChatGone, Starting, Excuses
  <2>2. CASE MissContext(r) \/ RefuseQuestion(r)
    BY <2>2, FinishGivesUp DEF MissContext, RefuseQuestion, Warnings
  <2>3. CASE RunGone(r)
    <3>1. r \in gone
      BY <2>3 DEF RunGone, IInv, Sound, Staged
    <3> QED BY <2>3, <3>1, FinishGivesUp DEF RunGone, Warnings
  <2> QED BY <1>1, <2>1, <2>2, <2>3, LookUpChatSteps, InsertChatSteps, UseChatSteps,
             CreateRunSteps, CommitStartSteps, RunGraphSteps, UpdateRunSteps,
             WriteMessageSteps, CommitFinishSteps, ReplySteps DEF Step
<1>2. ASSUME NEW r \in Request, Failure(r) PROVE IInv'
  <2>1. CASE StartFails(r)
    BY <2>1, StartGivesUp DEF StartFails, Starting, Excuses
  <2>2. CASE FinishFails(r)
    BY <2>2, FinishGivesUp DEF FinishFails, Warnings
  <2> QED BY <1>2, <2>1, <2>2, CommitStartSteps, CommitFinishSteps, DieSteps DEF Failure
<1>3. CASE UNCHANGED vars
  BY <1>3 DEF IInv, TypeOK, Sound, Drafted, Staged, Recorded, Told, vars, database,
              asked, drafts
<1> QED BY <1>1, <1>2, <1>3, ArriveSteps, DeleteChatSteps DEF Next

LEMMA Invariant == Spec => []IInv
  BY Initially, Inductive, PTL DEF Spec

-----------------------------------------------------------------------------
(* Theorems *)

(* The rows and locals of every request stay within their types: what       *)
(* start_run and finish_run store is admitted by the constraints of the     *)
(* tables agent_runs and messages.                                          *)
THEOREM TypeCorrect == Spec => []TypeOK
<1>1. IInv => TypeOK
  BY DEF IInv
<1> QED BY <1>1, Invariant, PTL

(* A run and its message are stored together and agree, whatever fails or   *)
(* dies between start_run and finish_run.                                   *)
THEOREM RecordsWhole == Spec => []RecordedWhole
<1>1. IInv => RecordedWhole
  BY DEF IInv, Sound, Recorded, RecordedWhole
<1> QED BY <1>1, Invariant, PTL

(* An answer of _run_internal without a persistence warning is on record.   *)
THEOREM CleanAnswers == Spec => []CleanAnswerIsRecorded
<1>1. IInv => CleanAnswerIsRecorded
  BY Columns DEF IInv, Sound, Staged, CleanAnswerIsRecorded
<1> QED BY <1>1, Invariant, PTL

(* The warnings of start_run and finish_run are true of the database.       *)
THEOREM TrueWarnings == Spec => []WarningsTell
<1>1. IInv => WarningsTell
  BY DEF IInv, Sound, Told, WarningsTell, Excuses
<1> QED BY <1>1, Invariant, PTL

-----------------------------------------------------------------------------
(* The refinement of ConversationLog *)

replied == [r \in Request |-> ReplyOf(r)]
forgotten == {r \in gone : messages[r] = "none"}

\* Nothing that the log shows changes.
Silent == messages' = messages /\ replied' = replied /\ forgotten' = forgotten

(* A step that neither publishes, replies nor deletes is silent. *)
LEMMA SilentSteps ==
  ASSUME NEW r \in Request, IInv, messages' = messages, gone' = gone,
         NEW l, l \notin {"answered", "raised"}, pc' = [pc EXCEPT ![r] = l],
         pc[r] \notin {"answered", "raised"},
         \A s \in Request \ {r} : warnings'[s] = warnings[s]
  PROVE  Silent
<1>1. \A s \in Request : ReplyOf(s)' = ReplyOf(s)
  <2> TAKE s \in Request
  <2>1. CASE s = r
    BY <2>1 DEF IInv, TypeOK, ReplyOf
  <2>2. CASE s # r
    BY <2>2 DEF IInv, TypeOK, ReplyOf
  <2> QED BY <2>1, <2>2
<1> QED BY <1>1 DEF Silent, replied, forgotten

(* CommitStart publishes a run and no message. *)
LEMMA CommitStartIsSilent ==
  ASSUME NEW r \in Request, IInv, NEW seen \in BOOLEAN, CommitStart(r, seen)
  PROVE  Silent
<1>1. messages' = messages /\ gone' = gone
  BY DEF CommitStart, Publish, IInv, TypeOK, Sound, Drafted, Staged, Unrecorded, Starting
<1>2. \A s \in Request \ {r} : warnings'[s] = warnings[s]
  BY DEF CommitStart, Warn, IInv, TypeOK
<1> QED BY <1>1, <1>2, SilentSteps DEF CommitStart, Go

(* CommitFinish puts the request on record. *)
LEMMA CommitFinishIsRecord ==
  ASSUME NEW r \in Request, IInv, NEW seen \in BOOLEAN, CommitFinish(r, seen)
  PROVE  Log!Record(r)
<1>1. /\ messages[r] = "none" /\ r \notin gone
      /\ draftMessage[r] \in Statuses
  BY Columns DEF CommitFinish, IInv, Sound, Drafted, Staged, Unrecorded
<1>2. messages' = [messages EXCEPT ![r] = draftMessage[r]] /\ gone' = gone
  BY DEF CommitFinish, Publish
<1>3. ReplyOf(r) = "none" /\ \A s \in Request : ReplyOf(s)' = ReplyOf(s)
  <2>1. ReplyOf(r) = "none" /\ ReplyOf(r)' = "none"
    BY DEF CommitFinish, Go, IInv, TypeOK, ReplyOf
  <2>2. ASSUME NEW s \in Request \ {r} PROVE ReplyOf(s)' = ReplyOf(s)
    BY DEF CommitFinish, Go, Warn, IInv, TypeOK, ReplyOf
  <2> QED BY <2>1, <2>2
<1>4. forgotten' = forgotten
  BY <1>1, <1>2 DEF forgotten, IInv, TypeOK
<1> QED BY <1>1, <1>2, <1>3, <1>4 DEF Log!Record, replied, forgotten

(* A reply without warnings is given for what is on record. *)
LEMMA ReplyIsReply ==
  ASSUME NEW r \in Request, IInv, Reply(r)
  PROVE  Log!Reply(r)
<1>1. ReplyOf(r) = "none" /\ ReplyOf(r)' \in {"clean", "warned", "error"}
  BY DEF Reply, Go, IInv, TypeOK, ReplyOf
<1>2. ReplyOf(r)' = "clean" => messages[r] # "none" \/ r \in forgotten
  <2> HAVE ReplyOf(r)' = "clean"
  <2>1. warnings[r] = {}
    BY DEF Reply, Go, IInv, TypeOK, ReplyOf
  <2>2. messages[r] = StatusOf(outcome[r]) \/ r \in gone
    BY <2>1 DEF Reply, IInv, Sound, Staged
  <2>3. StatusOf(outcome[r]) # "none"
    BY Columns DEF Reply, IInv, Sound, Staged, Statuses
  <2> QED BY <2>2, <2>3 DEF forgotten
<1>3. \A s \in Request \ {r} : ReplyOf(s)' = ReplyOf(s)
  BY DEF Reply, Go, IInv, TypeOK, ReplyOf
<1>4. replied' = [replied EXCEPT ![r] = ReplyOf(r)']
  BY <1>3 DEF replied
<1>5. UNCHANGED <<messages, forgotten>>
  BY DEF Reply, database, forgotten
<1> QED BY <1>1, <1>2, <1>4, <1>5 DEF Log!Reply, replied, forgotten

(* A chat that is deleted is forgotten. *)
LEMMA DeleteChatIsForget ==
  ASSUME NEW c \in Chat, IInv, DeleteChat(c)
  PROVE  \E S \in SUBSET Request : Log!Forget(S)
<1> DEFINE mine == {r \in Request : chatOf[r] = c /\ runs[r] # NoRun}
<1>1. /\ gone' = gone \cup mine
      /\ messages' = [r \in Request |-> IF r \in mine THEN "none" ELSE messages[r]]
      /\ pc' = pc /\ warnings' = warnings
  BY DEF DeleteChat
<1> HIDE DEF mine
<1>2. mine \in SUBSET Request
  BY DEF mine
<1>3. forgotten' = forgotten \cup mine
  BY <1>1, <1>2 DEF forgotten, IInv, TypeOK
<1>4. replied' = replied
  BY <1>1 DEF replied, ReplyOf
<1>5. Log!Forget(mine)
  BY <1>1, <1>3, <1>4 DEF Log!Forget, replied, forgotten
<1> QED BY <1>2, <1>5 DEF Log!Forget

LEMMA StepsOfLog == IInv /\ [Next]_vars => [Log!Next]_(Log!vars)
<1> SUFFICES ASSUME IInv, [Next]_vars PROVE Silent \/ Log!Next
  BY DEF Log!vars, Silent, replied, forgotten
<1>1. ASSUME NEW r \in Request, Arrive(r) PROVE Silent
  BY <1>1, SilentSteps DEF Arrive, Go, database
<1>2. ASSUME NEW r \in Request, NEW w \in Warnings, StartWithout(r, w),
             pc[r] \notin {"answered", "raised"}
      PROVE  Silent
  BY <1>2, SilentSteps DEF StartWithout, Go, Warn, database, IInv, TypeOK
<1>3. ASSUME NEW r \in Request, NEW w \in Warnings, FinishWithout(r, w),
             pc[r] \notin {"answered", "raised"}
      PROVE  Silent
  BY <1>3, SilentSteps DEF FinishWithout, Go, Warn, database, IInv, TypeOK
<1>4. ASSUME NEW r \in Request, Step(r) PROVE Silent \/ Log!Next
  <2>1. CASE RefuseNick(r) \/ ChatTaken(r) \/ ChatGone(r)
    BY <2>1, <1>2 DEF RefuseNick, ChatTaken, ChatGone, Warnings
  <2>2. CASE MissContext(r) \/ RunGone(r) \/ RefuseQuestion(r)
    BY <2>2, <1>3 DEF MissContext, RunGone, RefuseQuestion, Warnings
  <2>3. CASE LookUpChat(r) \/ InsertChat(r) \/ UseChat(r) \/ CreateRun(r)
    BY <2>3, SilentSteps DEF LookUpChat, InsertChat, UseChat, CreateRun, Go, database
  <2>4. CASE RunGraph(r) \/ UpdateRun(r) \/ WriteMessage(r)
    BY <2>4, SilentSteps DEF RunGraph, UpdateRun, WriteMessage, Go, database
  <2> QED BY <1>4, <2>1, <2>2, <2>3, <2>4, CommitStartIsSilent, CommitFinishIsRecord,
             ReplyIsReply DEF Step, Log!Next
<1>5. ASSUME NEW r \in Request, Failure(r) PROVE Silent \/ Log!Next
  <2>1. CASE StartFails(r)
    BY <2>1, <1>2 DEF StartFails, Warnings
  <2>2. CASE FinishFails(r)
    BY <2>2, <1>3 DEF FinishFails, Warnings
  <2>3. CASE Die(r)
    BY <2>3, SilentSteps DEF Die, Live, Go, database
  <2> QED BY <1>5, <2>1, <2>2, <2>3, CommitStartIsSilent, CommitFinishIsRecord
             DEF Failure, Log!Next
<1>6. CASE UNCHANGED vars
  BY <1>6 DEF Silent, replied, forgotten, ReplyOf, vars, database
<1> QED BY <1>1, <1>4, <1>5, <1>6, DeleteChatIsForget DEF Next, Log!Next

(* Requests with their transactions, outages and deaths keep the promise of *)
(* ConversationLog.                                                         *)
THEOREM Refinement == Spec => ImplementsLog
<1>1. Init => Log!Init
  BY DEF Init, Log!Init, ReplyOf
<1> QED BY <1>1, StepsOfLog, Invariant, PTL DEF Spec, ImplementsLog, Log!Spec

-----------------------------------------------------------------------------
(* Requests that meet on a healthy database *)

\* Another request of the same chat, served elsewhere, that has its context.
Met(r) ==
  \E s \in Request \ {r} : chatOf[s] = chatOf[r] /\ server[s] # server[r] /\ context[s]

\* Without outages and deletions a context is kept and never warned of, and a
\* chat that was not there at first has come with a request that was met.
Healthy(r) ==
  /\ context[r] => runs[r] # NoRun /\ "persistence_unavailable" \notin warnings[r]
  /\ \A s \in Request \ {r} : Live(r) /\ Live(s) => server[s] # server[r]
  /\ pc[r] = "insert" /\ found[r] => chatOf[r] \in chats
  /\ pc[r] = "create" => newChat[r] \/ chatOf[r] \in chats
  /\ pc[r] = "insert" /\ ~ found[r] /\ chatOf[r] \in chats => Met(r)
  /\ "persistence_unavailable" \in warnings[r] => Met(r)
MeetInv == ~ Outages /\ ~ Deletions => \A r \in Request : Healthy(r)

\* Who is met stays met.
LEMMA MetStays ==
  ASSUME NEW r \in Request, Met(r), UNCHANGED asked,
         \A s \in Request : context[s] => context'[s]
  PROVE  Met(r)'
BY DEF Met, asked

LEMMA MeetInit == Init => MeetInv
BY DEF Init, MeetInv, Healthy, Live

\* A step of r that adds no chat.
LEMMA MeetQuietly ==
  ASSUME IInv, IInv', \A s \in Request : Healthy(s), NEW r \in Request, Keeps(r),
         UNCHANGED <<asked, chats>>, context' = context,
         Live(r)' => Live(r) \/ \A s \in Request \ {r} : Live(s) => server[s] # server[r],
         \A s \in Request \ {r} : found'[s] = found[s],
         Healthy(r)'
  PROVE  \A s \in Request : Healthy(s)'
<1> SUFFICES ASSUME NEW s \in Request \ {r} PROVE Healthy(s)'  OBVIOUS
<1>1. Met(s) => Met(s)'  BY MetStays
<1>2. Healthy(s)  OBVIOUS
<1>3. \A x \in Request \ {r} : Live(x)' = Live(x)  BY DEF Keeps, Live
<1>4. \A x \in Request \ {s} : Live(s)' /\ Live(x)' => server'[x] # server'[s]
  BY <1>2, <1>3 DEF Healthy, asked
<1> QED  BY <1>1, <1>2, <1>4 DEF Healthy, Keeps, asked

\* A request arrives at an idle process.
LEMMA MeetArrive ==
  ASSUME IInv, IInv', \A s \in Request : Healthy(s), NEW r \in Request, Arrive(r)
  PROVE  \A s \in Request : Healthy(s)'
<1> USE DEF Arrive, Go, database, asked, drafts
<1>1. Keeps(r)  BY DEF IInv, TypeOK, Keeps
<1>2. Healthy(r)'
  <2>1. pc'[r] = "lookup" /\ \A s \in Request \ {r} : pc'[s] = pc[s]  BY DEF IInv, TypeOK
  <2>2. \A s \in Request \ {r} : Live(s)' => server'[s] # server'[r]  BY <2>1 DEF Live
  <2>3. ~ context[r] /\ warnings[r] = {}
    BY DEF IInv, Sound, Staged, Starting
  <2> QED  BY <2>1, <2>2, <2>3 DEF Healthy
<1> QED  BY <1>1, <1>2, MeetQuietly

\* A step of a request that goes on as it is.
GoesOn(r) ==
  /\ Live(r) /\ Keeps(r) /\ UNCHANGED <<chats, runs, chatOf, input, server, context>>
  /\ \A s \in Request \ {r} : found'[s] = found[s]
  /\ "persistence_unavailable" \in warnings'[r] =>
       "persistence_unavailable" \in warnings[r] \/ (Met(r) /\ ~ context[r])
  /\ pc'[r] = "insert" => pc[r] = "lookup" /\ (found'[r] <=> chatOf[r] \in chats)
  /\ pc'[r] = "create" => newChat'[r] \/ chatOf[r] \in chats

LEMMA MeetStep ==
  ASSUME IInv, IInv', \A s \in Request : Healthy(s), NEW r \in Request, GoesOn(r)
  PROVE  \A s \in Request : Healthy(s)'
<1> USE DEF GoesOn
<1>0. UNCHANGED asked  BY DEF asked
<1>1. Met(r) => Met(r)'  BY <1>0, MetStays
<1>2. \A s \in Request \ {r} : Live(s)' => server'[s] # server'[r]
  BY DEF Keeps, Live, Healthy, asked
<1>3. Healthy(r)'  BY <1>1, <1>2 DEF Healthy, asked
<1> QED  BY <1>0, <1>3, MeetQuietly

\* start_run has its chat and its run.
LEMMA MeetCommitStart ==
  ASSUME IInv, IInv', \A s \in Request : Healthy(s), NEW r \in Request, CommitStart(r, TRUE)
  PROVE  \A s \in Request : Healthy(s)'
<1> USE DEF CommitStart, Go, Publish, Rollback, asked
<1>1. /\ Keeps(r) /\ pc[r] = "commitStart" /\ pc'[r] = "graph" /\ Live(r)
      /\ context' = [context EXCEPT ![r] = TRUE] /\ UNCHANGED <<asked, found, warnings>>
  BY DEF IInv, TypeOK, Keeps, Live
<1>2. warnings[r] = {} /\ draftRun[r] = Started
  BY <1>1 DEF IInv, Sound, Staged, Drafted, Starting
<1>3. \A s \in Request : context[s] => context'[s]  BY <1>1 DEF IInv, TypeOK
<1>4. \A s \in Request : Met(s) => Met(s)'  BY <1>3, MetStays
<1>5. ASSUME NEW s \in Request \ {r}, pc[s] = "insert", chatOf[s] \in chats', chatOf[s] \notin chats
      PROVE  Met(s)'
  <2>1. chatOf[s] = chatOf[r]  BY <1>5
  <2>2. server[s] # server[r]  BY <1>1, <1>5 DEF Healthy, Live
  <2>3. context'[r]  BY <1>1 DEF IInv, TypeOK
  <2> QED  BY <1>1, <2>1, <2>2, <2>3 DEF Met
<1>6. Healthy(r)'
  <2>1. runs'[r] = Started  BY <1>2 DEF IInv, TypeOK
  <2>2. \A s \in Request \ {r} : Live(s)' => server'[s] # server'[r]
    BY <1>1 DEF Keeps, Live, Healthy
  <2> QED  BY <1>1, <1>2, <2>1, <2>2, Rows DEF Healthy
<1>7. ASSUME NEW s \in Request \ {r} PROVE Healthy(s)'
  <2>1. \A x \in Request : Live(x)' = Live(x)  BY <1>1 DEF Keeps, Live
  <2>2. context'[s] = context[s]  BY <1>1 DEF IInv, TypeOK
  <2> QED  BY <1>1, <1>4, <1>5, <2>1, <2>2 DEF Healthy, Keeps
<1> QED  BY <1>6, <1>7

LEMMA MeetNext == IInv /\ IInv' /\ MeetInv /\ [Next]_vars => MeetInv'
<1> SUFFICES ASSUME IInv, IInv', \A s \in Request : Healthy(s), [Next]_vars,
                    ~ Outages, ~ Deletions
             PROVE  \A s \in Request : Healthy(s)'
  BY DEF MeetInv
<1> USE DEF Go, Warn, Rollback, database, asked, drafts
<1> USE DEF IInv, TypeOK, Keeps, Live, GoesOn
<1>1. ASSUME NEW r \in Request, RefuseNick(r) PROVE GoesOn(r)
  <2>1. /\ pc[r] = "lookup" /\ pc' = [pc EXCEPT ![r] = "graph"]
        /\ warnings' = [warnings EXCEPT ![r] = @ \cup {"persistence_invalid_identity"}]
    BY <1>1 DEF RefuseNick, StartWithout
  <2>2. Keeps(r)  BY <1>1 DEF RefuseNick, StartWithout
  <2>3. UNCHANGED <<chats, runs, chatOf, input, server, context, found>>
    BY <1>1 DEF RefuseNick, StartWithout
  <2>4. pc'[r] = "graph" /\ ("persistence_unavailable" \in warnings'[r] =>
                               "persistence_unavailable" \in warnings[r])
    BY <2>1
  <2>5. Live(r)  BY <2>1
  <2> HIDE DEF IInv, TypeOK, Keeps, Live
  <2> QED  BY <2>2, <2>3, <2>4, <2>5
<1>2. ASSUME NEW r \in Request, ChatTaken(r) PROVE GoesOn(r)
  <2>1. Met(r)  BY <1>2 DEF ChatTaken, Healthy
  <2>2. ~ context[r]  BY <1>2 DEF ChatTaken, Sound, Staged, Starting
  <2> QED  BY <1>2, <2>1, <2>2 DEF ChatTaken, StartWithout
<1>3. ASSUME NEW r \in Request, ChatGone(r) PROVE FALSE
  BY <1>3 DEF ChatGone, Healthy
<1>4. ASSUME NEW r \in Request, RunGone(r) PROVE FALSE
  BY <1>4 DEF RunGone, Healthy
<1>5. ASSUME NEW r \in Request, LookUpChat(r) PROVE GoesOn(r)
  <2>1. /\ pc[r] = "lookup" /\ pc' = [pc EXCEPT ![r] = "insert"]
        /\ found' = [found EXCEPT ![r] = chatOf[r] \in chats]
    BY <1>5 DEF LookUpChat
  <2>2. Keeps(r)  BY <1>5 DEF LookUpChat
  <2>3. UNCHANGED <<chats, runs, chatOf, input, server, context, warnings>>
    BY <1>5 DEF LookUpChat
  <2>4. pc'[r] = "insert"  BY <2>1
  <2>5. (found'[r] <=> chatOf[r] \in chats) /\ \A s \in Request \ {r} : found'[s] = found[s]
    BY ZenonT(60), <2>1
  <2>6. Live(r)  BY <2>1
  <2> HIDE DEF IInv, TypeOK, Keeps, Live
  <2> QED  BY <2>1, <2>2, <2>3, <2>4, <2>5, <2>6
<1>6. ASSUME NEW r \in Request, InsertChat(r) \/ UseChat(r) PROVE GoesOn(r)
  BY <1>6 DEF InsertChat, UseChat, Healthy
<1>7. ASSUME NEW r \in Request, CreateRun(r) \/ RunGraph(r) \/ UpdateRun(r) \/ WriteMessage(r)
                                 \/ Reply(r) \/ Die(r)
      PROVE  GoesOn(r)
  <2>1. Live(r) /\ pc'[r] \notin {"insert", "create"}
    BY <1>7 DEF CreateRun, RunGraph, UpdateRun, WriteMessage, Reply, Die
  <2>2. Keeps(r)
    BY <1>7 DEF CreateRun, RunGraph, UpdateRun, WriteMessage, Reply, Die
  <2>3. UNCHANGED <<chats, runs, chatOf, input, server, context, warnings, found>>
    BY <1>7 DEF CreateRun, RunGraph, UpdateRun, WriteMessage, Reply, Die
  <2> HIDE DEF IInv, TypeOK, Keeps, Live
  <2> QED  BY <2>1, <2>2, <2>3
<1>8. ASSUME NEW r \in Request, MissContext(r) \/ RefuseQuestion(r) PROVE GoesOn(r)
  <2>1. PICK w \in {"persistence_missing_context", "persistence_invalid_input"} :
          FinishWithout(r, w)
    BY <1>8 DEF MissContext, RefuseQuestion
  <2>2. Live(r)  BY <1>8 DEF MissContext, RefuseQuestion
  <2>3. Keeps(r) /\ UNCHANGED <<chats, runs, chatOf, input, server, context, found>>
    BY <2>1 DEF FinishWithout
  <2>4. pc'[r] = "reply" /\ ("persistence_unavailable" \in warnings'[r] =>
                               "persistence_unavailable" \in warnings[r])
    BY <2>1 DEF FinishWithout
  <2> HIDE DEF IInv, TypeOK, Keeps, Live
  <2> QED  BY <2>2, <2>3, <2>4
<1> HIDE DEF IInv, TypeOK, Keeps, Live, GoesOn
<1>9. ASSUME NEW r \in Request, CommitFinish(r, TRUE) PROVE \A s \in Request : Healthy(s)'
  <2>1. /\ Live(r) /\ Keeps(r) /\ pc'[r] = "reply"
        /\ UNCHANGED <<chats, asked, context, found, warnings>>
    BY <1>9 DEF CommitFinish, Publish, IInv, TypeOK, Sound, Drafted, Keeps, Live
  <2>2. outcome[r] \in Statuses \cup Errors /\ draftRun[r] = RunColumns(outcome[r])
    BY <1>9 DEF CommitFinish, IInv, Sound, Drafted, Staged
  <2>3. runs'[r] # NoRun
    BY <1>9, <2>2, Columns DEF CommitFinish, Publish, IInv, TypeOK
  <2>4. Met(r) => Met(r)'  BY <2>1, MetStays
  <2>5. \A s \in Request \ {r} : Live(s)' => server'[s] # server'[r]
    BY <2>1 DEF Keeps, Live, Healthy
  <2>6. Healthy(r)'  BY <2>1, <2>3, <2>4, <2>5 DEF Healthy
  <2> QED  BY <2>1, <2>6, MeetQuietly
<1>10. CASE UNCHANGED vars
  <2>1. \A s \in Request : (Live(s)' = Live(s)) /\ (Met(s) => Met(s)')
    BY <1>10 DEF Live, Met, vars
  <2> QED  BY <1>10, <2>1 DEF Healthy, vars
<1>11. ASSUME NEW r \in Request, Failure(r), ~ Die(r) PROVE FALSE
  BY <1>11 DEF Failure, StartFails, CommitStart, FinishFails, CommitFinish
<1>12. ASSUME NEW c \in Chat, DeleteChat(c) PROVE FALSE
  BY <1>12 DEF DeleteChat
<1> QED
  BY <1>1, <1>2, <1>3, <1>4, <1>5, <1>6, <1>7, <1>8, <1>9, <1>10, <1>11, <1>12, MeetArrive,
     MeetCommitStart, MeetStep DEF Next, Step

(* A healthy database is called unavailable only when the first questions   *)
(* of one chat meet in two processes: the other one has its context, and is *)
(* told nothing of the kind.                                                *)
THEOREM UnavailableAmongMany == Spec => []UnavailableMeansMeeting
<1>1. MeetInv => UnavailableMeansMeeting
  BY DEF MeetInv, Healthy, Met, UnavailableMeansMeeting
<1> QED  BY <1>1, Invariant, MeetInit, MeetNext, PTL DEF Spec
=============================================================================

----------------------------- MODULE AgentRuntime -----------------------------
(***************************************************************************)
(* A request to the agent, from start_run to the reply: _run_internal of   *)
(* app/services/agent_runtime.py with RuntimePersistenceService and        *)
(* ChatAnalyticsRepository (app/persistence).                              *)
(*                                                                         *)
(* start_run and finish_run are one transaction each on the chat-analytics *)
(* database.  Both fail softly: they roll back and return a warning, and   *)
(* the request goes on.  The route handlers are coroutines that never      *)
(* await, so a process serves one request at a time; requests of different *)
(* processes interleave at every statement.  A commit may succeed without  *)
(* its acknowledgement arriving, a process may die between any two steps,  *)
(* and a chat may be deleted with all it holds.                            *)
(*                                                                         *)
(* The graph in between is one step with a free outcome.                   *)
(***************************************************************************)
CONSTANTS
  Request,   \* the requests that ever come
  Chat,      \* the chat ids their clients use
  Process,   \* the processes of the service
  Outages,   \* TRUE iff statements and commits may fail for reasons of the database
  Deletions  \* TRUE iff chats may be deleted

ASSUME RequestsAssumption == Outages \in BOOLEAN /\ Deletions \in BOOLEAN

\* RunStatus without RUNNING; what _run_internal makes of an exception.
Statuses == {"completed", "onboarding", "clarify", "rejected", "denied", "failed"}
Errors   == {"llm_error", "runtime_internal_error"}
\* A question may be blank, and so may the nick a payload was signed with.
Inputs   == {"plain", "blankQuestion", "blankNick"}
Warnings == {"persistence_unavailable", "persistence_invalid_identity",
             "persistence_invalid_input", "persistence_not_found",
             "persistence_missing_context"}

\* Mutant of DbStatus: the run's status is stored as it is.
RawStatus(s) == <<s, "">>
\* map_runtime_status_to_db: the run's status and its error code.
DbStatus(s) ==
  CASE s = "completed"  -> <<"completed", "">>
    [] s = "onboarding" -> <<"completed", "onboarding">>
    [] s = "clarify"    -> <<"clarification_needed", "">>
    [] s = "failed"     -> <<"failed", "runtime_failed">>
    [] OTHER            -> <<"failed", s>>

NoRun == <<"none", "">>
Started == <<"started", "">>
\* What finish_run stores for an outcome: the status, and the run's columns.
StatusOf(o) == IF o \in Errors THEN "failed" ELSE o
RunColumns(o) == IF o \in Errors THEN <<"failed", o>> ELSE DbStatus(o)
\* ck_agent_runs_status, and every error code there is.
RunRows == {"none", "started", "completed", "failed", "clarification_needed"}
           \X ({"", "onboarding", "runtime_failed", "rejected", "denied"} \cup Errors)

VARIABLES
  chats,     \* the chats rows
  runs,      \* [Request -> RunRows]: the agent_runs row start_run made for it
  messages,  \* [Request -> Statuses \cup {"none"}]: its messages row
  gone,      \* history: requests whose rows went with their chat
  chatOf, input, server,          \* what each request asks, and of which process
  pc, found, context, outcome, warnings, \* where it is, and its locals
  newChat, draftRun, draftMessage \* its open transaction

database == <<chats, runs, messages, gone>>
asked    == <<chatOf, input, server>>
drafts   == <<newChat, draftRun, draftMessage>>
vars     == <<database, asked, pc, found, context, outcome, warnings, drafts>>

-----------------------------------------------------------------------------
Live(r) == pc[r] \notin {"new", "answered", "raised", "dead"}

Go(r, l) == pc' = [pc EXCEPT ![r] = l]
Warn(r, w) == warnings' = [warnings EXCEPT ![r] = @ \cup {w}]
\* Mutant of Rollback: the session is left open.
LeaveOpen(r) == UNCHANGED drafts
\* session.rollback, session.close.
Rollback(r) ==
  /\ newChat' = [newChat EXCEPT ![r] = FALSE]
  /\ draftRun' = [draftRun EXCEPT ![r] = NoRun]
  /\ draftMessage' = [draftMessage EXCEPT ![r] = "none"]

Init ==
  /\ chats \in SUBSET Chat
  /\ runs = [r \in Request |-> NoRun]
  /\ messages = [r \in Request |-> "none"]
  /\ gone = {}
  /\ chatOf \in [Request -> Chat] /\ input \in [Request -> Inputs]
  /\ server \in [Request -> Process]
  /\ pc = [r \in Request |-> "new"]
  /\ found = [r \in Request |-> FALSE]
  /\ context = [r \in Request |-> FALSE]
  /\ outcome = [r \in Request |-> "none"]
  /\ warnings = [r \in Request |-> {}]
  /\ newChat = [r \in Request |-> FALSE]
  /\ draftRun = [r \in Request |-> NoRun]
  /\ draftMessage = [r \in Request |-> "none"]

(* An idle process takes the request. *)
Arrive(r) ==
  /\ pc[r] = "new" /\ \A s \in Request : Live(s) => server[s] # server[r]
  /\ Go(r, "lookup")
  /\ UNCHANGED <<database, asked, found, context, outcome, warnings, drafts>>

\* Mutant of StartWithout: start_run returns an empty result.
StartQuietly(r, w) ==
  /\ Rollback(r) /\ Go(r, "graph")
  /\ UNCHANGED <<database, asked, found, context, outcome, warnings>>

\* start_run gives up; the request goes on without a persistence context.
StartWithout(r, w) ==
  /\ Warn(r, w) /\ Rollback(r) /\ Go(r, "graph")
  /\ UNCHANGED <<database, asked, found, context, outcome>>

(* get_or_create_chat refuses a blank nick before it looks at the database. *)
RefuseNick(r) ==
  /\ pc[r] = "lookup" /\ input[r] = "blankNick"
  /\ StartWithout(r, "persistence_invalid_identity")

\* Mutant of LookUpChat: the chat is always taken as new.
LookUpNothing(r) ==
  /\ pc[r] = "lookup" /\ input[r] # "blankNick" /\ Go(r, "insert")
  /\ UNCHANGED <<database, asked, found, context, outcome, warnings, drafts>>

LookUpChat(r) ==
  /\ pc[r] = "lookup" /\ input[r] # "blankNick"
  /\ found' = [found EXCEPT ![r] = chatOf[r] \in chats]
  /\ Go(r, "insert")
  /\ UNCHANGED <<database, asked, context, outcome, warnings, drafts>>

\* The primary key of an uncommitted chat is locked.
Waits(r) == \E s \in Request \ {r} : newChat[s] /\ chatOf[s] = chatOf[r]

(* get_or_create_chat inserts the chat it did not find. *)
InsertChat(r) ==
  /\ pc[r] = "insert" /\ ~ found[r] /\ ~ Waits(r) /\ chatOf[r] \notin chats
  /\ newChat' = [newChat EXCEPT ![r] = TRUE]
  /\ Go(r, "create")
  /\ UNCHANGED <<database, asked, found, context, outcome, warnings, draftRun,
                 draftMessage>>

(* ... unless another request has inserted it since: the key is taken. *)
ChatTaken(r) ==
  /\ pc[r] = "insert" /\ ~ found[r] /\ ~ Waits(r) /\ chatOf[r] \in chats
  /\ StartWithout(r, "persistence_unavailable")

UseChat(r) ==
  /\ pc[r] = "insert" /\ found[r] /\ Go(r, "create")
  /\ UNCHANGED <<database, asked, found, context, outcome, warnings, drafts>>

(* create_run_started: the insert locks the chat it refers to. *)
CreateRun(r) ==
  /\ pc[r] = "create" /\ (newChat[r] \/ chatOf[r] \in chats)
  /\ draftRun' = [draftRun EXCEPT ![r] = Started]
  /\ Go(r, "commitStart")
  /\ UNCHANGED <<database, asked, found, context, outcome, warnings, newChat,
                 draftMessage>>

(* ... and fails when the chat that was found has been deleted. *)
ChatGone(r) ==
  /\ pc[r] = "create" /\ ~ newChat[r] /\ chatOf[r] \notin chats
  /\ StartWithout(r, "persistence_unavailable")

\* A commit publishes the open transaction of r.
Publish(r) ==
  /\ chats' = IF newChat[r] THEN chats \cup {chatOf[r]} ELSE chats
  /\ runs' = [runs EXCEPT ![r] = draftRun[r]]
  /\ messages' = [messages EXCEPT ![r] = draftMessage[r]]
  /\ UNCHANGED gone
  /\ Rollback(r)

(* start_run commits; with `seen` FALSE the acknowledgement is lost. *)
CommitStart(r, seen) ==
  /\ pc[r] = "commitStart" /\ (seen \/ Outages)
  /\ Publish(r) /\ Go(r, "graph")
  /\ context' = [context EXCEPT ![r] = seen]
  /\ IF seen THEN UNCHANGED warnings ELSE Warn(r, "persistence_unavailable")
  /\ UNCHANGED <<asked, found, outcome>>

(* A session that cannot be opened, a statement or a commit that fails. *)
StartFails(r) ==
  /\ Outages /\ pc[r] \in {"lookup", "insert", "create", "commitStart"}
  /\ StartWithout(r, "persistence_unavailable")

(* The graph answers with a final state, or raises. *)
RunGraph(r) ==
  /\ pc[r] = "graph"
  /\ \E o \in Statuses \cup Errors : outcome' = [outcome EXCEPT ![r] = o]
  /\ Go(r, "finish")
  /\ UNCHANGED <<database, asked, found, context, warnings, drafts>>

\* finish_run gives up.
FinishWithout(r, w) ==
  /\ Warn(r, w) /\ Rollback(r) /\ Go(r, "reply")
  /\ UNCHANGED <<database, asked, found, context, outcome>>

MissContext(r) ==
  /\ pc[r] = "finish" /\ ~ context[r]
  /\ FinishWithout(r, "persistence_missing_context")

\* Mutant of UpdateRun: a transaction of its own.
UpdateRunNow(r) ==
  /\ pc[r] = "finish" /\ context[r] /\ runs[r] # NoRun
  /\ draftRun' = [draftRun EXCEPT ![r] = RunColumns(outcome[r])]
  /\ runs' = [runs EXCEPT ![r] = RunColumns(outcome[r])]
  /\ Go(r, "message")
  /\ UNCHANGED <<chats, messages, gone, asked, found, context, outcome, warnings,
                 newChat, draftMessage>>

\* Mutant of UpdateRun: no message is written.
UpdateRunOnly(r) ==
  /\ pc[r] = "finish" /\ context[r] /\ runs[r] # NoRun
  /\ draftRun' = [draftRun EXCEPT ![r] = RunColumns(outcome[r])]
  /\ Go(r, "commitFinish")
  /\ UNCHANGED <<database, asked, found, context, outcome, warnings, newChat,
                 draftMessage>>

(* update_run_terminal_status; it locks the run, and so its chat. *)
UpdateRun(r) ==
  /\ pc[r] = "finish" /\ context[r] /\ runs[r] # NoRun
  /\ draftRun' = [draftRun EXCEPT ![r] = RunColumns(outcome[r])]
  /\ Go(r, "message")
  /\ UNCHANGED <<database, asked, found, context, outcome, warnings, newChat,
                 draftMessage>>

(* The run has gone with its chat, before it is read or before it is updated. *)
RunGone(r) ==
  /\ pc[r] = "finish" /\ context[r] /\ runs[r] = NoRun
  /\ \E w \in {"persistence_not_found", "persistence_unavailable"} : FinishWithout(r, w)

(* write_message. *)
WriteMessage(r) ==
  /\ pc[r] = "message" /\ input[r] # "blankQuestion"
  /\ draftMessage' = [draftMessage EXCEPT ![r] = StatusOf(outcome[r])]
  /\ Go(r, "commitFinish")
  /\ UNCHANGED <<database, asked, found, context, outcome, warnings, newChat, draftRun>>

\* Mutant of RefuseQuestion: no warning.
RefuseQuietly(r) ==
  /\ pc[r] = "message" /\ input[r] = "blankQuestion"
  /\ Rollback(r) /\ Go(r, "reply")
  /\ UNCHANGED <<database, asked, found, context, outcome, warnings>>

(* write_message refuses a blank question, and the update is rolled back. *)
RefuseQuestion(r) ==
  /\ pc[r] = "message" /\ input[r] = "blankQuestion"
  /\ FinishWithout(r, "persistence_invalid_input")

CommitFinish(r, seen) ==
  /\ pc[r] = "commitFinish" /\ (seen \/ Outages)
  /\ Publish(r) /\ Go(r, "reply")
  /\ IF seen THEN UNCHANGED warnings ELSE Warn(r, "persistence_unavailable")
  /\ UNCHANGED <<asked, found, context, outcome>>

FinishFails(r) ==
  /\ Outages /\ context[r] /\ pc[r] \in {"finish", "message", "commitFinish"}
  /\ FinishWithout(r, "persistence_unavailable")

(* The response, with the warnings of both ends; or the exception, which    *)
(* carries none of them.                                                    *)
Reply(r) ==
  /\ pc[r] = "reply"
  /\ Go(r, IF outcome[r] \in Errors THEN "raised" ELSE "answered")
  /\ UNCHANGED <<database, asked, found, context, outcome, warnings, drafts>>

(* The process dies and its transaction with it. *)
Die(r) ==
  /\ Live(r) /\ Rollback(r) /\ Go(r, "dead")
  /\ UNCHANGED <<database, asked, found, context, outcome, warnings>>

(* A chat is deleted, and ON DELETE CASCADE takes its runs and messages; it *)
(* waits for open transactions that have locked the chat.                   *)
DeleteChat(c) ==
  LET mine == {r \in Request : chatOf[r] = c /\ runs[r] # NoRun} IN
  /\ Deletions /\ c \in chats
  /\ \A r \in Request : chatOf[r] = c => draftRun[r] = NoRun
  /\ chats' = chats \ {c}
  /\ runs' = [r \in Request |-> IF r \in mine THEN NoRun ELSE runs[r]]
  /\ messages' = [r \in Request |-> IF r \in mine THEN "none" ELSE messages[r]]
  /\ gone' = gone \cup mine
  /\ UNCHANGED <<asked, pc, found, context, outcome, warnings, drafts>>

Step(r) ==
  \/ RefuseNick(r) \/ LookUpChat(r) \/ InsertChat(r) \/ ChatTaken(r) \/ UseChat(r)
  \/ CreateRun(r) \/ ChatGone(r) \/ CommitStart(r, TRUE) \/ RunGraph(r)
  \/ MissContext(r) \/ UpdateRun(r) \/ RunGone(r) \/ WriteMessage(r)
  \/ RefuseQuestion(r) \/ CommitFinish(r, TRUE) \/ Reply(r)

Failure(r) ==
  \/ StartFails(r) \/ CommitStart(r, FALSE) \/ FinishFails(r) \/ CommitFinish(r, FALSE)
  \/ Die(r)

Next ==
  \/ \E r \in Request : Arrive(r) \/ Step(r) \/ Failure(r)
  \/ \E c \in Chat : DeleteChat(c)

Spec == Init /\ [][Next]_vars

(* A request that has arrived is a thread of the service. *)
FairSpec == Spec /\ \A r \in Request : WF_vars(Step(r))

-----------------------------------------------------------------------------
(* Properties *)

(* Type correctness of every variable. *)
TypeOK ==
  /\ chats \subseteq Chat
  /\ runs \in [Request -> RunRows] /\ draftRun \in [Request -> RunRows]
  /\ messages \in [Request -> Statuses \cup {"none"}]
  /\ draftMessage \in [Request -> Statuses \cup {"none"}]
  /\ gone \subseteq Request
  /\ chatOf \in [Request -> Chat] /\ input \in [Request -> Inputs]
  /\ server \in [Request -> Process]
  /\ pc \in [Request -> {"new", "lookup", "insert", "create", "commitStart", "graph",
                         "finish", "message", "commitFinish", "reply", "answered",
                         "raised", "dead"}]
  /\ found \in [Request -> BOOLEAN] /\ context \in [Request -> BOOLEAN]
  /\ newChat \in [Request -> BOOLEAN]
  /\ outcome \in [Request -> Statuses \cup Errors \cup {"none"}]
  /\ warnings \in [Request -> SUBSET Warnings]

(* A run and its message agree at every moment, crash or no crash: a        *)
(* message is stored exactly when its run is terminal, with the same        *)
(* status, and both in an existing chat.                                    *)
RecordedWhole ==
  \A r \in Request :
    /\ messages[r] = "none" <=> runs[r] \in {NoRun, Started}
    /\ messages[r] # "none" => runs[r] \in {RunColumns(messages[r])} \cup
         {RunColumns(e) : e \in {x \in Errors : messages[r] = "failed"}}
    /\ runs[r] # NoRun => chatOf[r] \in chats

(* Who gets an answer without a persistence warning is on record with that  *)
(* very status, unless the chat was deleted.                                *)
CleanAnswerIsRecorded ==
  \A r \in Request :
    pc[r] = "answered" /\ warnings[r] = {} => messages[r] = outcome[r] \/ r \in gone

(* What the warnings say is so: without a context or with an input that is  *)
(* refused nothing is recorded, and a run that is not found had its chat    *)
(* deleted.                                                                 *)
WarningsTell ==
  \A r \in Request :
    /\ warnings[r] \cap {"persistence_missing_context", "persistence_invalid_input"} # {}
         => messages[r] = "none"
    /\ "persistence_missing_context" \in warnings[r] =>
         warnings[r] \cap {"persistence_unavailable", "persistence_invalid_identity"} # {}
    /\ "persistence_not_found" \in warnings[r] => r \in gone

(* Requests that wait for each other's chat come to their reply. *)
RepliesCome ==
  \A r \in Request : pc[r] = "lookup" ~> pc[r] \in {"answered", "raised", "dead"}

(* README.md: "persistence_unavailable: chat analytics DB unreachable or    *)
(* failed".  A healthy database is called that only when the first          *)
(* questions of one chat meet in two processes, and then by one of them.    *)
UnavailableMeansMeeting ==
  ~ Outages /\ ~ Deletions =>
    \A r \in Request : "persistence_unavailable" \in warnings[r] =>
      \E s \in Request \ {r} :
        /\ chatOf[s] = chatOf[r] /\ server[s] # server[r]
        /\ "persistence_unavailable" \notin warnings[s]

(* What a client may rely on, see ConversationLog. *)
ReplyOf(r) == CASE pc[r] = "raised" -> "error"
                [] pc[r] = "answered" -> IF warnings[r] = {} THEN "clean" ELSE "warned"
                [] OTHER -> "none"
Log == INSTANCE ConversationLog WITH
         record <- messages, replied <- [r \in Request |-> ReplyOf(r)],
         forgotten <- {r \in gone : messages[r] = "none"}
ImplementsLog == Log!Spec
=============================================================================

# SmartRest AI Agent in TLA+

TLA+ models, TLC runs and TLAPS proofs about the SmartRest AI agent: a FastAPI
service that answers business questions of restaurants through a bounded
LangGraph workflow, and the two sync pipelines that fill its database from a
MySQL source.  Source paths below are relative to the repository.

## 1. The system

| component | state it keeps | operations | talks to |
|---|---|---|---|
| mapped-table sync (`app/sync/mapped_table_sync.py`) | `sync_runs`, `sync_state` (a cursor per stream), `sync_errors`, the synchronised tables | one run: order the tables, copy each in batches, row-by-row fallback, final status | MySQL source, PostgreSQL target |
| identity sync (`app/sync/identity_sync.py`) | `canonical_profiles`, `profile_source_maps`, `canonical_users`, `canonical_source_maps`, and the three sync tables | one run: profiles, then users, a savepoint per row, a commit per batch | the same databases; its result is what the resolver reads |
| canonical identity resolver, platform admin, subscription access (`app/services`) | none, they read | resolve an identity, pick a target user, admit or refuse a profile | SmartRest database |
| authentication (`app/core/auth.py`) | none | check a signed payload against the clock | API routes |
| API routes (`app/api/routes/agent.py`) | none | verify, check the subscription, run, map errors to HTTP | all of the above |
| agent runtime (`app/services/agent_runtime.py`) | one request | start persistence, invoke the graph, finish persistence, reply | persistence, graph |
| runtime persistence (`app/persistence`, `app/chat_analytics`) | `chats`, `agent_runs`, `messages` | `start_run`, `finish_run`, each one transaction, failing softly into warnings | chat-analytics database |
| agent graph (`app/agent/graph.py`) | `AgentState` of a run | resolve scope, plan, policy gate, one of eleven routes, compose | tool registry, LLM |
| plan policy (`app/agent/planning_policy.py` and helpers) | none | admit, reject or route a plan | graph |
| planner, calculation tools, live analytics (`app/agent`) | none | from a question to a plan, from rows to figures | graph, SmartRest database |
| LLM client (`app/agent/llm/client.py`) | a retry counter | one call with retries | OpenAI |
| wording, lexicon, schema, configuration | none that changes | | |

What is hard in it: the sync pipelines run as separate processes with nothing
that stops two of them from overlapping, over a source that keeps changing, with
one commit per batch and a cursor that decides what is never read again; requests
run side by side and record themselves in a database that may fail at either
end; the graph goes through nodes that may fail and still reach the node that
writes the answer; the policy must be asked before any retrieval.

What makes each component correct:

* **sync**: a row that appeared in key order is replicated (of `translate`, its
  phrase is) or has an error, once the cursor has passed it; "success" means caught
  up in the same sense; a run ends; parents come before children; running it again
  repairs what a crash interrupted.
* **resolver, admin, subscription, authentication**: an answer belongs to the
  profile it was asked about, and refusals come in one fixed order.
* **runtime and persistence**: a run and its message are recorded together and
  at most once; an answer without a persistence warning is recorded.
* **graph and policy**: no retrieval that the policy has not admitted; every path
  ends in a final status; a failure is not reported as an answer.
* **tools**: figures agree with a reference definition, and every degenerate
  input has its warning.

The hazards behind these are listed, each at its line, in `PROJECT.json`.

## 2. Plan

1. `SyncLedger`, `TableOrders`, `FkOrder`, `MappedTableSync`, `IdentitySync`:
   the sync pipelines.  *Done, see below.*
2. `AgentRuntime`: requests that interleave, with the persistence of
   `start_run`/`finish_run`, lost acknowledgements and crashes; an abstract
   `ConversationLog` (each question recorded at most once) that it implements.
   *Done, see below.*
3. `MetricRegistry` and `PlanPolicy` (the decision of `evaluate_plan_policy` and
   `evaluate_business_query_policy` as operators) and `AgentGraph`, which
   EXTENDS it: every node as an action, the tools and the LLM as choices; an
   abstract `GroundedRun` that it implements.  *Done, see below.*
4. `LlmRetry`, one call of the model, and `AgentRun`, its place in `AgentGraph`.
   *Done, see below.*
5. `CanonicalStore`, what `IdentitySync` promises to its readers;
   `CanonicalIdentity` over it, and `Admission` (authentication, subscription,
   admin target, scope, error mapping), which composes them.  *Done, see below.*
6. `OrderFigures` and `LiveFigures`: what is read and computed for a question.
   *Done, see below.*
7. The proofs, module by module (section 6).  *Done, see below.*
8. Left: the creation of source systems; the receipt summary; the measures that each
   step of a run lowers, which are what its end rests on (section 6).

Twelve runs are as many as this project keeps: a later component that needs
a run of its own joins an instance that is there, as the calls of the model have
joined the run `graph`.

## 3. Modules

| module | models |
|---|---|
| `SyncLedger` | the abstract promise of both pipelines: one entry adds replicated and reported items of one stream and sets its mark, leaving nothing unaccounted for at or below it |
| `TableOrders` | what `_order_mappings_by_fk` answers: which selections can be ordered, and which orders may come out |
| `FkOrder` | how it gets there: edges, in-degrees, the queue, the leftovers of cycles |
| `MappedTableSync` | runs of the mapped-table sync over a changing source |
| `IdentitySync` | runs of the identity sync, of one or several source systems |
| `ConversationLog` | the abstract promise to a client: what is on record, and what a reply says of it |
| `AgentRuntime` | requests to the agent, from `start_run` to the reply |
| `GroundedRun` | the abstract promise of a run of the graph: what it reads, and how it may end |
| `MetricRegistry` | metrics and dimensions, what may be combined, what the live service serves |
| `PlanPolicy` | the policy gate, as a function of plan, scope, request and settings |
| `AgentGraph` | one run of the agent graph, a node per action |
| `LlmRetry` | one call of `generate_text`: attempts, errors, pauses |
| `AgentRun` | `AgentGraph` with the calls of `LlmRetry` that its nodes wait for |
| `CanonicalStore` | the abstract promise of the identity sync to those who read its tables |
| `CanonicalIdentity` | the lookups of the resolver, as operators |
| `Admission` | one request from the route to the start of the run, while its database changes |
| `OrderFigures` | what a statement answers over a set of orders, and what the tools compute from it |
| `LiveFigures` | one question, statement by statement, while a sync writes orders |
| `..._proofs` | the theorems of section 6 |
| `MC...` | constants for TLC |

### 3.1 MappedTableSync

A **row** is an identity with a key (the source primary key), a table and the
rows its foreign keys refer to.  Its content carries a version and a *kind*, the
only thing about its data that the code's control flow can tell apart: accepted,
a boolean PostgreSQL refuses (22P02), refused for another reason, raising in
`_normalize_payload_for_target`, or with a key that `_safe_int` cannot parse.

A **run** goes through `StartRun`, `OpenSource` (or `OrderFails`), and for each
table `SkipTable` or `BeginTable`, then batches: `FetchBatch` (or `FetchPoison`),
`UpsertBatch` or `FallBack` with `UpsertRow`, `SkipRow` and `RejectRow` in key
order, `CommitBatch`; `EndTable` when the query returns nothing; at last
`Finish` or `Abort`.  Everything between two commits is in `written`, `failed`
and `cursor` and reaches `target`, `errors` and `position` only in
`CommitBatch`.  `snapshot` is the source as the run's MySQL transaction reads it:
SQLAlchemy begins a transaction with the first SELECT and the run never ends it,
so under MySQL's default REPEATABLE READ every batch comes from one snapshot.

Failures: `Die` may strike a run between any two steps and takes its
transaction along; `SourceLost` makes a source query raise; `FallBack` and
`RejectRow` are always possible, since a statement may also fail for a passing
reason.  `Overlap` says whether a second run may start while one is going.  A
statement that needs a row, or a phrase, which another open transaction has
written waits for it (`Waits`); that a wait ends in a deadlock or a timeout is one of
the passing reasons.

**The table `translate`** is upserted `ON CONFLICT` on its column `string`, not on the
primary key (`_upsert_conflict_columns`), because the source has several ids for one
phrase.  `Slots` is the target row an upsert writes: the row of the same key; in
`translate` the row that holds the phrase, whatever its key, and a row of its own
only when there is none and its key is free (a changed phrase may find it taken,
which is a primary-key violation).  `_upsert_mutable_columns` leaves key and phrase
alone and sets the other columns (`Upserted`).  Two rows of one phrase in a batch make
PostgreSQL refuse the statement (`OnePhraseEach`); one by one they pass.  So all
ids of a phrase but one end up **merged**: no target row has their key, no
`sync_errors` row names them, and the cursor passes them.  The comment at
`mapped_table_sync.py:547` and `tests/test_mapped_table_sync.py:227` say that this is
meant.  The properties therefore speak of rows that are **replicated**: there under
their own key or, in `translate` only, with the phrase some run read them with under
some id (`Replicated`, `Merged`).  Nothing refers to `translate` (an assumption of the
module, and true of the schema), so that a merged id is nobody's missing parent.

`late` is a history variable: a row that appears with a smaller key than one
already there (a transaction that commits late) may lie below a cursor for ever.
The code does lose it; `CoverageInv`, `SuccessIsComplete`, `SkipsExplained` and the
ledger say exactly that by leaving it out.

### 3.2 FkOrder and TableOrders

`MappedTableSync` takes the table order from `TableOrders`, in one step, since
it is computed before anything is read.  `FkOrder` is the algorithm itself, with
the iteration order of dicts and sets left open; its run `orders` shows on every
small schema that it ends with an order of `TableOrders!Orders`, or raises,
exactly on the selections that are not `Orderable`; for finite schemas of any size
that is proved (section 6).

### 3.3 IdentitySync

Differs from the other pipeline where the code does: a failing row keeps the
cursor, which a later row of the same batch may then move past it; there is no
batch statement; users follow profiles; the cursor loop has no other exit than
an empty query.  `nick` stands for `canonical_profiles` and its source map
(written under one savepoint), `seats` for `canonical_users` and theirs.  A user
that moves to another profile gets a second seat and keeps the first.

`profile_nick` is unique over all source systems.  A run that asks for a nick
another run has in an open transaction waits (`WaitsFor`), and PostgreSQL ends a
cycle of waiting runs by failing one statement (`BreakDeadlock`), which the row's
savepoint turns into a sync error.  `int(row["profile_id"])` on a NULL raises
outside the row's `try` (`RaiseRow`), and `Abort` then commits the rows and errors
of the unfinished batch, without a cursor.

### 3.4 AgentRuntime

A **request** goes through `start_run` (`LookUpChat` or `RefuseNick`,
`InsertChat`, `ChatTaken` or `UseChat`, `CreateRun` or `ChatGone`,
`CommitStart`), `RunGraph`, `finish_run` (`UpdateRun`, `MissContext` or
`RunGone`, `WriteMessage` or `RefuseQuestion`, `CommitFinish`) and `Reply`.
Until a commit what it writes is in `newChat`, `draftRun` and `draftMessage`;
`Publish` moves that to `chats`, `runs` and `messages`, `Rollback` drops it.
Every way to give up leaves through `StartWithout` or `FinishWithout`, with the
warning the code adds.  `RunGraph` is one step that ends with any status a run
may end with, or with an exception, which `_run_internal` records as failed and
raises again.

`session.get` and the insert that follows are separate steps: a request of
another process may commit the same chat in between.  While it has not
committed, the second insert waits for its unique key (`Waits`).  Requests of
one process do not interleave: the handlers of `app/api/routes/agent.py` are
coroutines without an `await`, so the event loop runs each of them to its end.

Failures: with `Outages`, any statement or commit may fail, and a commit may
take effect although its acknowledgement does not arrive (`CommitStart` and
`CommitFinish` with `seen` FALSE); `Die` ends a process's request at any step;
with `Deletions`, a chat may go with its runs and messages.  Nothing in the
repository deletes chats; the schema declares `ON DELETE CASCADE` and the code
handles a run that is not there, so the model lets it happen.

### 3.5 AgentGraph, PlanPolicy and MetricRegistry

`AgentGraph` has an action for each node of `app/agent/graph.py`, and `pc` is the
node that runs next: `ResolveScope` (or `MissScopeRequest`, which lets the run
go on), the planners, `PolicyGate`, `RouteDecision`, one of eleven routes, and a
node that answers.  The variables are the fields of `AgentState` that a node or a
property reads.  `calls` collects what was asked of the reports and of the live
service, with the branch filter that went along, and `used` the other tools.

The planner is a choice among the plans it can come to: `PlanTasks` for several
reports in one question, `Preplanned` for small talk and the business queries,
`ReadByRules` for the rest, `RulesRaise` for dates that are none or run backwards
(the rules are tried before any model, outside every `try`), and `ModelPlans` for whatever a language model may
answer that the schema accepts.  `PlanFallback` may follow any error, and has no
other choice without a key.  A node of the live service may fail with the
database, with a quotient that has no denominator, or with nothing to rank.

`PlanPolicy!Decide` is `_policy_gate_node`, check by check in the order of the
code; the first objection names the reason.  The registry of metrics and what
`live_capabilities.py` and `services/live_analytics.py` say of them are kept
apart, as they are in the code: `LiveObjection` is what the policy believes the
service can do, `Unserved` what the service refuses.

Left out: figures and texts, the execution trace, the warnings of tools and
calculations; the span of a date range but for "wide"; the clarification
question but for its presence.  `resolve_scope_tool` allows every report or none,
and `Scopes` says so.  The early returns of nodes whose context is missing have
no action, except the one of `run_comparison`, which a model's plan can reach;
the theorem `Context` shows that no run gets to the others.

What the properties leave room for, because the code does:

* For a list of tasks `_policy_gate_node` (`graph.py:228-270`) asks for a granted
  scope and looks at the report of each task, and at nothing else.  The metrics a
  report tells, the branches of the request and its export go unasked: a metric
  that is refused as `metric_not_allowed` when asked alone is read as a report of a
  compound question.  `WithinGrant` speaks of the metric, the dimension, the
  branches and the export for plans and business queries, of a report's as of a
  retrieval's, and of a list of tasks only for its reports.
* The policy asks for `compute_scalar_metrics` in comparisons only, while totals
  and reports compute too (`WithinGrant` leaves it out).
* A scope may name a branch without a number.  `_scoped_branch_ids` drops it, and
  a user with no other would read every branch: `WithinBranches` speaks of
  numbered branches.
* The previous period of a comparison is checked against the user's metrics but
  not against what the live service serves (`ServedOrPrevious`), nor is its span
  against the limit.
* A business plan of a model runs whatever its intent says.
* A question of a user who is denied is still planned, by a model too, before
  the gate turns it away.

### 3.6 LlmRetry and AgentRun

`LlmRetry` is the loop of `generate_text`: `Respond` is a response with a text or
without one, `FailAttempt` an exception of the SDK, which `Normalized` turns into
a category and `GivesUp` judges.  `held` adds up what the process may have spent
in the call: the route handlers are coroutines that never await, so a pause of
the loop is a pause of the whole process.

`AgentGraph` leaves open whether the model answers.  `AgentRun` EXTENDS it and
`LlmRetry`: a node that asks the model starts a call (`AskModel`), waits
(`AwaitModel`) and takes the step of the graph that the outcome allows
(`TakeAnswer`).  `unanswered`, a history variable, remembers whose call failed,
so that `FailuresTold` can compare it with the warnings of the reply.

### 3.7 CanonicalStore, CanonicalIdentity and Admission

`CanonicalStore` has one action, `Commit`: any change of the canonical tables
that keeps nicks unique, seats under mapped profiles of the same system, and what
is mapped mapped.  The run `meet` shows that `IdentitySync` implements it, with
deadlocks, savepoints and aborted batches; `Admission` lets it happen between any
two reads of a request.

`Admission` has the three routes.  `Receive` is the validation of the body and
the verification of the token; a run then goes through `ReadSubscription` and
`DecideSubscription` (the row is read in a session that is closed before the
clock is looked at) to `ScopeProfile` and `ScopeUser`; an admin first through
`TargetFound`, `ReadCandidates` and, for each candidate, `TryProfile` and then
`TryNext` or `TargetResolved`; a listing through `ListUsers` and `ListMaps`.  Each
lookup is one step for the profile and one for the user, since every statement
sees what is committed when it runs.  Between them `Tick`, `MapIdentities`,
`WriteProfile` and `WriteUser` may happen.  `live`, `own` and `stayed` are
histories: whether the subscription was live at some moment of the request, which
users had a seat of their own when it came, and which were not deleted since.

What the properties leave room for, because the code does: a user without a seat
of its own may be taken for one of another profile, over a nick of any system or
over the legacy profile of the same number; a subscription that ends while a
request is on its way does not stop it; a listing names a default user from the
maps who may be deleted, and whom `resolve_target` would then refuse.  A denied
scope is an answer of code 200 with status "denied"; the 403 of the routes is for
subscriptions only.

### 3.8 OrderFigures and LiveFigures

An **order** is a row with the columns the statements read, each nullable column
the set of its value; figures are fractions, told as hundredths.  `Statement` is
the statement of a total, a breakdown or a series; `ReportRows`, `ItemPerformance`
and `CustomerSummary` are the other services.  `Operands`, `Merged`, `Cell` and
`Formula` lead from the rows of several statements to the metric; `Share`,
`Ranked`, `Days`, `MovingAverage`, `Slope` and `Computed` are the tools.  `Ranked`
sorts by the direction of a ranking, as `sort_items_tool` does; its mode only
chooses the tool.  A question carries the calculations of its plan, each a formula
of two named figures; `Computed` evaluates them over the figures that the node
hands on (`TotalMetrics`, `ComparisonMetrics`), and what is not among them is a
missing operand.  The rules plan a rate a day for a total and two changes for a
comparison; a model's plan usually has none, and may name others.

`LiveFigures` reads a question: `Execute` runs the next statement, `SyncWrite`
inserts or updates an order between two of them, and a `Tell...` action for each
kind of question, or `FailQuotient`, `FailDay`, `FailRanking` or `FailReport`, ends
it.  `moved`
is a history variable: an order that was there has gone to another bucket or in
or out of the period.

What the properties leave room for, because the code does:

* `discount_share` divides by the sales, which orders given away do not have.
* An order without a delivery mark is `in_store` as a bucket and neither source
  as a filter.  No planner sets such a filter, though the services accept one; of
  the reports only the one by source takes it, the others raise
  (`reports/smartrest_backend.py:33`, here `FailReport`).
* A model that asks for `top_k` with direction `asc` gets the lowest buckets, told
  as the top (`agent/tools/ranking.py:14`, `schemas/analysis.py:100`): a ranking
  is whole by its direction, and nothing holds the mode against it.
* A plan without calculations has none evaluated, though it be a comparison
  (`agent/graph.py:669`).
* A report ignores the branches of a request; README.md:619 of the repository
  offers them "to restrict a request".
* The latest moving average is the last one that is not zero
  (`agent/graph.py:940`).
* Leaving out items by name leaves out those without a name in some language.
* A breakdown by category counts the sales of an order only if some line of it
  has a price.

## 4. Runs

Bounds of the sync runs: rows are three, in two tables (or two streams) with a reference between
them, which is the smallest instance where a batch has an inside and a next
batch, a child may precede its parent, and a row may appear below another; batches
hold one or two rows; runs are two, enough for one to overlap, follow or repair
another.  A row has at most two versions, so that an older one may come back.
`translate` has two ids, with the same phrase, different ones or one that changes: two
are enough to be merged, to be refused in one batch, to wait for each other, and
for one to find its key taken.  The only counters are keys, versions and batches,
all bounded by these constants.

Nothing refers to `translate`, so its rows and those of the other tables are looked
at apart, which keeps the instances small.  `overlap` gives both runs one command
line, `translate` alone or all tables but it, and has only rows of the tables selected
(`SameTables`); `sequential` lets every command line meet either kind of rows, not
both in one behaviour (`Separately`).  Both constraints restrict what the source
holds and which command lines meet, never what a run does with them; the
theorems of section 6 have neither.

Bounds of the runtime runs: two requests for one chat, which may be new or not,
from every mix of inputs, on one process or two: the smallest instance in which
a chat is inserted twice, one request waits for another, or a chat goes while a
request uses it.  `replies` leaves out outages, which only add
ways to give up; deaths stay, with the lock they leave behind.
`SYMMETRY` over requests and processes is used for safety only.

Bounds of the run `graph`: four metrics (two that the live service serves in
every dimension they are registered for, one that it does not serve by category, one
not at all), three dimensions, two numbered branches and a name without a number,
six requests, six scopes (open, denied, narrow in metrics, in tools, in
branches), four settings (each mode, with and without a key and a fallback, a
budget that trends exceed) and some 650 plans of a model: every combination of
intent, retrieval mode, metric, dimension, date range, ranking and previous
metric that the schema accepts.  Every reason of the policy is met but four that
no run meets at all: `missing_plan` and `missing_retrieval`, which the schemas rule
out, `live_metric_not_supported`, which another check always precedes, and
`report_not_allowed`, since a granted scope allows every report.  A run of the graph is at most eight steps long and
keeps nothing from one run to the next, so that one run is enough.  A call of the
model has two attempts, one exception worth another try and one that is not, and
a first pause that the bound cuts, so that its three ends and the bound all occur;
the theorems of section 6 have no such bounds.

Bounds of `admission`: one profile with two users, a second profile whose
canonical id is the first one's id at the source, three source systems of which
one has no row, seven requests of all kinds, three rows of the profile, two moments
of time and a time window of one moment, with tokens one moment off on either
side.  Fewer systems or profiles could not confuse two number spaces.

Bounds of `figures`: up to three orders of six kinds that differ wherever a
statement looks (day, branch, delivery mark, totals, discount, lines, payments,
profile), two writes while a question is read, and some forty questions that
cover every kind, dimension and formula, rankings in both directions,
plans without calculations and plans whose operands are missing.  Two statements and two writes are what it takes to
tear a quotient apart; a comparison has four.  `SYMMETRY` over orders is used, for
safety only.

`CHECK_DEADLOCK FALSE` everywhere: all runs and requests may be over.

| run | question | outcome |
|---|---|---|
| `overlap` | can overlapping runs, deaths and rows of every kind, or ids of one phrase, make the cursor cover a row in key order that is neither replicated (in `translate`: it, or its phrase) nor in `sync_errors` (`CoverageInv`), make "success" mean less than caught up (`SuccessIsComplete`), drop a child for a parent that was merely copied in the wrong order (`SkipsExplained`), or lose a target row or change a row's phrase (`NoRegression`)? | no |
| `sequential` | runs one at a time, with step runs, exclusions and batch limits: can a cursor go back, or a row outside `translate` (`NoRegression`), is each commit an entry of the ledger (`ImplementsLedger`), does every run end (`RunsEnd`)? | never back; yes; yes, with `FairSpec` |
| `orders` | is the table order right on every schema, and does its computation end? | yes |
| `selections` | can every selection of tables be ordered? | no: finding 1 |
| `streams` | identity runs that may overlap: is success complete, is a missing profile a profile that failed, is a stored cursor a row that was mapped, is each commit an entry of `SyncLedger`? | yes |
| `meet` | do runs of two systems that want each other's nicks end, if none of their rows fails (`CleanRunsEnd`); and do they keep what the readers of the canonical tables rely on (`ImplementsStore`)? | yes, with `FairSpec`; yes |
| `completes` | does every identity run end? | no: finding 2 |
| `records` | are a run and its message stored together (`RecordedWhole`), is an answer without a warning on record (`CleanAnswerIsRecorded`), are the warnings true (`WarningsTell`); is a request put on record at most once, never after its reply, and never changed (`ImplementsLog`)? | yes |
| `replies` | do requests that wait for each other's chat come to their reply; and is a healthy database ever called unavailable (`UnavailableMeansMeeting`)? | yes, with `FairSpec`; only when two processes meet on a new chat |
| `graph` | is anything read for a plan that the user's scope or branches do not allow, or for a list of tasks a report that it does not (`WithinGrant`, `WithinBranches`), or asked that the service cannot serve (`ServedOrPrevious`); can a run end in a state its schema refuses (`StateIsValid`), with a warning lost (`ToldInFull`) or a silent failure of the model (`FailuresTold`); is a call of the model given up too early or too late (`GivesUpForCause`) or held too long (`HeldBriefly`); does a run read for entitled users only and complete exactly when it has read (`ImplementsGrounded`)? | no; yes |
| `admission` | can a request be let in on a token out of its time or on a subscription that never was live (`AdmittedInTime`), a mapped user be taken for another (`MappedIsOwn`), or an admin's search end in vain without cause (`AdminRefusedForCause`), whatever is written meanwhile? | no |
| `figures` | can orders that arrive between the statements of a quotient leave it without a divisor (`QuotientsServed`); do the services agree on the same orders (`FiguresAgree`); does a series, a ranking, a share or a planned calculation leave something out or tell it wrong (`AnswersWhole`)? | only orders that move, or are given away; yes; no |

`SuccessIsComplete` speaks of runs without a batch limit, of tables the sync can
copy, and lets rows go that an *earlier* run recorded: a skipped row is below
the cursor and a later run, which never reads it, rightly counts no error.
`SkipsExplained` speaks of runs that copied the parents' tables in full and of
parents the run's own snapshot had.  The first part of `NoRegression` is about runs one
at a time: with overlapping runs the code does let a cursor and a row go back, which
costs a second copy and, until the next one, an older row.  It leaves out
`translate`, where a row takes the columns of one id after the other, in key
order, whichever of them changed last.  The second part holds of any runs: no target row is lost,
and a row of `translate` keeps its phrase, so that a phrase once replicated stays.
All of them leave out rows that appeared late, but `NoRegression`, which speaks of the
target only.

**Fairness.**  `FairSpec` gives each run weak fairness of `Step`: a started run
is a plain loop in one process, and its next step stays possible until taken.
`Step` leaves out `StartRun`, deaths, source losses and, in `IdentitySync`,
passing errors: nothing has to start or to fail.  A run waiting for a lock has no
`TakeRow`; it goes on because the run it waits for is a plain loop too, or by
`BreakDeadlock`, which PostgreSQL guarantees.  In `AgentRuntime` a request that
has been taken up is straight-line code, and a request that waits for a key goes
on when the other transaction ends; that a request is taken up at all is not
assumed, and the graph is assumed to return: its loops are bounded and its calls
have time limits.

`UnavailableMeansMeeting` is the exact form of "chat analytics DB unreachable or
failed" (`README.md:834` of the repository): when the first questions of a new
chat meet in two processes, the second insert fails on the key, and that reply
carries `persistence_unavailable` from a database that is well.
`CleanAnswerIsRecorded`
has no counterpart for warned answers: after a lost acknowledgement the record
exists although the reply says otherwise.

## 5. Findings

1. `selections`: `app/sync/mapped_table_sync.py:281` raises a `KeyError` when a
   table that is not selected refers to a selected one and is itself reflected
   because a selected table refers to it; `--exclude-table` promises any
   exclusion (`app/sync/mapped_runner.py:47`).  The run ends as "failed" before
   it reads anything.
2. `completes`: in `app/sync/identity_sync.py:250` rows that fail at the end of a
   stream are read and refused for ever; the run never ends, each turn adds
   `sync_errors` rows, and `README.md:538` expects the sync to complete.

Noted while modelling, without a run of their own: a step run of a child table
(`README.md:530` of the repository recommends step mode for "recovering from a
table-specific sync problem") moves the cursor past rows whose parents are
missing, and later full runs succeed without them; and what sections 3.5, 3.7 and
3.8 list as room that the properties leave.

## 6. Proofs

`MappedTableSync_proofs` proves, for every value of the constants allowed by
the assumptions of the module (finite tables and rows, positive keys unique in a
table, references to parent tables only and none to `translate`, a positive batch size):

* `TypeCorrect`: `Spec => []TypeOK`;
* `CoverageInvariant`: `Spec => []CoverageInv`;
* `CursorNeverOutrunsData`: `Spec => []Coverage`.

`Coverage` speaks of the database only, so it says nothing while a batch is in
flight and is not inductive.  `CoverageInv` adds, for each run, what it needs:
rows that appear in order after the run's snapshot have larger keys than
anything it reads (`SnapshotPrefix`); everything at or below its local cursor is
accounted for by the database together with its open transaction
(`ReadCovers`); between that cursor and any row of the batch still to be dealt
with there are only such rows or accounted ones (`BatchCovers`); and every
cursor is 0 or the key of a source row, which is what keeps a row that appears
in order above all of them.  For `translate` it says that no two open transactions
have written one row (`Apart`) and that a transaction puts no phrase over another
(`WritesKeep`): the phrases of the target stay (`Keeps`), and what is replicated by
its phrase remains so (`ReplicaStays`), in the database and in every open transaction.
Each action has its lemma; a step of one run leaves the conjuncts of the others
alone because the database only ever gains rows, phrases and errors (`OtherRun`).
`Coverage`, in all of this, accounts for a row by itself, by its phrase, or by an
error, and promises nothing of late rows.

It goes on from there to what the outcome of a run means, with an invariant for each
step of the argument:

* `LedgerKept`: `Spec => ImplementsLedger`.  `EntersInv`: the errors an open transaction has
  recorded belong to the run's current table and was read in its
  snapshot; with `ReadCovers`, each commit is an entry of `SyncLedger`, and so are
  the errors a failed run leaves behind, and the opening of a snapshot, which may
  show ids of phrases that the target has (`OpenEnters`).
* `SuccessMeansCaughtUp`: `Spec => []SuccessIsComplete`.  `PlannedInv`: a selected
  table is still to come, or was left copied or after an error of this run, and a
  run with an error does not say "success".  A batch is empty only when no row is left
  above the cursor (`NothingUnread`, a least key exists).
* `SkipsHaveReasons`: `Spec => []SkipsExplained`.  `PlacedInv`: the tables still to come
  never hold a parent of one that was taken, outside cycles; `SkipsInv`: therefore
  an error that names a missing parent is explained when it is recorded, and stays so.
* `NothingGoesBack`: `Spec => NoRegression`.  `OwnInv`: outside `translate` a run writes
  each row with its own content; `AloneInv`: when runs do not overlap, what
  the one that goes on read is not older than the target, and its cursor is not
  below the stored one.

`FkOrder_proofs` proves, for any finite set of tables and of constraints, whatever
order dicts and sets are iterated in:

* `TypeCorrect`: `Spec => []TypeOK`, so that no in-degree becomes negative;
* `OrderCorrect`: `Spec => []Correct`, on which `MappedTableSync` and its proofs rest
  when they take the order from `TableOrders`.

`EdgesOK`: an edge is a foreign key between two different selected tables, once all
constraints are read every such key is one, and only a selection that is not `Orderable`
raises.  `QueueOK`: the in-degree of a table is the number of its parents not yet
ordered (a table with two constraints to one parent is counted once), ordered and
queued tables are those of in-degree 0, each once; and the queue takes no table of
a set in which each has a parent in the set (`Loop`).  When the queue is empty
what is left is such a set itself, hence all of `Stuck`.

`IdentitySync_proofs` proves, for any source systems, profiles, users, nicks, contents
and runs, with or without passing errors of the database:

* `TypeCorrect`; the invariant behind it also says that the rows of a batch are of the
  run's snapshot and stream;
* `CursorsAreMapped`: `Spec => []CursorIsMapped`, and `LedgerKept`: `Spec =>
  ImplementsLedger`.  `ReadsInv` says what a run has read and drafted, and that outside a
  batch nothing is drafted; `MarksInv` where its cursor stands: at a row it knows to be
  mapped, everything below dealt with, and between the cursor and a row of the batch
  only rows of the batch or rows dealt with.  A failed row does not move the
  cursor, but the next one that succeeds does, over it: it is dealt with
  since it is reported.
* `SuccessMeansCaughtUp`: `Spec => []SuccessIsComplete`, and `OrphansHaveReasons`: `Spec
  => []OrphansExplained`.  `OutcomeInv`: when the users begin, the profiles of the
  snapshot are mapped or reported (`Profiled`).
* `StoreKept`: `Spec => ImplementsStore`.  `NicksInv`: the nicks as each run sees
  them, with its own open changes, are unique, and the open changes of two runs
  ask for different nicks; a run that wants a nick or a row of another's open
  change waits (`WaitsFor`), which is what keeps that true, and with it a commit
  of either makes no nick double for the other.

`AgentRuntime_proofs` proves, for any number of requests, chats and processes and
whatever may fail:

* `TypeCorrect`, `RecordsWhole`, `CleanAnswers` and `TrueWarnings`: the four
  invariants of the run `records`;
* `UnavailableAmongMany`: `Spec => []UnavailableMeansMeeting`;
* `Refinement`: `Spec => ImplementsLog`, so that the model keeps the promise of
  `ConversationLog`.

The four invariants are about what is stored and what a reply says; a step such as
`CommitFinish` preserves them only because of what the open transaction holds.
`Drafted` says that, step by step (what `CommitFinish` publishes is the status
and the message of one outcome, and the run it updates still exists), and
`Staged` says what is on record at each step and how the locals of the request
know of it (a request has its context, or a warning that says why not; it is not
on record before its last commit).  Both, with the invariants themselves, speak
of one request and of `chats`, which other requests only add to: `OneRequest`
turns a step's lemma about its own request into one about all.  Deleting a chat
is the exception and is shown on its own: it waits for open transactions, so it
takes no row that one of them is about to publish.  The refinement then needs one
lemma per kind of step: silent, `Record`, `Reply`, `Forget`.
`UnavailableMeansMeeting` is about a healthy database, and `MeetInv` says what keeps it
so: a request with a context has its run and is not called unavailable, a chat that was
found stays, and a chat that is there when a request inserts its own, having found none,
came with a request of another process that got its context.

`AgentRun_proofs` proves of the graph, for any requests, scopes, settings and plans of a
model that the schema accepts, any metrics and dimensions the rules recognise and
any branches (whose ids are told apart from other names and from `*`):

* `PolicySound`: whatever `Decide` answers, the scope has been asked for what the
  route goes on to read (`Cleared`), route by route: for a plan its metrics,
  dimension, branches, export and report or operations, for a list of tasks its
  reports only;
* `TypeCorrect`, `Grant`, `Branches` and `AllServed`: invariants of the run
  `graph`; and `Context`: no node is reached without what it needs;
* `Refinement`: `Spec => ImplementsGrounded`.

`WithinGrant` is not inductive: a node reads what the plan names, and only the
decision taken two steps earlier says that the scope allows it.  `Inv` therefore
carries `Cleared` from the gate to the node (`RouteInv`), together with the fact
that no node before the gate reads (`CallInv`), that a scope is granted only on
request (`ScopeInv`) and that a list of tasks has a report (`PlanInv`).  For the
nodes, `Ran` says what they have in common: each asks for calls that are allowed
and either has a summary or breaks.  One lemma per node proves `Ran`, and the
invariant and the refinement both follow from it.  `AllServed` compares the two
descriptions of the live service, for every metric of the registry (`Served`).

It proves of a call, for any policy in whole units and any exceptions,
`CallTypeCorrect`, `CallHeldBriefly` and `CallGivesUpForCause`.  The time a call is
held is bounded by induction over its attempts: each adds one call and one pause,
and a pause never exceeds the longest one because the bound is applied before the
jitter and the jitter grows with what it is applied to.

Then it proves that a run with its calls implements both of its parts,
`RunImplementsGraph` and `RunImplementsCall`.  Every step of a run is a step of the
graph, or leaves the graph alone; and a step of the call, or leaves the call alone.
What was proved of `AgentGraph` and of `LlmRetry` therefore holds of `AgentRun`:
`RunGrant`, `RunHeldBriefly` and `RunGivesUpForCause` follow by temporal logic.

The same module proves `StateValid`, `AllTold` and `RunFailuresTold`.  All three are about a finished run and need to know what its nodes carried there: `StateInv`, that
a plan that asks has a question and that no node but the last decides to ask; `ToldInv`,
that the list of warnings, which each node returns anew, holds what the scope and the
planner put in from then on, and that a route that declines came with a reason
(`DeclinedForReason`, for every decision of the policy); `FailureInv`, that the
planner's failed call is in the warnings as soon as there is a plan, and that a call
that waits belongs to the node that runs.

`Admission_proofs` proves, for any source systems, profiles, seats, users and rows, and
whatever is written between two reads, `AdmissionTyped`, `InTime`, `TakenForItself`
and `SearchedToTheEnd`.  Each has its invariant.  `TimeInv`: once verified, the token
is in its window, and a row that was read and found live was so at a moment of the
request, which the clock, that only goes on, cannot undo.  `MapInv`: a user who had a
seat of its own when the request came has it still, because the sync maps and never
unmaps (`CanonicalStore`); therefore the lookup by the configured system's id finds that
profile and no other before a nick or a legacy number is tried.  `SearchInv`: every
wanted user with a seat who stayed is among the candidates that are left, or the search
has not read them yet.  That the candidates are tried in order is a choice of the least of a
set of numbers, which exists since the order is well-founded (`CandidateIsLeft`).

`OrderFigures_proofs` and `LiveFigures_proofs` prove, for any orders, profile, branches,
source, period and question, and any number of rows that a sync writes meanwhile:

* `LiveTypes`: `Spec => []TypeOK`.  What has been read are the rows its statements
  promise (`ReadOK`): a figure for every bucket something falls into and for no other,
  whole numbers but for the sales of categories, days of the period when there is one.
* `QuotientsAlwaysServed`: `Spec => []QuotientsServed`.  `Fed`: as long as no order has
  moved, what is to be divided has orders behind it in its bucket (`Backed`), and what
  it is divided by, read later, counts them (`Covered`).  That a sync only adds orders
  to a bucket, unless one moves, keeps the first until the second is read.
* `FiguresAlwaysAgree`: `Spec => []FiguresAgree`.  It needs no history, only what the
  operators answer.  `SumOfBreakdown`: a sum over the orders is one over the buckets of
  those over each bucket (`SumFibers`).  `CategorySales`: the shares of the lines are
  fractions with a denominator for each order; over a common multiple of these
  denominators, which a finite set has (`CommonMultiple`), they are integers, and
  those of one order add up to its sales.
* `AnswersAlwaysWhole`: `Spec => []AnswersWhole`.  `SeriesWhole`: the days in order are
  those of the period, each once.  `RankedBest`: the first `k` of an order are no
  worse than the others, by the direction of the ranking.  `CalculationsTold`: a value is
  missing exactly when there is a warning, and otherwise the quotient of the told figures
  to the nearest hundredth (`QuantizedNear`).  `SlopeOfRising`: Chebyshev's inequality, by induction
  along the series.  `SharesOfWhole`: each share is rounded by at most half a
  hundredth.

Both modules rest on facts the library does not have for sums.  `SumFunction` is a fold
by a choice of elements; `FoldExists` shows that a fold over a finite set is a function on its
subsets, so that `SumSplit` (any element may be taken first), `SumUnion`, `SumFibers` and
`SumPairs` follow, and `SumOfFractions` for the fractions of `SumOf`.  Induction is by
a least counterexample in a set of subsets (`SetsFrom`), which needs no theorem with an
operator for a parameter; and a finite set has a sequence in any order
(`OrderExists`), so that `InOrder` chooses one that exists.

The assumptions are `OrdersAssumption` (finitely many order ids; rows with the columns the
schema gives them, each nullable column with at most one value, at most finitely many
lines and payments) and `QuestionsAssumption` (what schemas, registry and capabilities let
through).  Amounts are integers, which may be negative.

Only model-checked: liveness (`RunsEnd`, `CleanRunsEnd`, `Ends`, `RepliesCome`), since
the prover has no fairness.  Every invariant and action property of a passing run has
its theorem.

## 7. Not modelled

The SQL and value conversions of the sync beyond the kinds of a row; the
creation of `source_systems` rows (a check-then-insert without a unique
constraint on `(server_name, cloud_num)`, so that two first runs may both insert);
`run_id`s, counters and timestamps of `sync_runs`; the receipt summary of the
business tools; the formulas that nothing selects (section 3.8); the lexicon by
which the planner reads a question, and what `AgentGraph` leaves out (section
3.5); the list of profiles that an admin is shown, but for the default user of
one; wording, schema, configuration and logging for good, since they hold no
state and their correctness is that of text.

------------------------------- MODULE Admission -------------------------------
(***************************************************************************)
(* A request on its way to the agent: the routes of app/api/routes/agent.py*)
(* with the verification of the signature (app/core/auth.py), the          *)
(* subscription check, the platform admin's target and the scope of the    *)
(* run (resolve_scope_tool of app/agent/report_tools.py).                  *)
(*                                                                         *)
(* A handler does one thing after the other and reads the database anew    *)
(* each time: the sync jobs commit, operators edit a subscription and time *)
(* passes between any two of its reads.  All requests name one profile id; *)
(* the profiles of other ids are met through the canonical tables only.    *)
(***************************************************************************)
EXTENDS CanonicalIdentity

CONSTANTS
  SourceSystem, Known, Configured, \* systems, those with a row, and the one of the settings
  Nick, Target,             \* the profile id that requests name
  UserId,                   \* the user ids
  Requests,                 \* what is asked
  Rows,                     \* what the row of the profile may say
  MaxAge, MaxSkew,          \* auth_token_max_age_seconds, auth_token_max_future_skew_seconds
  MaxTime,                  \* bound: where the clock stops
  Never, NoRow

ASSUME AdmissionAssumption ==
  /\ Configured \in Known /\ Known \subseteq SourceSystem /\ Target \in Nat /\ UserId \subseteq Nat
  /\ MaxAge \in Nat /\ MaxSkew \in Nat /\ MaxTime \in Nat
  /\ Never \notin Nat /\ NoNick \notin Nick
\* A system gives an id to one profile, and so do the canonical tables.
ASSUME IdAssumption ==
  \A p, q \in Profile :
    \/ CanonicalId[p] = CanonicalId[q]
    \/ SystemOf[p] = SystemOf[q] /\ KeyOf[p] = KeyOf[q]
    => p = q

Status == {"active", "expired"} \* one that is allowed and one that is not
Row == [nick : Nick \cup {NoNick}, status : Status, until : {Never} \cup 1 .. MaxTime]
Request ==
  [kind : {"run"}, nick : Nick, user : UserId, system : SourceSystem]
  \cup [kind : {"admin"}, nick : Nick \cup {NoNick}, user : UserId \cup {0},
        system : SourceSystem]
  \cup [kind : {"list"}]
ASSUME InputAssumption == Rows \subseteq Row /\ Requests \subseteq Request

VARIABLES
  now,
  settings,    \* whether there are secrets, and platform_admin_bypass_subscription
  nick, seats, \* the canonical tables, see CanonicalStore
  profile,     \* the replica's row of the profile, or NoRow
  users,       \* the ids of its users that are not deleted
  request,     \* what is asked
  issued, verified, \* when the token was made, and when it was verified
  stage,       \* where the handler is
  row,         \* the row a check has read
  candidates,  \* candidate_user_ids that are left, tried in their order
  canonical,   \* the canonical profile id a resolution has found
  access,      \* user_scope, or the default user of a listing
  answer,      \* the HTTP status
  live,        \* history: the subscription was live at a moment of the request
  own,         \* history: users with a seat of their own all along
  stayed       \* history: users that were not deleted all along

tables  == <<nick, seats, profile, users>>
asked   == <<settings, request, issued, verified>>
found   == <<row, candidates, canonical, access>>
history == <<live, own, stayed>>
vars == <<now, tables, asked, stage, found, answer, history>>

Store == INSTANCE CanonicalStore

Token == {"signed", "forged", "malformed"}

NoRequest == [kind |-> "none"]
NoAccess == [granted |-> FALSE, why |-> "none"]

-----------------------------------------------------------------------------
\* The users whose own seat the maps hold, at the configured system.
Seated(s) == {u \in UserId : MappedUsers(s, Configured, Target, u) # {}}
LiveAt(r, t) == r # NoRow /\ r.status = "active" /\ (r.until = Never \/ r.until > t)

Init ==
  /\ now = 0
  /\ settings \in [secret : BOOLEAN, bypass : BOOLEAN]
  /\ nick \in [Profile -> Nick \cup {NoNick}] /\ seats \in SUBSET Store!Seat
  /\ Store!Consistent(nick, seats)
  /\ profile \in Rows \cup {NoRow}
  /\ users \in IF profile = NoRow THEN {{}} ELSE SUBSET UserId
  /\ request = NoRequest /\ issued = 0 /\ verified = 0
  /\ stage = "idle" /\ row = NoRow /\ candidates = {} /\ canonical = {}
  /\ access = NoAccess /\ answer = 0
  /\ live = FALSE /\ own = {} /\ stayed = {}

\* Others act while a request is handled; what they did before is in Init.
Handling == stage \notin {"idle", "done"}
\* The histories follow what the others do.
Follow ==
  /\ live' = (live \/ LiveAt(profile', now'))
  /\ own' = own /\ stayed' = stayed \cap users'

Tick ==
  /\ Handling /\ now < MaxTime /\ now' = now + 1
  /\ UNCHANGED <<tables, asked, stage, found, answer>> /\ Follow

(* The identity sync commits a batch. *)
MapIdentities ==
  /\ Handling /\ Store!Commit
  /\ UNCHANGED <<now, profile, users, asked, stage, found, answer>> /\ Follow

(* The mapped-table sync or an operator writes the row of the profile. *)
WriteProfile ==
  /\ Handling /\ profile' \in Rows
  /\ UNCHANGED <<now, nick, seats, users, asked, stage, found, answer>> /\ Follow

(* The mapped-table sync adds a user, or marks one deleted. *)
WriteUser ==
  /\ Handling /\ profile # NoRow
  /\ \E u \in UserId : users' = IF u \in users THEN users \ {u} ELSE users \cup {u}
  /\ UNCHANGED <<now, nick, seats, profile, asked, stage, found, answer>> /\ Follow

Goes(s) == stage' = s /\ UNCHANGED <<now, tables, asked, answer, history>>
Answers(code) ==
  /\ stage' = "done" /\ answer' = code
  /\ UNCHANGED <<now, tables, asked, history>>

-----------------------------------------------------------------------------
\* verify_signed_payload and verify_platform_admin_payload; 0 if it is verified.
Refusal(token, made) ==
  CASE token = "malformed"    -> 401
    [] ~ settings.secret      -> 500
    [] now - made > MaxAge    -> 401
    [] made - now > MaxSkew   -> 401
    [] token = "forged"       -> 401
    [] OTHER                  -> 0

\* The first thing a handler does.
FirstStage(kind) ==
  CASE kind = "run" -> "subscription" [] kind = "admin" -> "target" [] kind = "list" -> "list"

(* A request comes: its schema is validated, a payload and a scope request  *)
(* that differ are refused, and its token is verified.                      *)
Receive ==
  /\ stage = "idle"
  /\ \E q \in Requests, token \in Token, made \in (now - MaxAge - 1) .. (now + MaxSkew + 1),
       matching \in BOOLEAN :
       LET refusal == IF ~ matching /\ q.kind = "run" THEN 422 ELSE Refusal(token, made)
       IN  IF refusal # 0
           THEN Answers(refusal) /\ UNCHANGED found
           ELSE /\ request' = q /\ issued' = made /\ verified' = now
                /\ stage' = FirstStage(q.kind)
                /\ live' = LiveAt(profile, now) /\ own' = Seated(seats) /\ stayed' = users
                /\ UNCHANGED <<now, tables, settings, found, answer>>

\* evaluate_access: the row is read in a session of its own ...
ReadSubscription ==
  /\ stage = "subscription" /\ row' = profile /\ Goes("decide")
  /\ UNCHANGED <<candidates, canonical, access>>

\* Mutant of Admits: only the status is looked at.
AdmitsAnyTime(r) == r # NoRow /\ r.status = "active"
\* ... and its end is compared with the clock after that.
Admits(r) == r # NoRow /\ r.status = "active" /\ (r.until = Never \/ now < r.until)

DecideSubscription ==
  /\ stage = "decide" /\ row' = NoRow /\ UNCHANGED <<candidates, canonical, access>>
  /\ IF Admits(row) THEN Goes("scope") ELSE Answers(403)

\* Its session or its query fails.
SubscriptionFails == stage = "subscription" /\ Answers(503) /\ UNCHANGED found

-----------------------------------------------------------------------------
\* resolve_target: the nick of the row, or the one that was given.
NickOfRow == IF profile.nick # NoNick THEN profile.nick ELSE request.nick

TargetNotFound == stage = "target" /\ profile = NoRow /\ Answers(404) /\ UNCHANGED found

TargetRefused ==
  /\ stage = "target" /\ profile # NoRow
  /\ NickOfRow = NoNick \/ request.nick \notin {NoNick, NickOfRow}
  /\ Answers(422) /\ UNCHANGED found

TargetFound ==
  /\ stage = "target" /\ profile # NoRow
  /\ NickOfRow # NoNick /\ request.nick \in {NoNick, NickOfRow}
  /\ row' = [profile EXCEPT !.nick = NickOfRow]
  /\ Goes("candidates") /\ UNCHANGED <<candidates, canonical, access>>

\* The users that are asked for: all, or the one that was named.
Wanted == IF request.user = 0 THEN UserId ELSE {request.user}

ReadCandidates ==
  /\ stage = "candidates"
  /\ candidates' = users \cap Wanted
  /\ Goes("try") /\ UNCHANGED <<row, canonical, access>>

\* The profile a nick stands for, in a source system that has a row.
Resolved(s, n) ==
  IF s \notin Known THEN {}
  ELSE CanonicalProfiles(nick, IF profile = NoRow THEN {} ELSE {Target}, s, Target, n)

\* One candidate after the other is resolved, the profile first.
TryProfile ==
  /\ stage = "try" /\ candidates # {}
  /\ canonical' = Resolved(Configured, row.nick)
  /\ Goes("tryUser") /\ UNCHANGED <<row, candidates, access>>

Candidate == CHOOSE u \in candidates : \A v \in candidates : u <= v
Found(s, u) == UNION {CanonicalUsers(seats, s, c, Target, u) : c \in canonical}

TryNext ==
  /\ stage = "tryUser" /\ Found(Configured, Candidate) = {}
  /\ candidates' = candidates \ {Candidate}
  /\ Goes("try") /\ UNCHANGED <<row, canonical, access>>

\* Mutant of TargetUnresolved: the first candidate is the only one.
FirstUnresolved ==
  /\ stage = "tryUser" /\ Found(Configured, Candidate) = {}
  /\ Answers(422) /\ UNCHANGED found

TargetUnresolved == stage = "try" /\ candidates = {} /\ Answers(422) /\ UNCHANGED found

\* Mutant of TargetResolved: the run is told what the admin has asked for.
TargetAsAsked ==
  /\ stage = "tryUser" /\ Found(Configured, Candidate) # {}
  /\ stage' = IF settings.bypass THEN "scope" ELSE "subscription"
  /\ row' = NoRow /\ candidates' = {} /\ canonical' = {}
  /\ UNCHANGED <<now, tables, asked, access, answer, history>>

\* The first that resolves is the target.
TargetResolved ==
  /\ stage = "tryUser" /\ Found(Configured, Candidate) # {}
  /\ request' = [request EXCEPT !.user = Candidate, !.nick = row.nick]
  /\ stage' = IF settings.bypass THEN "scope" ELSE "subscription"
  /\ row' = NoRow /\ candidates' = {} /\ canonical' = {}
  /\ UNCHANGED <<now, tables, settings, issued, verified, access, answer, history>>

\* Only PlatformAdminServiceError is caught, and no failure of the database is one.
TargetFails ==
  /\ stage \in {"target", "candidates", "try", "tryUser"} /\ Answers(500) /\ UNCHANGED found

-----------------------------------------------------------------------------
\* resolve_scope_tool: the system may be one that the metadata name.
ScopeProfile ==
  /\ stage = "scope"
  /\ canonical' = Resolved(request.system, request.nick)
  /\ Goes("scopeUser") /\ UNCHANGED <<row, candidates, access>>

ScopeUser ==
  /\ stage = "scopeUser"
  /\ access' = IF Found(request.system, request.user) = {}
               THEN [granted |-> FALSE, why |-> "identity_not_mapped"]
               ELSE [granted |-> TRUE, profile |-> canonical,
                     user |-> Found(request.system, request.user)]
  /\ Answers(200) /\ UNCHANGED <<row, candidates, canonical>>

\* Whatever is raised denies.
ScopeFails ==
  /\ stage \in {"scope", "scopeUser"}
  /\ access' = [granted |-> FALSE, why |-> "scope_db_unavailable"]
  /\ Answers(200) /\ UNCHANGED <<row, candidates, canonical>>

\* The run raises: AgentRuntimeExecutionError.
RunFails ==
  /\ stage \in {"scope", "scopeUser"} /\ Answers(500) /\ UNCHANGED found

-----------------------------------------------------------------------------
Least(S) == {u \in S : \A v \in S : u <= v}

\* list_profiles: the least user of the replica ...
ListUsers ==
  /\ stage = "list" /\ canonical' = Least(users)
  /\ Goes("listMaps") /\ UNCHANGED <<row, candidates, access>>

\* ... unless the maps of the configured system name another.
ListMaps ==
  /\ stage = "listMaps"
  /\ LET mapped == Least({KeyOf[x[1]] : x \in {y \in seats : /\ KeyOf[y[2]] = Target
                                                   /\ SystemOf[y[2]] = Configured}})
     IN  access' = [granted |-> FALSE, why |-> "list",
                    user |-> FirstFound(<<mapped, canonical>>)]
  /\ Answers(200) /\ UNCHANGED <<row, candidates, canonical>>

ListFails == stage \in {"list", "listMaps"} /\ Answers(500) /\ UNCHANGED found

Environment == Tick \/ MapIdentities \/ WriteProfile \/ WriteUser
Handler ==
  \/ Receive \/ ReadSubscription \/ DecideSubscription \/ SubscriptionFails
  \/ TargetNotFound \/ TargetRefused \/ TargetFound \/ ReadCandidates \/ TryProfile
  \/ TryNext \/ TargetUnresolved \/ TargetResolved \/ TargetFails
  \/ ScopeProfile \/ ScopeUser \/ ScopeFails \/ RunFails
  \/ ListUsers \/ ListMaps \/ ListFails

Next == Environment \/ Handler
Spec == Init /\ [][Next]_vars

-----------------------------------------------------------------------------
(* Type correctness of every variable; a run is for a named user. *)
TypeOK ==
  /\ now \in 0 .. MaxTime /\ settings \in [secret : BOOLEAN, bypass : BOOLEAN]
  /\ nick \in [Profile -> Nick \cup {NoNick}] /\ seats \subseteq Store!Seat
  /\ profile \in Row \cup {NoRow} /\ users \subseteq UserId
  /\ request \in Request \cup {NoRequest}
  /\ stage \in {"subscription", "decide", "scope", "scopeUser"} => request.user \in UserId
  /\ issued \in Int /\ verified \in 0 .. MaxTime
  /\ stage \in {"idle", "subscription", "decide", "target", "candidates", "try", "tryUser",
                "scope", "scopeUser", "list", "listMaps", "done"}
  /\ row \in Row \cup {NoRow} /\ candidates \subseteq UserId
  /\ answer \in {0, 200, 401, 403, 404, 422, 500, 503}
  /\ live \in BOOLEAN /\ own \subseteq UserId /\ stayed \subseteq UserId

(* A run starts on a token of its time only, neither too old nor of the     *)
(* future, and on a subscription that was live at a moment of the request,  *)
(* whatever is written between the reads and however long they take; the    *)
(* admin's bypass alone does without.                                       *)
AdmittedInTime ==
  stage \in {"scope", "scopeUser"} \/ (stage = "done" /\ answer = 200) =>
    /\ issued \in verified - MaxAge .. verified + MaxSkew
    /\ live \/ request.kind = "list" \/ (request.kind = "admin" /\ settings.bypass)

(* A user with a seat of its own is never taken for another, whatever nick  *)
(* is sent and whatever is mapped, edited or deleted meanwhile; and only a  *)
(* failure of the database denies one.                                      *)
MappedIsOwn ==
  stage = "done" /\ answer = 200 /\ request.kind # "list" =>
    (request.system = Configured /\ request.user \in own =>
       IF access.granted
       THEN \E p \in Profile :
              /\ SystemOf[p] = Configured /\ KeyOf[p] = Target
              /\ access.profile = {CanonicalId[p]}
              /\ access.user = {<<request.user, CanonicalId[p]>>}
       ELSE access.why = "scope_db_unavailable")

(* An admin whose target was looked for is told in vain only when no user   *)
(* that was asked for has a seat and stayed throughout: neither the first   *)
(* unmapped user nor a commit between two lookups ends the search.          *)
AdminRefusedForCause ==
  stage = "done" /\ answer = 422 /\ request.kind = "admin" /\ row # NoRow =>
    own \cap stayed \cap Wanted = {}
=============================================================================

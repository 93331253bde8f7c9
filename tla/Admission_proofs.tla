---------------------------- MODULE Admission_proofs ----------------------------
(* What Admission promises, for all systems, profiles, users and rows. *)
EXTENDS Admission, WellFoundedInduction, TLAPS

(* The least of the candidates that are left is one of them. *)
LEMMA CandidateIsLeft ==
  ASSUME candidates \subseteq UserId, candidates # {}
  PROVE  Candidate \in candidates
<1>1. candidates \subseteq Nat  BY AdmissionAssumption
<1>2. PICK u \in candidates : \A v \in candidates : ~ (<<v, u>> \in OpToRel(<, Nat))
  BY <1>1, WFMin, NatLessThanWellFounded
<1>3. \A v \in candidates : u <= v
  <2> SUFFICES ASSUME NEW v \in candidates PROVE u <= v  OBVIOUS
  <2>1. <<v, u>> \in Nat \X Nat  BY <1>1
  <2>2. ~ (v < u)  BY <1>2, <2>1 DEF OpToRel
  <2> QED  BY <1>1, <2>2, SMT
<1> QED  BY <1>3 DEF Candidate

-----------------------------------------------------------------------------
(* Type correctness *)

InTarget == {"target", "candidates", "try", "tryUser"}
InScope  == {"scope", "scopeUser"}
InList   == {"list", "listMaps"}

\* The routes keep to themselves; a run has its user.
Routed ==
  /\ Handling => request \in Request
  /\ stage \in InTarget => request.kind = "admin"
  /\ stage \in InList => request.kind = "list"
  /\ stage \in {"subscription", "decide"} \cup InScope => request.kind \in {"run", "admin"}
  /\ stage \in {"candidates", "try", "tryUser"} => row \in Row
  /\ stage = "tryUser" => candidates # {}

Typed == TypeOK /\ Routed

LEMMA TypedInit == Init => Typed
<1> SUFFICES ASSUME Init PROVE Typed  OBVIOUS
<1> USE DEF Init
<1>1. now \in 0 .. MaxTime /\ verified \in 0 .. MaxTime /\ issued \in Int
  BY AdmissionAssumption, SMT
<1>2. profile \in Row \cup {NoRow} /\ users \subseteq UserId
  BY InputAssumption
<1>3. request \in Request \cup {NoRequest}  OBVIOUS
<1>4. stage = "idle"  OBVIOUS
<1>5. Routed  BY <1>4 DEF Routed, Handling, InTarget, InScope, InList
<1> QED  BY <1>1, <1>2, <1>3, <1>4, <1>5 DEF Typed, TypeOK

LEMMA TypedEnvironment == Typed /\ Environment => Typed'
<1> SUFFICES ASSUME Typed, Environment PROVE Typed'  OBVIOUS
<1> USE DEF Typed, TypeOK, Routed, Handling, InTarget, InScope, InList, Follow, asked, found
<1>1. CASE Tick  BY <1>1, AdmissionAssumption, SMT DEF Tick, tables
<1>2. CASE MapIdentities  BY <1>2 DEF MapIdentities, Store!Commit
<1>3. CASE WriteProfile  BY <1>3, InputAssumption DEF WriteProfile
<1>4. CASE WriteUser  BY <1>4 DEF WriteUser
<1> QED  BY <1>1, <1>2, <1>3, <1>4 DEF Environment

\* The steps of a handler that only read, and go on or answer.
Reads ==
  \/ ReadSubscription \/ DecideSubscription \/ SubscriptionFails
  \/ TargetNotFound \/ TargetRefused \/ TargetFound \/ ReadCandidates \/ TryProfile
  \/ TryNext \/ TargetUnresolved \/ TargetFails
  \/ ScopeProfile \/ ScopeUser \/ ScopeFails \/ RunFails
  \/ ListUsers \/ ListMaps \/ ListFails

LEMMA KindsOfRequests ==
  \A q \in Request : q.kind \in {"run", "admin", "list"}
                   /\ (q.kind = "run" => q.user \in UserId)
BY DEF Request

LEMMA TypedReceive == Typed /\ Receive => Typed'
<1> SUFFICES ASSUME Typed, Receive PROVE Typed'  OBVIOUS
<1> USE DEF Typed, TypeOK, Routed, Handling, InTarget, InScope, InList
<1>1. CASE UNCHANGED found /\ \E code \in {401, 422, 500} : Answers(code)
  BY <1>1 DEF Answers, found, tables, asked, history
<1>2. ASSUME NEW q \in Requests, NEW made \in (now - MaxAge - 1) .. (now + MaxSkew + 1),
             request' = q, issued' = made, verified' = now, stage' = FirstStage(q.kind),
             own' = Seated(seats), stayed' = users, live' = LiveAt(profile, now),
             UNCHANGED <<now, tables, settings, found, answer>>
      PROVE  Typed'
  <2>1. q \in Request /\ q.kind \in {"run", "admin", "list"}
    BY InputAssumption, KindsOfRequests
  <2>2. made \in Int /\ now \in 0 .. MaxTime  BY AdmissionAssumption, SMT
  <2>3. Seated(seats) \subseteq UserId  BY DEF Seated
  <2>4. q.kind = "run" => q.user \in UserId  BY <2>1, KindsOfRequests
  <2>5. live' \in BOOLEAN  BY <1>2 DEF LiveAt
  <2>6. Routed'  BY <1>2, <2>1 DEF FirstStage
  <2>7. TypeOK'  BY <1>2, <2>1, <2>2, <2>3, <2>4, <2>5 DEF FirstStage, tables, found
  <2> QED  BY <2>6, <2>7
<1> QED  BY <1>1, <1>2 DEF Receive, Refusal

LEMMA TypedTarget == Typed /\ TargetResolved => Typed'
<1> SUFFICES ASSUME Typed, TargetResolved PROVE Typed'  OBVIOUS
<1> USE DEF Typed, TypeOK, Routed, Handling, InTarget, InScope, InList
<1>1. Candidate \in UserId  BY CandidateIsLeft DEF TargetResolved
<1>2. row.nick \in Nick \cup {NoNick}  BY DEF TargetResolved, Row
<1>3. request \in Request /\ request.kind = "admin"  BY DEF TargetResolved
<1>4. request \in [kind : {"admin"}, nick : Nick \cup {NoNick}, user : UserId \cup {0},
                   system : SourceSystem]
  BY <1>3 DEF Request
<1>5. request' = [request EXCEPT !.user = Candidate, !.nick = row.nick]
  BY DEF TargetResolved
<1>6. request' \in [kind : {"admin"}, nick : Nick \cup {NoNick}, user : UserId \cup {0},
                    system : SourceSystem] /\ request'.user = Candidate
  BY ZenonT(60), <1>1, <1>2, <1>4, <1>5
<1>7. request' \in Request /\ request'.kind = "admin" /\ request'.user \in UserId
  BY <1>1, <1>6 DEF Request
<1>8. stage' \in {"scope", "subscription"}  BY DEF TargetResolved
<1>9. Routed'  BY <1>7, <1>8
<1> QED  BY <1>7, <1>8, <1>9 DEF TargetResolved, tables, history

LEMMA TypedReads == Typed /\ Reads => Typed'
<1> SUFFICES ASSUME Typed, Reads PROVE Typed'  OBVIOUS
<1> USE DEF Typed, TypeOK, Routed, Handling, InTarget, InScope, InList, Goes, Answers,
            tables, asked, found, history
<1>1. CASE ReadSubscription  BY <1>1 DEF ReadSubscription
<1>2. CASE DecideSubscription  BY <1>2 DEF DecideSubscription
<1>3. CASE SubscriptionFails  BY <1>3 DEF SubscriptionFails
<1>4. CASE TargetNotFound  BY <1>4 DEF TargetNotFound
<1>5. CASE TargetRefused  BY <1>5 DEF TargetRefused
<1>6. CASE TargetFound
  <2>1. profile \in Row  BY <1>6 DEF TargetFound
  <2>2. request \in Request /\ request.kind = "admin"  BY <1>6 DEF TargetFound
  <2>3. request.nick \in Nick \cup {NoNick}  BY <2>2 DEF Request
  <2>4. NickOfRow \in Nick \cup {NoNick}  BY <2>1, <2>3 DEF NickOfRow, Row
  <2>5. row' \in Row  BY <1>6, <2>1, <2>4 DEF TargetFound, Row
  <2> QED  BY <1>6, <2>5 DEF TargetFound
<1>7. CASE ReadCandidates  BY <1>7 DEF ReadCandidates
<1>8. CASE TryProfile  BY <1>8 DEF TryProfile
<1>9. CASE TryNext  BY <1>9 DEF TryNext
<1>10. CASE TargetUnresolved  BY <1>10 DEF TargetUnresolved
<1>11. CASE TargetFails  BY <1>11 DEF TargetFails
<1>12. CASE ScopeProfile  BY <1>12 DEF ScopeProfile
<1>13. CASE ScopeUser  BY <1>13 DEF ScopeUser
<1>14. CASE ScopeFails  BY <1>14 DEF ScopeFails
<1>15. CASE RunFails  BY <1>15 DEF RunFails
<1>16. CASE ListUsers  BY <1>16 DEF ListUsers
<1>17. CASE ListMaps  BY <1>17 DEF ListMaps
<1>18. CASE ListFails  BY <1>18 DEF ListFails
<1> QED  BY <1>1, <1>2, <1>3, <1>4, <1>5, <1>6, <1>7, <1>8, <1>9, <1>10, <1>11, <1>12,
            <1>13, <1>14, <1>15, <1>16, <1>17, <1>18 DEF Reads

LEMMA TypedNext == Typed /\ [Next]_vars => Typed'
<1>1. Typed /\ UNCHANGED vars => Typed'
  BY DEF Typed, TypeOK, Routed, Handling, InTarget, InScope, InList, vars, tables, asked,
         found, history
<1> QED
  BY <1>1, TypedEnvironment, TypedReceive, TypedTarget, TypedReads DEF Next, Handler, Reads

(* Every variable of a request keeps its type, and a run is for a named     *)
(* user.                                                                    *)
THEOREM AdmissionTyped == Spec => []TypeOK
<1>1. Typed => TypeOK  BY DEF Typed
<1> QED  BY <1>1, TypedInit, TypedNext, PTL DEF Spec

-----------------------------------------------------------------------------
(* Admission in time *)

Admitted == stage \in InScope \/ (stage = "done" /\ answer = 200)

\* What the verification has found stays so; live follows the row of the
\* profile, and the row a check has read was once that row.
TimeInv ==
  /\ Handling \/ Admitted => issued \in verified - MaxAge .. verified + MaxSkew
  /\ Handling /\ LiveAt(profile, now) => live
  /\ stage = "decide" /\ LiveAt(row, now) => live
  /\ Admitted => \/ live \/ request.kind = "list"
                 \/ request.kind = "admin" /\ settings.bypass

\* A row that is live was so before.
LEMMA LiveBefore ==
  ASSUME NEW r \in Row \cup {NoRow}, NEW t \in Nat, LiveAt(r, t + 1)
  PROVE  LiveAt(r, t)
<1>1. r # NoRow /\ r \in Row  BY DEF LiveAt
<1>2. r.until = Never \/ r.until \in 1 .. MaxTime  BY <1>1 DEF Row
<1>3. MaxTime \in Nat  BY AdmissionAssumption
<1> QED  BY <1>1, <1>2, <1>3, SMT DEF LiveAt

LEMMA TimeEnvironment == Typed /\ TimeInv /\ Environment => TimeInv'
<1> SUFFICES ASSUME Typed, TimeInv, Environment PROVE TimeInv'  OBVIOUS
<1> USE DEF TimeInv, Handling, Admitted, InScope, Follow, asked, found
<1>1. CASE Tick
  <2>1. now \in Nat /\ row \in Row \cup {NoRow}  BY AdmissionAssumption DEF Typed, TypeOK
  <2>2. LiveAt(row, now') => LiveAt(row, now)  BY <1>1, <2>1, LiveBefore DEF Tick
  <2>3. row' = row /\ stage' = stage /\ request' = request /\ settings' = settings
        /\ issued' = issued /\ verified' = verified /\ answer' = answer
    BY <1>1 DEF Tick
  <2>4. Handling /\ live' = (live \/ LiveAt(profile', now'))  BY <1>1 DEF Tick
  <2>5. LiveAt(row', now') = LiveAt(row, now')  BY <2>3
  <2> QED  BY <2>2, <2>3, <2>4, <2>5
<1>2. CASE MapIdentities
  BY <1>2 DEF MapIdentities, LiveAt
<1>3. CASE WriteProfile
  BY <1>3 DEF WriteProfile, LiveAt
<1>4. CASE WriteUser
  BY <1>4 DEF WriteUser, LiveAt
<1> QED  BY <1>1, <1>2, <1>3, <1>4 DEF Environment

LEMMA TimeReceive == Typed /\ TimeInv /\ Receive => TimeInv'
<1> SUFFICES ASSUME Typed, TimeInv, Receive PROVE TimeInv'  OBVIOUS
<1> USE DEF TimeInv, Handling, Admitted, InScope
<1>1. CASE UNCHANGED found /\ \E code \in {401, 422, 500} : Answers(code)
  BY <1>1 DEF Answers, found, tables, asked, history
<1>2. ASSUME NEW q \in Requests, NEW made \in (now - MaxAge - 1) .. (now + MaxSkew + 1),
             ~ (now - made > MaxAge), ~ (made - now > MaxSkew),
             request' = q, issued' = made, verified' = now, stage' = FirstStage(q.kind),
             live' = LiveAt(profile, now), UNCHANGED <<now, tables>>
      PROVE  TimeInv'
  <2>1. q.kind \in {"run", "admin", "list"}  BY InputAssumption, KindsOfRequests
  <2>2. stage' \in {"subscription", "target", "list"}  BY <1>2, <2>1 DEF FirstStage
  <2>3. now \in Int /\ MaxAge \in Int /\ MaxSkew \in Int
    BY AdmissionAssumption DEF Typed, TypeOK
  <2>4. made \in now - MaxAge .. now + MaxSkew  BY <1>2, <2>3, SMT
  <2>5. LiveAt(profile', now') = LiveAt(profile, now)  BY <1>2 DEF tables
  <2> QED  BY <1>2, <2>2, <2>4, <2>5
<1> QED  BY <1>1, <1>2 DEF Receive, Refusal

LEMMA TimeHandler == Typed /\ TimeInv /\ (Reads \/ TargetResolved) => TimeInv'
<1> SUFFICES ASSUME Typed, TimeInv, Reads \/ TargetResolved PROVE TimeInv'  OBVIOUS
<1> USE DEF TimeInv, Handling, Admitted, InScope, Goes, Answers, tables, asked, history, LiveAt
<1>1. CASE ReadSubscription  BY <1>1 DEF ReadSubscription
<1>2. CASE DecideSubscription  BY <1>2 DEF DecideSubscription, Admits
<1>3. CASE TargetResolved
  <2>1. request.kind = "admin" /\ request \in Request
    BY <1>3 DEF TargetResolved, Typed, Routed, InTarget
  <2>2. request'.kind = "admin"  BY <1>3, <2>1 DEF TargetResolved, Request
  <2> QED  BY <1>3, <2>2 DEF TargetResolved
<1>4. CASE ListUsers \/ ListMaps
  <2>1. request.kind = "list"  BY <1>4 DEF ListUsers, ListMaps, Typed, Routed, InList
  <2> QED  BY <1>4, <2>1 DEF ListUsers, ListMaps
<1>5. CASE SubscriptionFails \/ TargetNotFound \/ TargetRefused \/ TargetUnresolved
           \/ TargetFails \/ RunFails \/ ListFails
  BY <1>5 DEF SubscriptionFails, TargetNotFound, TargetRefused, TargetUnresolved,
              TargetFails, RunFails, ListFails
<1>6. CASE TargetFound \/ ReadCandidates \/ TryProfile \/ TryNext
  BY <1>6 DEF TargetFound, ReadCandidates, TryProfile, TryNext
<1>7. CASE ScopeProfile \/ ScopeUser \/ ScopeFails
  BY <1>7 DEF ScopeProfile, ScopeUser, ScopeFails
<1> QED  BY <1>1, <1>2, <1>3, <1>4, <1>5, <1>6, <1>7 DEF Reads

(* A run starts on a token of its time and on a subscription that was live  *)
(* at a moment of the request, whatever is written and however long it      *)
(* takes; only the admin's bypass does without.                             *)
THEOREM InTime == Spec => []AdmittedInTime
<1>1. Init => TimeInv
  BY DEF Init, TimeInv, Handling, Admitted, InScope
<1>2. Typed /\ TimeInv /\ [Next]_vars => TimeInv'
  <2>1. TimeInv /\ UNCHANGED vars => TimeInv'
    BY DEF TimeInv, Handling, Admitted, InScope, LiveAt, vars, tables, asked, found, history
  <2> QED  BY <2>1, TimeEnvironment, TimeReceive, TimeHandler DEF Next, Handler, Reads
<1>3. TimeInv => AdmittedInTime  BY DEF TimeInv, AdmittedInTime, Admitted, InScope
<1> QED  BY <1>1, <1>2, <1>3, TypedInit, TypedNext, PTL DEF Spec

-----------------------------------------------------------------------------
(* The identity of a user that is mapped *)

\* A first lookup that finds something answers.
LEMMA FirstAnswers ==
  ASSUME NEW a, NEW b, NEW c, a # {}
  PROVE  FirstFound(<<a, b>>) = a /\ FirstFound(<<a, b, c>>) = a
<1>1. ASSUME NEW s, s = <<a, b>> \/ s = <<a, b, c>>
      PROVE  FirstFound(s) = a
  <2>1. s[1] = a /\ 1 \in DOMAIN s /\ DOMAIN s \subseteq 1 .. 3  BY <1>1
  <2>2. \A k \in 1 .. 1 - 1 : s[k] = {}  OBVIOUS
  <2>3. \A j \in DOMAIN s : (\A k \in 1 .. j - 1 : s[k] = {}) => j = 1
    <3> SUFFICES ASSUME NEW j \in DOMAIN s, j # 1 PROVE 1 \in 1 .. j - 1
      BY <2>1
    <3> QED  BY <2>1, SMT
  <2>4. {j \in DOMAIN s : \A k \in 1 .. j - 1 : s[k] = {}} = {1}
    BY <2>1, <2>2, <2>3
  <2>5. FirstFound(s) = UNION {s[i] : i \in {1}}  BY <2>4 DEF FirstFound
  <2> QED  BY <2>1, <2>5
<1> QED  BY <1>1

\* The profile that requests name, at the configured system.
OwnProfile(p) == p \in Profile /\ SystemOf[p] = Configured /\ KeyOf[p] = Target
\* A resolution that has found it.
FoundOwn(c) == \E p \in Profile : OwnProfile(p) /\ c = {CanonicalId[p]}

\* The system of the settings is the one the histories are about.
MapInv ==
  /\ Store!Consistent(nick, seats)
  /\ own \subseteq Seated(seats)
  /\ stage = "tryUser" /\ own # {} => FoundOwn(canonical)
  /\ stage = "scopeUser" /\ request.system = Configured /\ own # {} => FoundOwn(canonical)
  /\ MappedIsOwn

LEMMA OneOwnProfile ==
  ASSUME NEW p, NEW q, OwnProfile(p), OwnProfile(q)
  PROVE  p = q
BY IdAssumption DEF OwnProfile

\* A seat of its own is under the profile, which has its nick.
LEMMA SeatOfOwn ==
  ASSUME Typed, MapInv, NEW u \in own
  PROVE  /\ MappedUsers(seats, Configured, Target, u) # {}
         /\ \E p \in Profile : OwnProfile(p) /\ nick[p] # NoNick
<1>1. MappedUsers(seats, Configured, Target, u) # {}  BY DEF MapInv, Seated
<1>2. PICK y \in seats : /\ SystemOf[y[2]] = Configured /\ KeyOf[y[2]] = Target
                         /\ KeyOf[y[1]] = u
  BY <1>1 DEF MappedUsers
<1>3. y \in User \X Profile  BY <1>2 DEF Typed, TypeOK, Store!Seat
<1>4. nick[y[2]] # NoNick  BY <1>2 DEF MapInv, Store!Consistent
<1> QED  BY <1>1, <1>2, <1>3, <1>4 DEF OwnProfile

\* What the maps say of one's own profile is one row.
LEMMA ProfileIsOwn ==
  ASSUME Typed, MapInv, NEW u \in own, NEW n
  PROVE  FoundOwn(Resolved(Configured, n))
<1>1. PICK p \in Profile : OwnProfile(p) /\ nick[p] # NoNick  BY SeatOfOwn
<1>2. MappedProfiles(nick, Configured, Target) = {p}
  BY <1>1, OneOwnProfile DEF MappedProfiles, OwnProfile
<1> DEFINE mapped == {CanonicalId[x] : x \in MappedProfiles(nick, Configured, Target)}
<1>3. mapped = {CanonicalId[p]}  BY <1>2
<1>4. ASSUME NEW l PROVE CanonicalProfiles(nick, l, Configured, Target, n) = mapped
  <2> DEFINE named == {CanonicalId[x] : x \in NamedProfiles(nick, n)}
  <2>1. \A a, b, c : a # {} => FirstFound(<<a, b, c>>) = a  BY FirstAnswers
  <2>2. mapped # {}  BY <1>3
  <2>3. CanonicalProfiles(nick, l, Configured, Target, n)
        = FirstFound(<<mapped, named, {Target} \cap l>>)
    BY DEF CanonicalProfiles
  <2> HIDE DEF mapped, named
  <2> QED  BY <2>1, <2>2, <2>3
<1>5. Configured \in Known  BY AdmissionAssumption
<1> QED  BY <1>1, <1>3, <1>4, <1>5 DEF Resolved, FoundOwn

\* And so is what they say of the user, under it.
LEMMA UserIsOwn ==
  ASSUME Typed, MapInv, NEW u \in own, NEW p, OwnProfile(p), canonical = {CanonicalId[p]}
  PROVE  Found(Configured, u) = {<<u, CanonicalId[p]>>}
<1> DEFINE mapped == MappedUsers(seats, Configured, Target, u)
<1>1. mapped # {}  BY SeatOfOwn
<1>2. CanonicalUsers(seats, Configured, CanonicalId[p], Target, u) = mapped
  BY <1>1, FirstAnswers DEF CanonicalUsers
<1>3. Found(Configured, u) = mapped  BY <1>2 DEF Found
<1>4. \A y \in seats : SystemOf[y[2]] = Configured /\ KeyOf[y[2]] = Target => y[2] = p
  <2> SUFFICES ASSUME NEW y \in seats, SystemOf[y[2]] = Configured, KeyOf[y[2]] = Target
               PROVE  y[2] = p
    OBVIOUS
  <2>1. y[2] \in Profile  BY DEF Typed, TypeOK, Store!Seat
  <2> QED  BY <2>1, OneOwnProfile DEF OwnProfile
<1>5. mapped \subseteq {<<u, CanonicalId[p]>>}  BY <1>4 DEF MappedUsers
<1> QED  BY <1>1, <1>3, <1>5

LEMMA MapEnvironment == Typed /\ MapInv /\ Environment => MapInv'
<1> SUFFICES ASSUME Typed, MapInv, Environment PROVE MapInv'  OBVIOUS
<1> USE DEF MapInv, Follow, asked, found
<1>1. ASSUME UNCHANGED <<nick, seats, asked, stage, found, answer>>, own' = own
      PROVE  MapInv'
  BY <1>1 DEF MappedIsOwn, FoundOwn, OwnProfile, Seated, MappedUsers, Store!Consistent
<1>2. CASE MapIdentities
  <2>1. Store!Consistent(nick', seats') /\ seats \subseteq seats'
    BY <1>2 DEF MapIdentities, Store!Commit
  <2>2. Seated(seats) \subseteq Seated(seats')  BY <2>1 DEF Seated, MappedUsers
  <2>3. stage' = stage /\ request' = request /\ canonical' = canonical /\ own' = own
        /\ answer' = answer /\ access' = access
    BY <1>2 DEF MapIdentities
  <2>4. Store!Consistent(nick, seats)'  BY <2>1 DEF Store!Consistent
  <2>5. Seated(seats)' = Seated(seats')  BY DEF Seated, MappedUsers
  <2>6. MappedIsOwn'  BY <2>3 DEF MappedIsOwn
  <2>7. FoundOwn(canonical)' = FoundOwn(canonical)  BY <2>3 DEF FoundOwn, OwnProfile
  <2> QED  BY <2>2, <2>3, <2>4, <2>5, <2>6, <2>7
<1>3. CASE Tick  BY <1>1, <1>3 DEF Tick, tables
<1>4. CASE WriteProfile  BY <1>1, <1>4 DEF WriteProfile
<1>5. CASE WriteUser  BY <1>1, <1>5 DEF WriteUser
<1> QED  BY <1>2, <1>3, <1>4, <1>5 DEF Environment

\* Every step of a handler leaves the canonical tables alone.
LEMMA MapKept ==
  ASSUME MapInv, UNCHANGED <<nick, seats, own>>
  PROVE  /\ Store!Consistent(nick, seats)'
         /\ (own \subseteq Seated(seats))'
         /\ FoundOwn(canonical)' = FoundOwn(canonical')
         /\ own' = own
BY DEF MapInv, Store!Consistent, Seated, MappedUsers, FoundOwn, OwnProfile

LEMMA MapReceive == Typed /\ MapInv /\ Receive => MapInv'
<1> SUFFICES ASSUME Typed, MapInv, Receive PROVE MapInv'  OBVIOUS
<1>1. CASE UNCHANGED found /\ \E code \in {401, 422, 500} : Answers(code)
  <2>1. UNCHANGED <<nick, seats, own>>  BY <1>1 DEF Answers, tables, history
  <2>2. stage' = "done" /\ answer' # 200  BY <1>1 DEF Answers
  <2> QED  BY <2>1, <2>2, MapKept DEF MapInv, MappedIsOwn
<1>2. ASSUME NEW q \in Requests, own' = Seated(seats), UNCHANGED <<now, tables>>,
             stage' = FirstStage(q.kind)
      PROVE  MapInv'
  <2>1. q.kind \in {"run", "admin", "list"}  BY InputAssumption, KindsOfRequests
  <2>2. stage' \in {"subscription", "target", "list"}  BY <1>2, <2>1 DEF FirstStage
  <2>3. Store!Consistent(nick, seats)'  BY <1>2 DEF tables, MapInv, Store!Consistent
  <2>4. (own \subseteq Seated(seats))'  BY <1>2 DEF tables, Seated, MappedUsers
  <2> QED  BY <2>2, <2>3, <2>4 DEF MapInv, MappedIsOwn
<1> QED  BY <1>1, <1>2 DEF Receive, Refusal

LEMMA MapHandler == Typed /\ MapInv /\ (Reads \/ TargetResolved) => MapInv'
<1> SUFFICES ASSUME Typed, MapInv, Reads \/ TargetResolved PROVE MapInv'  OBVIOUS
<1>1. UNCHANGED <<nick, seats, own>>
  BY DEF Reads, ReadSubscription, DecideSubscription, SubscriptionFails, TargetNotFound,
         TargetRefused, TargetFound, ReadCandidates, TryProfile, TryNext, TargetUnresolved,
         TargetResolved, TargetFails, ScopeProfile, ScopeUser, ScopeFails, RunFails,
         ListUsers, ListMaps, ListFails, Goes, Answers, tables, history
<1>2. Store!Consistent(nick, seats)' /\ (own \subseteq Seated(seats))'
      /\ FoundOwn(canonical)' = FoundOwn(canonical') /\ own' = own
  BY <1>1, MapKept
<1>3. ASSUME stage' \notin {"tryUser", "scopeUser"}, MappedIsOwn' PROVE MapInv'
  BY <1>2, <1>3 DEF MapInv
<1>4. CASE SubscriptionFails \/ TargetNotFound \/ TargetRefused \/ TargetUnresolved
           \/ TargetFails \/ RunFails \/ ListFails
  BY <1>3, <1>4 DEF SubscriptionFails, TargetNotFound, TargetRefused, TargetUnresolved,
                    TargetFails, RunFails, ListFails, Answers, MappedIsOwn
<1>5. CASE ReadSubscription \/ TargetFound \/ ReadCandidates \/ TryNext \/ ListUsers
           \/ TargetResolved \/ DecideSubscription
  BY <1>3, <1>5 DEF ReadSubscription, TargetFound, ReadCandidates, TryNext, ListUsers,
                    TargetResolved, DecideSubscription, Goes, Answers, MappedIsOwn
<1>6. CASE TryProfile
  <2>1. stage' = "tryUser" /\ canonical' = Resolved(Configured, row.nick)
    BY <1>6 DEF TryProfile, Goes
  <2>2. own # {} => FoundOwn(canonical')  BY <2>1, ProfileIsOwn
  <2> QED  BY <1>2, <2>1, <2>2 DEF MapInv, MappedIsOwn
<1>7. CASE ScopeProfile
  <2>1. /\ stage' = "scopeUser" /\ canonical' = Resolved(request.system, request.nick)
        /\ request' = request
    BY <1>7 DEF ScopeProfile, Goes, asked
  <2>2. own # {} /\ request.system = Configured => FoundOwn(canonical')
    BY <2>1, ProfileIsOwn
  <2> QED  BY <1>2, <2>1, <2>2 DEF MapInv, MappedIsOwn
<1>8. CASE ScopeUser
  <2>1. stage = "scopeUser" /\ stage' = "done" /\ request' = request /\ canonical' = canonical
    BY <1>8 DEF ScopeUser, Answers, asked
  <2>2. ASSUME request.system = Configured, request.user \in own
        PROVE  access'.granted /\ \E p \in Profile :
                 /\ SystemOf[p] = Configured /\ KeyOf[p] = Target
                 /\ access'.profile = {CanonicalId[p]}
                 /\ access'.user = {<<request.user, CanonicalId[p]>>}
    <3>1. PICK p \in Profile : OwnProfile(p) /\ canonical = {CanonicalId[p]}
      BY <2>1, <2>2 DEF MapInv, FoundOwn
    <3>2. Found(Configured, request.user) = {<<request.user, CanonicalId[p]>>}
      BY <2>2, <3>1, UserIsOwn
    <3>3. access' = [granted |-> TRUE, profile |-> canonical,
                     user |-> Found(request.system, request.user)]
      BY <1>8, <2>2, <3>2 DEF ScopeUser
    <3> QED  BY <2>2, <3>1, <3>2, <3>3 DEF OwnProfile
  <2>3. MappedIsOwn'  BY <1>2, <2>1, <2>2 DEF MappedIsOwn
  <2> QED  BY <1>3, <2>1, <2>3
<1>9. CASE ScopeFails
  BY <1>3, <1>9 DEF ScopeFails, Answers, MappedIsOwn
<1>10. CASE ListMaps
  <2>1. stage' = "done" /\ request' = request /\ request.kind = "list"
    BY <1>10 DEF ListMaps, Answers, asked, Typed, Routed, InList
  <2> QED  BY <1>3, <2>1 DEF MappedIsOwn
<1> QED  BY <1>4, <1>5, <1>6, <1>7, <1>8, <1>9, <1>10 DEF Reads

LEMMA MapInit == Init => MapInv
BY DEF Init, MapInv, MappedIsOwn

LEMMA MapNext == Typed /\ MapInv /\ [Next]_vars => MapInv'
<1>1. Typed /\ MapInv /\ UNCHANGED vars => MapInv'
  BY DEF MapInv, MappedIsOwn, FoundOwn, OwnProfile, Seated, MappedUsers, Store!Consistent,
         vars, tables, asked, found, history
<1> QED  BY <1>1, MapEnvironment, MapReceive, MapHandler DEF Next, Handler, Reads

(* A user with a seat of its own is never taken for another, whatever nick  *)
(* is sent, whatever the sync commits between the lookups and whatever      *)
(* other systems' profiles share its id or its nick; only a failure of the  *)
(* database denies it.                                                      *)
THEOREM TakenForItself == Spec => []MappedIsOwn
<1>1. MapInv => MappedIsOwn  BY DEF MapInv
<1> QED  BY <1>1, TypedInit, TypedNext, MapInit, MapNext, PTL DEF Spec

-----------------------------------------------------------------------------
(* The search for an admin's target *)

\* Who could be the target and has not been tried is still a candidate.
SearchInv ==
  /\ Handling => stayed \subseteq users
  /\ stage \in {"idle", "target"} => row = NoRow
  /\ stage = "idle" => request = NoRequest
  /\ stage \in {"try", "tryUser"} => own \cap stayed \cap Wanted \subseteq candidates
  /\ AdminRefusedForCause

LEMMA SearchEnvironment == Typed /\ SearchInv /\ Environment => SearchInv'
<1> SUFFICES ASSUME Typed, SearchInv, Environment PROVE SearchInv'  OBVIOUS
<1>1. /\ stage' = stage /\ row' = row /\ request' = request /\ candidates' = candidates
      /\ answer' = answer /\ Handling /\ own' = own /\ stayed' = stayed \cap users'
  BY DEF Environment, Tick, MapIdentities, WriteProfile, WriteUser, Follow, asked, found
<1> QED  BY <1>1 DEF SearchInv, Handling, Wanted, AdminRefusedForCause

LEMMA SearchReceive == Typed /\ SearchInv /\ Receive => SearchInv'
<1> SUFFICES ASSUME Typed, SearchInv, Receive PROVE SearchInv'  OBVIOUS
<1> USE DEF SearchInv, Handling, AdminRefusedForCause
<1>0. stage = "idle" /\ row = NoRow /\ request.kind = "none"
  BY DEF Receive, NoRequest
<1>1. CASE UNCHANGED found /\ \E code \in {401, 422, 500} : Answers(code)
  BY <1>0, <1>1 DEF Answers, found, asked
<1>2. ASSUME NEW q \in Requests, stayed' = users, UNCHANGED <<tables, found>>,
             stage' = FirstStage(q.kind)
      PROVE  SearchInv'
  <2>1. q.kind \in {"run", "admin", "list"}  BY InputAssumption, KindsOfRequests
  <2>2. stage' \in {"subscription", "target", "list"}  BY <1>2, <2>1 DEF FirstStage
  <2> QED  BY <1>0, <1>2, <2>2 DEF tables, found
<1> QED  BY <1>1, <1>2 DEF Receive, Refusal

LEMMA SearchHandler == Typed /\ MapInv /\ SearchInv /\ (Reads \/ TargetResolved) => SearchInv'
<1> SUFFICES ASSUME Typed, MapInv, SearchInv, Reads \/ TargetResolved PROVE SearchInv'
  OBVIOUS
<1> USE DEF SearchInv, Handling, AdminRefusedForCause, Goes, Answers, tables, asked, history
<1>1. CASE TryNext
  <2>1. Candidate \notin own
    <3> SUFFICES ASSUME Candidate \in own PROVE FALSE  OBVIOUS
    <3>1. PICK p \in Profile : OwnProfile(p) /\ canonical = {CanonicalId[p]}
      BY <1>1 DEF TryNext, MapInv, FoundOwn
    <3>2. Found(Configured, Candidate) = {<<Candidate, CanonicalId[p]>>}
      BY <3>1, UserIsOwn
    <3> QED  BY <1>1, <3>2 DEF TryNext
  <2>2. Wanted' = Wanted  BY <1>1 DEF TryNext, Wanted
  <2> QED  BY <1>1, <2>1, <2>2 DEF TryNext
<1>2. CASE TargetUnresolved
  <2>1. Wanted' = Wanted  BY <1>2 DEF TargetUnresolved, Wanted
  <2> QED  BY <1>2, <2>1 DEF TargetUnresolved, found
<1>3. CASE ReadCandidates
  <2>1. Wanted' = Wanted  BY <1>3 DEF ReadCandidates, Wanted
  <2> QED  BY <1>3, <2>1 DEF ReadCandidates
<1>4. CASE TryProfile
  <2>1. Wanted' = Wanted  BY <1>4 DEF TryProfile, Wanted
  <2> QED  BY <1>4, <2>1 DEF TryProfile
<1>5. CASE TargetRefused
  BY <1>5 DEF TargetRefused, found
<1>6. CASE ReadSubscription \/ DecideSubscription \/ SubscriptionFails \/ TargetNotFound
           \/ TargetFails \/ ScopeFails \/ RunFails \/ ListFails \/ ListMaps \/ ScopeUser
  BY <1>6 DEF ReadSubscription, DecideSubscription, SubscriptionFails, TargetNotFound,
              TargetFails, ScopeFails, RunFails, ListFails, ListMaps, ScopeUser, found
<1>7. CASE TargetFound \/ ScopeProfile \/ ListUsers \/ TargetResolved
  BY <1>7 DEF TargetFound, ScopeProfile, ListUsers, TargetResolved
<1> QED  BY <1>1, <1>2, <1>3, <1>4, <1>5, <1>6, <1>7 DEF Reads

(* An admin whose target was looked for is told in vain only when no user   *)
(* that was asked for had a seat and stayed throughout: whoever could be    *)
(* the target stays a candidate until it is tried, and is found then.       *)
THEOREM SearchedToTheEnd == Spec => []AdminRefusedForCause
<1>1. Init => SearchInv  BY DEF Init, SearchInv, Handling, AdminRefusedForCause
<1>2. Typed /\ MapInv /\ SearchInv /\ [Next]_vars => SearchInv'
  <2>1. SearchInv /\ UNCHANGED vars => SearchInv'
    BY DEF SearchInv, Handling, Wanted, AdminRefusedForCause, vars, tables, asked, found, history
  <2> QED  BY <2>1, SearchEnvironment, SearchReceive, SearchHandler DEF Next, Handler, Reads
<1>3. SearchInv => AdminRefusedForCause  BY DEF SearchInv
<1> QED  BY <1>1, <1>2, <1>3, TypedInit, TypedNext, MapInit, MapNext, PTL DEF Spec
=============================================================================

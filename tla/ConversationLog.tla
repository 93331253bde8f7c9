--------------------------- MODULE ConversationLog ---------------------------
(***************************************************************************)
(* What a client may rely on, without transactions, sessions or the agent: *)
(* a request is put on record at most once and never after its reply, what *)
(* is on record does not change, and a reply that carries no warning is    *)
(* given only for a request on record (or forgotten with its chat).        *)
(***************************************************************************)
CONSTANTS Request, Statuses

VARIABLES
  record,    \* [Request -> Statuses \cup {"none"}]
  replied,   \* [Request -> {"none", "clean", "warned", "error"}]
  forgotten  \* requests whose record was deleted

vars == <<record, replied, forgotten>>

Init ==
  /\ record = [r \in Request |-> "none"]
  /\ replied = [r \in Request |-> "none"]
  /\ forgotten = {}

Record(r) ==
  /\ record[r] = "none" /\ replied[r] = "none" /\ r \notin forgotten
  /\ \E s \in Statuses : record' = [record EXCEPT ![r] = s]
  /\ UNCHANGED <<replied, forgotten>>

Reply(r) ==
  /\ replied[r] = "none"
  /\ \E answer \in {"clean", "warned", "error"} :
       /\ answer = "clean" => record[r] # "none" \/ r \in forgotten
       /\ replied' = [replied EXCEPT ![r] = answer]
  /\ UNCHANGED <<record, forgotten>>

Forget(S) ==
  /\ record' = [r \in Request |-> IF r \in S THEN "none" ELSE record[r]]
  /\ forgotten' = forgotten \cup S
  /\ UNCHANGED replied

Next == \/ \E r \in Request : Record(r) \/ Reply(r)
        \/ \E S \in SUBSET Request : Forget(S)

Spec == Init /\ [][Next]_vars
=============================================================================

----------------------------- MODULE GroundedRun ------------------------------
(***************************************************************************)
(* What a run of the agent graph promises, whatever is asked and whatever  *)
(* the planner makes of it: data is read for an entitled user only, a run  *)
(* is completed exactly when its answer rests on data it has read, and a   *)
(* run is denied exactly when the user is not entitled.  A run may break   *)
(* at any time.                                                            *)
(***************************************************************************)
VARIABLES
  entitled,  \* "unknown", "yes" or "no"
  read,      \* whether data was read
  verdict    \* "none", the status of the answer, or "error"

grounds == <<entitled, read, verdict>>

Init == entitled = "unknown" /\ read = FALSE /\ verdict = "none"

(* The user's scope is resolved. *)
Recognise ==
  /\ entitled = "unknown" /\ entitled' \in {"yes", "no"}
  /\ UNCHANGED <<read, verdict>>

Read ==
  /\ verdict = "none" /\ entitled = "yes" /\ read' = TRUE
  /\ UNCHANGED <<entitled, verdict>>

Complete ==
  /\ verdict = "none" /\ read /\ verdict' = "completed"
  /\ UNCHANGED <<entitled, read>>

(* An answer without data; "failed" when an admitted plan cannot be run. *)
Decline ==
  /\ verdict = "none" /\ ~ read /\ entitled = "yes"
  /\ verdict' \in {"onboarding", "clarify", "rejected", "failed"}
  /\ UNCHANGED <<entitled, read>>

Deny ==
  /\ verdict = "none" /\ entitled = "no" /\ verdict' = "denied"
  /\ UNCHANGED <<entitled, read>>

(* The planner or a retrieval raises, the latter with data read or not. *)
Break ==
  /\ verdict = "none" /\ verdict' = "error"
  /\ read' = read \/ (read' = TRUE /\ entitled = "yes")
  /\ UNCHANGED entitled

Next == Recognise \/ Read \/ Complete \/ Decline \/ Deny \/ Break

Spec == Init /\ [][Next]_grounds
=============================================================================

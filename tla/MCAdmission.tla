----------------------------- MODULE MCAdmission -----------------------------
(* An instance of Admission for TLC: the profile 1 of the configured system *)
(* A with two users, and a profile of the system B whose canonical id is 1, *)
(* with a user of its own; C has no row.                                    *)
EXTENDS Admission

CONSTANTS a1, b1, u1, u2, v1, A, B, C, n1, n2

MCSystemOf == [x \in Profile \cup User |-> IF x \in {b1, v1} THEN B ELSE A]
MCKeyOf == [x \in Profile \cup User |-> CASE x = u2 -> 2 [] x = b1 -> 2 [] OTHER -> 1]
MCCanonicalId == [p \in Profile |-> IF p = a1 THEN 2 ELSE 1]

Run(n, u, s)   == [kind |-> "run", nick |-> n, user |-> u, system |-> s]
Admin(n, u, s) == [kind |-> "admin", nick |-> n, user |-> u, system |-> s]
\* Users of either system and of none; a target with a user and without.
MCRequests ==
  {Run(n1, 1, A), Run(n2, 2, A), Run(n2, 1, B), Run(n1, 1, C),
   Admin(NoNick, 0, A), Admin(n1, 2, A), [kind |-> "list"]}
\* Live for ever or until 1, with a nick or without, or out of use.
MCRows == {[nick |-> n1, status |-> "active", until |-> Never],
           [nick |-> NoNick, status |-> "active", until |-> 1],
           [nick |-> n2, status |-> "expired", until |-> Never]}
=============================================================================

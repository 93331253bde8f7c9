---------------------------- MODULE MCIdentitySync ----------------------------
(* Instances of IdentitySync for TLC. *)
EXTENDS IdentitySync, TLC

CONSTANTS A, B, a1, a2, b1, b2, u1, u2, n1, n2

\* Rows are model values: a* are profiles of system A, b* of system B, u* are
\* users of A.  The second of each pair has the larger source id.
MCSystemOf == [x \in RowId |-> IF x \in {b1, b2} THEN B ELSE A]
MCKeyOf == [x \in RowId |-> IF x \in {a1, b1, u1} THEN 1 ELSE 2]
\* profile_1 of A and profile_1 of B are one nick.
MCDefaultNick == [p \in Profile |-> IF p \in {a1, b1} THEN n1 ELSE n2]

\* Two systems whose profiles claim the same nicks, in opposite orders.
MeetContent == [x \in RowId |-> CASE x = a1 -> {n1} [] x = a2 -> {n2}
                                  [] x = b1 -> {n2} [] OTHER  -> {n1, Blank}]

\* One system: profiles that claim one nick, users of either or of none.
StreamContent == [x \in RowId |-> CASE x = a1 -> {n1} [] x = a2 -> {n1, Blank}
                                    [] OTHER  -> {a1, a2, Null}]

SameRuns == Permutations(Run)
=============================================================================

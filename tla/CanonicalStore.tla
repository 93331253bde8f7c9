---------------------------- MODULE CanonicalStore ----------------------------
(***************************************************************************)
(* What the readers of the canonical tables (canonical_profiles with       *)
(* profile_source_maps, canonical_users with canonical_source_maps) may    *)
(* rely on, whoever writes them and in whatever batches: nicks are unique, *)
(* a user has a seat under mapped profiles of its own system only, and     *)
(* what is mapped stays mapped.                                            *)
(***************************************************************************)
CONSTANTS Profile, User, SystemOf, Nick, NoNick

VARIABLES
  nick,  \* [Profile -> Nick \cup {NoNick}]
  seats  \* users under profiles

Seat == {x \in User \X Profile : SystemOf[x[1]] = SystemOf[x[2]]}

Consistent(n, s) ==
  /\ \A p, q \in Profile : p # q /\ n[p] # NoNick => n[p] # n[q]
  /\ \A x \in s : n[x[2]] # NoNick

Init ==
  /\ nick = [p \in Profile |-> NoNick]
  /\ seats = {}

Commit ==
  /\ nick' \in [Profile -> Nick \cup {NoNick}] /\ seats' \in SUBSET Seat
  /\ Consistent(nick', seats')
  /\ \A p \in Profile : nick[p] # NoNick => nick'[p] # NoNick
  /\ seats \subseteq seats'

Spec == Init /\ [][Commit]_<<nick, seats>>
=============================================================================

--------------------------- MODULE CanonicalIdentity ---------------------------
(***************************************************************************)
(* CanonicalIdentityResolver (app/services/canonical_identity.py): what    *)
(* the canonical tables answer for a user id, a profile id and a nick of a *)
(* source system.  A lookup answers with the set of what it finds, which   *)
(* the constraints of the tables keep to one row.                          *)
(***************************************************************************)
EXTENDS Integers, Sequences

CONSTANTS
  Profile, User, \* the source's profiles and users, of all systems
  SystemOf,      \* [Profile \cup User -> source systems]
  KeyOf,         \* [Profile \cup User -> Nat]: their ids at the source
  CanonicalId,   \* [Profile -> Nat]: canonical_profiles.id, given out as rows come
  NoNick

\* The first lookup that finds something answers.
FirstFound(lookups) ==
  UNION {lookups[i] : i \in {j \in DOMAIN lookups : \A k \in 1 .. j - 1 : lookups[k] = {}}}

\* profile_source_maps, and canonical_profiles, whose rows come with them.
MappedProfiles(nick, s, profile_id) ==
  {p \in Profile : SystemOf[p] = s /\ KeyOf[p] = profile_id /\ nick[p] # NoNick}
\* A nick is looked up in all source systems.
NamedProfiles(nick, profile_nick) == {p \in Profile : nick[p] = profile_nick}

\* Mutant of CanonicalProfiles: the nick goes before the maps.
ProfilesByNick(nick, legacy, s, profile_id, profile_nick) ==
  FirstFound(<<{CanonicalId[p] : p \in NamedProfiles(nick, profile_nick)},
               {CanonicalId[p] : p \in MappedProfiles(nick, s, profile_id)},
               {profile_id} \cap legacy>>)

\* _resolve_canonical_profile_id; a profile of the replica that was never
\* mapped stands for itself.
CanonicalProfiles(nick, legacy, s, profile_id, profile_nick) ==
  FirstFound(<<{CanonicalId[p] : p \in MappedProfiles(nick, s, profile_id)},
               {CanonicalId[p] : p \in NamedProfiles(nick, profile_nick)},
               {profile_id} \cap legacy>>)

\* A canonical user is a user id under a canonical profile.
MappedUsers(seats, s, profile_id, user_id) ==
  {<<user_id, CanonicalId[x[2]]>> : x \in
     {y \in seats : /\ SystemOf[y[2]] = s /\ KeyOf[y[2]] = profile_id
                    /\ KeyOf[y[1]] = user_id}}
UsersUnder(seats, canonical_profile_id, user_id) ==
  {<<user_id, CanonicalId[x[2]]>> : x \in
     {y \in seats : CanonicalId[y[2]] = canonical_profile_id /\ KeyOf[y[1]] = user_id}}

\* _resolve_canonical_user_id.
CanonicalUsers(seats, s, canonical_profile_id, profile_id, user_id) ==
  FirstFound(<<MappedUsers(seats, s, profile_id, user_id),
               UsersUnder(seats, canonical_profile_id, user_id)>>)
=============================================================================

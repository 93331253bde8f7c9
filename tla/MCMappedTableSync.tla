-------------------------- MODULE MCMappedTableSync --------------------------
(* Instances of MappedTableSync for TLC: a parent table (profiles), a child *)
(* table (orders, whose rows refer to profiles), a table that cannot be     *)
(* synced (halls), the table of phrases and up to five rows.                *)
EXTENDS MappedTableSync, TLC

CONSTANTS profiles, orders, halls, translate, p1, p2, o1, t1, t2

MCParents == [t \in Table |-> IF t = orders THEN {profiles} ELSE {}]
\* The same with a table between the two.
ChainParents == [t \in Table |-> CASE t = orders -> {profiles, halls}
                                   [] t = halls  -> {profiles}
                                   [] OTHER      -> {}]
MCTableOf == [x \in RowId |-> CASE x = o1         -> orders
                                [] x \in {t1, t2} -> translate
                                [] OTHER          -> profiles]
MCKeyOf   == [x \in RowId |-> IF x \in {p1, o1, t1} THEN 1 ELSE 2]

Version(v, k, rs) == [ver |-> v, kind |-> k, refs |-> rs, phrase |-> ""]
Phrase(v, s) == [Version(v, "ok", {}) EXCEPT !.phrase = s]

\* Rows of every kind the target or the sync can refuse; p2 can be repaired.
\* The first id of the table of phrases changes its phrase, the second has
\* either.
MixedContent ==
  [x \in RowId |->
     CASE x = p1 -> {Version(1, "ok", {}), Version(1, "badBool", {})}
       [] x = p2 -> {Version(1, "poison", {}), Version(2, "ok", {})}
       [] x = o1 -> {Version(1, "ok", {p2})}
       [] x = t1 -> {Phrase(1, "a"), Phrase(2, "b"), Version(1, "badPk", {})}
       [] OTHER  -> {Phrase(1, "a"), Phrase(1, "b"), Version(1, "reject", {})}]

\* The first parent is edited after it appears; the second has a bad boolean;
\* both ids of the table of phrases have the same one.
EditedContent ==
  [x \in RowId |-> CASE x = p1 -> {Version(1, "ok", {}), Version(2, "ok", {})}
                     [] x = p2 -> {Version(1, "badBool", {})}
                     [] x = o1 -> {Version(1, "ok", {p1})}
                     [] x = t1 -> {Phrase(1, "a")}
                     [] OTHER  -> {Phrase(1, "a"), Phrase(1, "b")}]

Full    == [include |-> {}, exclude |-> {}, limit |-> 0]
\* make sync-toon-smartrest-step table=translate
StepPhrases == [include |-> {translate}, exclude |-> {}, limit |-> 1]
SkipHalls  == [include |-> {}, exclude |-> {halls}, limit |-> 0]
Phrases    == [include |-> {translate}, exclude |-> {}, limit |-> 0]
Records    == [include |-> {}, exclude |-> {translate}, limit |-> 0]

\* Runs differ in nothing but their identity.
SameRuns == Permutations(Run)

\* Both runs have the same command line, and rows of tables that it does not
\* select stay away.
SameTables ==
  \E p \in Params : /\ params = [r \in Run |-> p]
                    /\ \A x \in Present(source) : TableOf[x] \in Selected(p)

\* Rows of the table of phrases and other rows are looked at apart: nothing
\* refers to a phrase.
Separately ==
  {TableOf[x] = translate : x \in Present(source)} # BOOLEAN

OverlapRuns == {Phrases, Records}
ChainRuns == {Full, StepPhrases, SkipHalls}
=============================================================================

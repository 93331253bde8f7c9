------------------------------ MODULE MCFkOrder ------------------------------
(* Every schema of three tables and up to three constraints among them, and *)
(* every selection of those tables.                                         *)
EXTENDS FkOrder, TLC

\* A schema is the same whatever its tables and constraints are called.
Renamed == Permutations(Table) \cup Permutations(Constraint)
=============================================================================

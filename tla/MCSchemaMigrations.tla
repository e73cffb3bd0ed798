------------------------- MODULE MCSchemaMigrations -------------------------
(* Model values for SchemaMigrations. *)
EXTENDS SchemaMigrations, TLC

CONSTANTS m1, m2, r1, r2

\* A price of no product
DirtDef == {<<"prices", "orphans">>}

\* Without a lock, two calls that overtake each other and a third or a death; with
\* it, also a call that goes on after a death and an error
TriesDef == [d \in Dialects |-> IF d = "sqlite" THEN 3 ELSE 4]

Symmetry == Permutations(Migrator) \cup Permutations(Row)

=============================================================================

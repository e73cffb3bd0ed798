------------------------ MODULE MCCatalogPersistence ------------------------
(***************************************************************************)
(* Symmetry of CatalogPersistence for TLC, which also decides the laws of   *)
(* SchemaLaws here.  They hold of the steps as they are; the run of         *)
(* SchemaMigrations does without them, so that a step which breaks a law    *)
(* shows there by what comes of it.                                         *)
(***************************************************************************)
EXTENDS CatalogPersistence, SchemaLaws, TLC

Symmetry == Permutations(Call) \cup Permutations(State)

=============================================================================

---------------------------- MODULE MCCatalogSync ----------------------------
(* Model values for CatalogSync. *)
EXTENDS CatalogSync, TLC

CONSTANTS w1, w2, c1

Everything == [r \in Resource |-> Operation]
\* With native idempotency, without, and without and for prices only.
MCProviders ==
    {[native |-> TRUE, reads |-> TRUE, supports |-> Everything],
     [native |-> FALSE, reads |-> TRUE, supports |-> Everything],
     [native |-> FALSE, reads |-> FALSE,
      supports |-> [product |-> {"update"}, price |-> Operation]]}

Symmetry == Permutations(Worker)

=============================================================================

---------------------------- MODULE MCAuditChain ----------------------------
(* Model values for AuditChain. *)
EXTENDS AuditChain, TLC

CONSTANTS c1, c2, b1, b2, v1, l1, l2

MCLegacy == <<l1, l2>>
\* A call of its own, and business transactions on stores whose nested append
\* retries on a savepoint, in an aborted transaction, or on a snapshot.
MCModes ==
    {[nested |-> FALSE, retry |-> "fresh"]} \cup
    {[nested |-> TRUE, retry |-> r] : r \in {"fresh", "aborted", "snapshot"}}

Symmetry == Permutations(Call) \cup Permutations(Backfiller)

=============================================================================

--------------------------- MODULE MCIdempotency ---------------------------
(***************************************************************************)
(* Instances of Idempotency for TLC: calls with the same request, one with *)
(* another request under the same key, and the settings the code's callers *)
(* use.                                                                    *)
(***************************************************************************)
EXTENDS Idempotency, TLC

CONSTANTS h1, h2, Same, Other

MCExecution == Same \cup Other
MCHash == {h1, h2}
MCRequestHash == [e \in MCExecution |-> IF e \in Same THEN h1 ELSE h2]
Symmetry == Permutations(Same)

\* A retry policy that reclaims stale records, with a short retention
Retrying ==
    [failurePolicy |-> "default", retryFailed |-> TRUE,
     reclaimStaleProcessing |-> TRUE, reportsCertainty |-> TRUE,
     completedTtl |-> 2]
\* reconciliation-required, within the retention of a completion
Reconciling ==
    [failurePolicy |-> "reconciliation-required", retryFailed |-> TRUE,
     reclaimStaleProcessing |-> TRUE, reportsCertainty |-> FALSE,
     completedTtl |-> MaxTime + 1]
\* reconciliation-required with failures known to have had no effect
ReconcilingCertain == [Reconciling EXCEPT !.reportsCertainty = TRUE]

AllSettings == {Retrying, Reconciling, ReconcilingCertain}

=============================================================================

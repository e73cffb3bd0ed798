------------------------------ MODULE MCOutbox ------------------------------
(***************************************************************************)
(* Instances of Outbox for TLC: a tenant with a backlog, and a second one. *)
(***************************************************************************)
EXTENDS Outbox, TLC

CONSTANTS t1, t2, Backlog, Rest

MCEvent == Backlog \cup Rest
MCTenant == {t1, t2}
MCTenantOf == [e \in MCEvent |-> IF e \in Backlog THEN t1 ELSE t2]
Symmetry == Permutations(Worker) \cup Permutations(Backlog)

\* What fairlyOrdered promises of its result: it fills the batch with rows of
\* the candidates 1..n, in their order within a tenant, and at no point is a
\* tenant two rows ahead of one that still has a row waiting.
IsFairOrder(taken, n, tenantOf, limit) ==
    LET served(k, t) == Cardinality({i \in 1..k : tenantOf[taken[i]] = t})
    IN  /\ Len(taken) = Min({limit, n})
        /\ \A i, j \in DOMAIN taken :
               i < j /\ tenantOf[taken[i]] = tenantOf[taken[j]] => taken[i] < taken[j]
        /\ \A k \in DOMAIN taken, s, t \in {tenantOf[e] : e \in 1..n} :
               served(k, s) > served(k, t) + 1 =>
                   served(k, t) = Cardinality({e \in 1..n : tenantOf[e] = t})

\* For every list of up to five candidates of up to three tenants.
ASSUME FairOrderAssumption ==
    \A n \in 0..5 : \A tenantOf \in [1..n -> 1..3], limit \in 0..6 :
        IsFairOrder(FairlyOrdered(1..n, [e \in 1..n |-> e], tenantOf, limit),
                    n, tenantOf, limit)

\* No delay is zero, so that a retry lies in the future.
ASSUME RetryAssumption == RetriesLieAhead

=============================================================================

----------------------------- MODULE FairOrder -----------------------------
(***************************************************************************)
(* fairlyOrdered(): the rows a claim takes from its candidates, a round    *)
(* robin over their tenants.  The source fills one bucket per tenant and   *)
(* shifts the head off one bucket after the other; here a candidate's turn *)
(* is the round in which its bucket reaches it, then its bucket.  An order *)
(* is a set of pairs, the earlier element first.                           *)
(***************************************************************************)
EXTENDS Integers, Sequences, FiniteSets, FiniteSetsExt

\* The number of elements of S that come before x
Place(x, S, order) == Cardinality({y \in S : <<y, x>> \in order})

FirstOf(n, S, order) == {x \in S : Place(x, S, order) < n}

InOrder(S, order) ==
    [k \in 1..Cardinality(S) |-> CHOOSE x \in S : Place(x, S, order) = k - 1]

\* Buckets are visited in the order their first rows were seen
TurnOrder(candidates, createdAt, tenantOf) ==
    LET bucket(e) == {f \in candidates : tenantOf[f] = tenantOf[e]}
        round(e) == Cardinality({f \in bucket(e) : createdAt[f] <= createdAt[e]})
        seenFirst(e, f) ==
            \E g \in bucket(e) : \A h \in bucket(f) : createdAt[g] < createdAt[h]
    IN  {p \in candidates \X candidates :
            \/ round(p[1]) < round(p[2])
            \/ round(p[1]) = round(p[2]) /\ seenFirst(p[1], p[2])}

\* The candidates a claim takes, in the order it takes them
FairlyOrdered(candidates, createdAt, tenantOf, limit) ==
    LET turns == TurnOrder(candidates, createdAt, tenantOf)
    IN  InOrder(FirstOf(limit, candidates, turns), turns)

=============================================================================

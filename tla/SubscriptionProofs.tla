------------------------- MODULE SubscriptionProofs -------------------------
(***************************************************************************)
(* Three parts.  The mutation claim is a fence, for any number of          *)
(* attempts, migrations, prices and faults: Spec implements MutationFence, *)
(* the claim and the migration agree about who is in flight, and no        *)
(* migration is carried out twice; the three follow from one inductive     *)
(* invariant.                                                              *)
(*                                                                         *)
(* On it rests what becomes of the item of a subscription that is linked   *)
(* to the catalog: only a verdict moves it, and while nobody holds the     *)
(* claim it is the provider's.  The invariant says how far the provider    *)
(* may be ahead of the row: by the one item the holder asked for.          *)
(*                                                                         *)
(* And what SubscriptionItems decides, for lists of every length: a        *)
(* pairing is one-to-one, a line keeps the provider item it already names, *)
(* and no two rows come to name one provider item.  The ranks by which     *)
(* interchangeable lines are paired are where this could go wrong: two     *)
(* lines of one group must never have one rank.                            *)
(***************************************************************************)
EXTENDS PriceMigrations, SubscriptionItems, FiniteSetTheorems, SequenceTheorems, TLAPS

RunFields == {"pc", "op", "read", "item", "want", "answer", "stale"}
RowFields == {"status", "timing", "source", "target", "period", "active", "token",
              "recorded", "observed"}

\* What kinds of values the steps below read and write
Shapes ==
    /\ fence \in Attempt \cup {NoAttempt}
    /\ truth \in [Attempt -> BOOLEAN]
    /\ log \in [Attempt -> {"none", "applied", "not_applied"}]
    /\ serves \in [Attempt -> Migration \cup {NoMigration}]
    /\ run = [a \in Attempt |-> run[a]]
    /\ \A a \in Attempt : DOMAIN run[a] = RunFields
    /\ mig = [m \in Migration |-> mig[m]]
    /\ \A m \in Migration : DOMAIN mig[m] = RowFields
    /\ \A m \in Migration : mig[m].token \in Attempt \cup {NoAttempt}

\* What a call knows of the claim and of the provider, by how far it got
Calls ==
    \A a \in Attempt :
       /\ run[a].pc \in {"idle", "resolved", "selected"}
             => ~truth[a] /\ log[a] = "none" /\ fence # a /\ serves[a] = NoMigration
       /\ run[a].pc = "calling" => fence = a /\ ~truth[a]
       /\ run[a].pc = "answered" => truth[a]
       /\ run[a].pc = "refused" => ~truth[a]
       /\ run[a].op \in Operation => serves[a] = NoMigration
       /\ run[a].op = "migrate" => serves[a] \in Migration

\* What a row with an execution token says of the attempt that holds it
Rows ==
    \A m \in Migration :
       /\ mig[m].token # NoAttempt => serves[mig[m].token] = m
       /\ InFlight(m) => fence = mig[m].token /\ fence # NoAttempt /\ mig[m].active
       /\ mig[m].status = "pending_renewal" => truth[mig[m].token]

\* What the claim and the provider's effect say of the row
Owner(a) ==
    /\ fence = a => mig[serves[a]].token = a /\ InFlight(serves[a])
    /\ truth[a] => /\ mig[serves[a]].token = a
                   /\ InFlight(serves[a]) \/ mig[serves[a]].status = "applied"

Owners == \A a \in Attempt : serves[a] # NoMigration => Owner(a)

FenceInv == Shapes /\ Calls /\ Rows /\ Owners

----------------------------------------------------------------------------

LEMMA FenceInvInit == MigInit => FenceInv
<1> SUFFICES ASSUME MigInit PROVE FenceInv
    OBVIOUS
<1> USE SubscriptionAssumption, MigrationAssumption DEF MigInit, Init
<1>1. Shapes
    BY DEF Shapes, Idle, Call, NoRow, Row, RunFields, RowFields
<1>2. Calls
    BY DEF Calls, Idle, Call, AllOperations
<1>3. Rows
    BY DEF Rows, NoRow, Row, InFlight
<1>4. Owners
    BY DEF Owners
<1> QED
    BY <1>1, <1>2, <1>3, <1>4 DEF FenceInv

----------------------------------------------------------------------------
(* How a step moves one call or one row: the others stay where they are.   *)

Moved(a, pcs, ops) ==
    /\ run' = [b \in Attempt |-> run'[b]]
    /\ DOMAIN run'[a] = RunFields
    /\ run'[a].pc \in pcs
    /\ run'[a].op \in ops
    /\ \A b \in Attempt \ {a} : run'[b] = run[b]

RowMoved(m, to, next) ==
    /\ mig' = [n \in Migration |-> mig'[n]]
    /\ DOMAIN mig'[m] = RowFields
    /\ mig'[m].status = to
    /\ mig'[m].token = next
    /\ (to = "executing" \/ (mig[m].active /\ to \in {"pending_renewal", "reconciliation_required"}))
          => mig'[m].active
    /\ \A n \in Migration \ {m} : mig'[n] = mig[n]

LEMMA EndsMoves ==
    ASSUME Shapes, NEW a \in Attempt, Ends(a)
    PROVE  Moved(a, {"ended"}, {"none"})
    BY DEF Shapes, Ends, Idle, Call, RunFields, Moved

LEMMA LeavesClaimMoves ==
    ASSUME Shapes, NEW a \in Attempt, LeavesClaim(a)
    PROVE  Moved(a, {"ended"}, {run[a].op})
    BY DEF Shapes, LeavesClaim, RunFields, Moved

LEMMA SwappedMoves ==
    ASSUME Shapes, NEW m \in Migration, NEW to, NEW next, mig' = Swapped(m, to, next)
    PROVE  RowMoved(m, to, next)
    BY DEF Shapes, Swapped, RowFields, RowMoved

LEMMA ResolvedMoves ==
    ASSUME Shapes, NEW m \in Migration, NEW to, NEW outcome, NEW active, NEW next,
           mig' = Resolved(m, to, outcome, active, next)
    PROVE  /\ mig' = [n \in Migration |-> mig'[n]]
           /\ DOMAIN mig'[m] = RowFields
           /\ mig'[m].status = to /\ mig'[m].active = active /\ mig'[m].token = next
           /\ \A n \in Migration \ {m} : mig'[n] = mig[n]
<1>1. mig' = [n \in Migration |-> mig'[n]] /\ \A n \in Migration \ {m} : mig'[n] = mig[n]
    BY DEF Shapes, Resolved
<1>2. DOMAIN mig'[m] = RowFields
    BY DEF Shapes, Resolved, RowFields
<1>3. mig'[m].status = to /\ mig'[m].active = active
    BY DEF Shapes, Resolved, RowFields
<1>4. mig'[m].token = next
    BY DEF Shapes, Resolved, RowFields
<1> QED
    BY <1>1, <1>2, <1>3, <1>4

\* A step of a call that executes no migration leaves the rows as they were,
\* and their owners
LEMMA DirectKeeps ==
    ASSUME Rows, Owners, Calls, NEW a \in Attempt, serves[a] = NoMigration, NoAttempt \notin Attempt,
           \A m \in Migration : mig[m].token \in Attempt \cup {NoAttempt},
           UNCHANGED <<mig, serves>>,
           \A b \in Attempt \ {a} : truth'[b] = truth[b] /\ (fence' = b <=> fence = b)
    PROVE  Rows' /\ Owners'
<1>1. Rows'
    BY MigrationAssumption DEF Rows, InFlight
<1>2. Owners'
    BY DEF Owners, Owner, InFlight
<1> QED
    BY <1>1, <1>2

----------------------------------------------------------------------------
(* The steps of a direct mutation.                                         *)

LEMMA ResolveKeeps ==
    ASSUME FenceInv, NEW a \in Attempt, NEW op \in Operation, Resolve(a, op), UNCHANGED <<mig, serves>>
    PROVE  FenceInv'
<1> USE SubscriptionAssumption, MigrationAssumption DEF FenceInv
<1>1. run[a].pc = "idle" /\ Moved(a, {"resolved"}, {op})
  <2>1. PICK read, item, want : run' = [run EXCEPT ![a] = Call("resolved", op, read, item, want)]
    BY DEF Resolve
  <2> QED
    BY <2>1 DEF Resolve, Call, Shapes, RunFields, Moved
<1>2. serves[a] = NoMigration
    BY <1>1 DEF Calls
<1>3. UNCHANGED <<fence, truth, log>>
    BY DEF Resolve
<1>4. Shapes'
    BY <1>1, <1>3 DEF Shapes, Moved
<1>5. Calls'
    BY <1>1, <1>2, <1>3 DEF Calls, Shapes, AllOperations, Moved
<1>6. \A b \in Attempt \ {a} : truth'[b] = truth[b] /\ (fence' = b <=> fence = b)
    BY <1>1, <1>3 DEF Shapes
<1> QED
    BY <1>2, <1>4, <1>5, <1>6, DirectKeeps DEF Shapes

LEMMA SelectKeeps ==
    ASSUME FenceInv, NEW a \in Attempt, NEW migrating \in BOOLEAN, Select(a, migrating), UNCHANGED <<mig, serves>>
    PROVE  FenceInv'
<1> USE SubscriptionAssumption, MigrationAssumption DEF FenceInv
<1>1. run[a].pc = "resolved" /\ Moved(a, {"selected", "ended"}, {run[a].op, "none"})
  <2>1. CASE Selectable(a, migrating)
    <3>1. PICK item : run' = [run EXCEPT ![a].pc = "selected", ![a].item = item]
      BY <2>1 DEF Select
    <3> QED
      BY <3>1 DEF Select, Shapes, RunFields, Moved
  <2>2. CASE ~Selectable(a, migrating)
    BY <2>2, EndsMoves DEF Select, Moved
  <2> QED
    BY <2>1, <2>2
<1>2. serves[a] = NoMigration
    BY <1>1 DEF Calls
<1>3. UNCHANGED <<fence, truth, log>>
    BY DEF Select
<1>4. Shapes'
    BY <1>1, <1>3 DEF Shapes, Moved
<1>5. Calls'
    BY <1>1, <1>2, <1>3 DEF Calls, Shapes, AllOperations, Moved
<1>6. \A b \in Attempt \ {a} : truth'[b] = truth[b] /\ (fence' = b <=> fence = b)
    BY <1>1, <1>3 DEF Shapes
<1> QED
    BY <1>2, <1>4, <1>5, <1>6, DirectKeeps DEF Shapes

LEMMA ClaimKeeps ==
    ASSUME FenceInv, NEW a \in Attempt, Claim(a), UNCHANGED <<mig, serves>>
    PROVE  FenceInv'
<1> USE SubscriptionAssumption, MigrationAssumption DEF FenceInv
<1>1. /\ run[a].pc = "selected"
      /\ IF fence = NoAttempt THEN fence' = a /\ Moved(a, {"calling"}, {run[a].op})
         ELSE UNCHANGED fence /\ Moved(a, {"ended"}, {"none"})
  <2>1. CASE fence = NoAttempt
    BY <2>1 DEF Claim, Shapes, RunFields, Moved
  <2>2. CASE fence # NoAttempt
    BY <2>2, EndsMoves DEF Claim
  <2> QED
    BY <2>1, <2>2 DEF Claim
<1>2. serves[a] = NoMigration
    BY <1>1 DEF Calls
<1>3. UNCHANGED <<truth, log>>
    BY DEF Claim
<1>4. Shapes'
    BY <1>1, <1>3 DEF Shapes, Moved
<1>5. Calls'
    BY <1>1, <1>2, <1>3 DEF Calls, Shapes, AllOperations, Moved
<1>6. \A b \in Attempt \ {a} : truth'[b] = truth[b] /\ (fence' = b <=> fence = b)
    BY <1>1, <1>3 DEF Shapes
<1> QED
    BY <1>2, <1>4, <1>5, <1>6, DirectKeeps DEF Shapes

LEMMA CallProviderKeeps ==
    ASSUME FenceInv, NEW a \in Attempt, run[a].op \in Operation, CallProvider(a), UNCHANGED <<mig, serves>>
    PROVE  FenceInv'
<1> USE SubscriptionAssumption, MigrationAssumption DEF FenceInv
<1>1. run[a].pc = "calling" /\ Moved(a, {"answered"}, {run[a].op})
    BY DEF CallProvider, Shapes, RunFields, Moved
<1>2. serves[a] = NoMigration
    BY <1>1 DEF Calls
<1>3. UNCHANGED <<fence, log>> /\ truth' = [truth EXCEPT ![a] = TRUE]
    BY DEF CallProvider
<1>4. Shapes'
    BY <1>1, <1>3 DEF Shapes, Moved
<1>5. Calls'
    BY <1>1, <1>2, <1>3 DEF Calls, Shapes, AllOperations, Moved
<1>6. \A b \in Attempt \ {a} : truth'[b] = truth[b] /\ (fence' = b <=> fence = b)
    BY <1>1, <1>3 DEF Shapes
<1> QED
    BY <1>2, <1>4, <1>5, <1>6, DirectKeeps DEF Shapes

LEMMA CallThrowsKeeps ==
    ASSUME FenceInv, NEW a \in Attempt, run[a].op \in Operation, CallThrows(a), UNCHANGED <<mig, serves>>
    PROVE  FenceInv'
<1> USE SubscriptionAssumption, MigrationAssumption DEF FenceInv
<1>1. run[a].pc = "calling" /\ Moved(a, {"ended"}, {run[a].op})
    BY LeavesClaimMoves DEF CallThrows
<1>2. serves[a] = NoMigration
    BY <1>1 DEF Calls
<1>3. UNCHANGED <<fence, log>> /\ (truth' = truth \/ truth' = [truth EXCEPT ![a] = TRUE])
    BY DEF CallThrows
<1>4. Shapes'
    BY <1>1, <1>3 DEF Shapes, Moved
<1>5. Calls'
    BY <1>1, <1>2, <1>3 DEF Calls, Shapes, AllOperations, Moved
<1>6. \A b \in Attempt \ {a} : truth'[b] = truth[b] /\ (fence' = b <=> fence = b)
    BY <1>1, <1>3 DEF Shapes
<1> QED
    BY <1>2, <1>4, <1>5, <1>6, DirectKeeps DEF Shapes

LEMMA PersistKeeps ==
    ASSUME FenceInv, NEW a \in Attempt, run[a].op \in Operation, Persist(a), UNCHANGED <<mig, serves>>
    PROVE  FenceInv'
<1> USE SubscriptionAssumption, MigrationAssumption DEF FenceInv
<1>1. run[a].pc = "answered" /\ Moved(a, {"ended"}, {"none"})
    BY EndsMoves DEF Persist
<1>2. serves[a] = NoMigration
    BY <1>1 DEF Calls
<1>3. /\ UNCHANGED truth
      /\ IF fence = a THEN fence' = NoAttempt /\ log' = [log EXCEPT ![a] = "applied"]
         ELSE UNCHANGED <<fence, log>>
    BY DEF Persist
<1>4. Shapes'
    BY <1>1, <1>3 DEF Shapes, Moved
<1>5. Calls'
    BY <1>1, <1>2, <1>3 DEF Calls, Shapes, AllOperations, Moved
<1>6. \A b \in Attempt \ {a} : truth'[b] = truth[b] /\ (fence' = b <=> fence = b)
    BY <1>1, <1>3 DEF Shapes
<1> QED
    BY <1>2, <1>4, <1>5, <1>6, DirectKeeps DEF Shapes

LEMMA DiesKeeps ==
    ASSUME FenceInv, NEW a \in Attempt, run[a].op \in Operation, Dies(a), UNCHANGED <<mig, serves>>
    PROVE  FenceInv'
<1> USE SubscriptionAssumption, MigrationAssumption DEF FenceInv
<1>1. run[a].pc \in {"resolved", "selected", "answered"} /\ Moved(a, {"ended"}, {"none", run[a].op})
    BY EndsMoves, LeavesClaimMoves DEF Dies, Moved
<1>2. serves[a] = NoMigration
    BY <1>1 DEF Calls
<1>3. UNCHANGED <<fence, truth, log>>
    BY DEF Dies
<1>4. Shapes'
    BY <1>1, <1>3 DEF Shapes, Moved
<1>5. Calls'
    BY <1>1, <1>2, <1>3 DEF Calls, Shapes, AllOperations, Moved
<1>6. \A b \in Attempt \ {a} : truth'[b] = truth[b] /\ (fence' = b <=> fence = b)
    BY <1>1, <1>3 DEF Shapes
<1> QED
    BY <1>2, <1>4, <1>5, <1>6, DirectKeeps DEF Shapes

LEMMA ResolveClaimKeeps ==
    ASSUME FenceInv, NEW a \in Attempt, ResolveClaim(a), UNCHANGED <<mig, serves>>
    PROVE  FenceInv'
<1> USE SubscriptionAssumption, MigrationAssumption DEF FenceInv
<1>1. run[a].op \in Operation /\ run[a].pc # "calling" /\ fence = a /\ Moved(a, {run[a].pc}, {run[a].op})
    BY DEF ResolveClaim, Shapes, RunFields, Moved
<1>2. serves[a] = NoMigration
    BY <1>1 DEF Calls
<1>3. /\ UNCHANGED truth /\ fence' = NoAttempt
      /\ \E v \in {"applied", "not_applied"} : log' = [log EXCEPT ![a] = v]
    BY DEF ResolveClaim, Truthful
<1>4. Shapes'
    BY <1>1, <1>3 DEF Shapes, Moved
<1>5. Calls'
    BY <1>1, <1>2, <1>3 DEF Calls, Shapes, AllOperations, Moved
<1>6. \A b \in Attempt \ {a} : truth'[b] = truth[b] /\ (fence' = b <=> fence = b)
    BY <1>1, <1>3 DEF Shapes
<1> QED
    BY <1>2, <1>4, <1>5, <1>6, DirectKeeps DEF Shapes

----------------------------------------------------------------------------
(* The steps of a migration.                                               *)

\* The attempt that holds a row's token may move it: nobody else owns it
LEMMA HolderMoves ==
    ASSUME Shapes, Rows, Owners, NEW a \in Attempt, NEW m \in Migration, NEW to, NEW next,
           mig[m].token = a, serves[a] = m, RowMoved(m, to, next), UNCHANGED <<truth, serves>>,
           fence' = fence \/ fence' = NoAttempt, NoAttempt \notin Attempt, Owner(a)'
    PROVE  Owners'
<1> SUFFICES ASSUME NEW b \in Attempt \ {a}, serves[b] # NoMigration
             PROVE  Owner(b)'
    BY DEF Owners
<1>1. (truth'[b] = truth[b]) /\ (fence' = b => fence = b) /\ serves'[b] = serves[b]
    OBVIOUS
<1>2. CASE serves[b] = m
    BY <1>1, <1>2 DEF Owners, Owner
<1>3. CASE serves[b] # m
  <2>1. mig'[serves[b]] = mig[serves[b]]
    BY <1>3 DEF Shapes, RowMoved
  <2> QED
    BY <2>1, <1>1 DEF Owners, Owner, InFlight
<1> QED
    BY <1>2, <1>3

LEMMA PreviewKeeps ==
    ASSUME FenceInv, NEW m \in Migration, Preview(m)
    PROVE  FenceInv'
<1> USE SubscriptionAssumption, MigrationAssumption DEF FenceInv
<1>1. mig[m].status = "none" /\ RowMoved(m, "previewed", NoAttempt)
  <2>1. PICK timing, item, target, period :
           mig' = [mig EXCEPT ![m] = Row("previewed", timing, item, target, period, TRUE)]
    BY DEF Preview
  <2> QED
    BY <2>1 DEF Preview, Row, Shapes, RowFields, RowMoved
<1>3. UNCHANGED <<fence, truth, log, run, serves>>
    BY DEF Preview, vars
<1>4. Shapes'
    BY <1>1, <1>3 DEF Shapes, Moved, RowMoved
<1>5. Calls'
    BY <1>1, <1>3 DEF Calls, Shapes, Rows, InFlight, AllOperations, Moved
<1>6. Rows'
    BY <1>1, <1>3 DEF Rows, Calls, Shapes, InFlight, RowMoved
<1>7. Owners'
  <2>1. \A b \in Attempt : serves[b] = m => ~truth[b] /\ fence # b
    BY <1>1 DEF Owners, Owner, InFlight
  <2> SUFFICES ASSUME NEW b \in Attempt, serves[b] # NoMigration
               PROVE  Owner(b)'
    BY <1>3 DEF Owners
  <2>2. CASE serves[b] = m
    BY <2>1, <2>2, <1>3 DEF Owner
  <2>3. CASE serves[b] # m
    <3>1. mig'[serves[b]] = mig[serves[b]]
      BY <2>3, <1>1 DEF Shapes, RowMoved
    <3> QED
      BY <3>1, <1>3 DEF Owners, Owner, InFlight
  <2> QED
    BY <2>2, <2>3
<1> QED
    BY <1>4, <1>5, <1>6, <1>7

LEMMA ScheduleKeeps ==
    ASSUME FenceInv, NEW m \in Migration, Schedule(m)
    PROVE  FenceInv'
<1> USE SubscriptionAssumption, MigrationAssumption DEF FenceInv
<1>1. mig[m].status = "previewed" /\ RowMoved(m, "scheduled", NoAttempt)
    BY SwappedMoves DEF Schedule, Swaps
<1>3. UNCHANGED <<fence, truth, log, run, serves>>
    BY DEF Schedule, vars
<1>4. Shapes'
    BY <1>1, <1>3 DEF Shapes, Moved, RowMoved
<1>5. Calls'
    BY <1>1, <1>3 DEF Calls, Shapes, Rows, InFlight, AllOperations, Moved
<1>6. Rows'
    BY <1>1, <1>3 DEF Rows, Calls, Shapes, InFlight, RowMoved
<1>7. Owners'
  <2>1. \A b \in Attempt : serves[b] = m => ~truth[b] /\ fence # b
    BY <1>1 DEF Owners, Owner, InFlight
  <2> SUFFICES ASSUME NEW b \in Attempt, serves[b] # NoMigration
               PROVE  Owner(b)'
    BY <1>3 DEF Owners
  <2>2. CASE serves[b] = m
    BY <2>1, <2>2, <1>3 DEF Owner
  <2>3. CASE serves[b] # m
    <3>1. mig'[serves[b]] = mig[serves[b]]
      BY <2>3, <1>1 DEF Shapes, RowMoved
    <3> QED
      BY <3>1, <1>3 DEF Owners, Owner, InFlight
  <2> QED
    BY <2>2, <2>3
<1> QED
    BY <1>4, <1>5, <1>6, <1>7

LEMMA CancelMigrationKeeps ==
    ASSUME FenceInv, NEW m \in Migration, CancelMigration(m)
    PROVE  FenceInv'
<1> USE SubscriptionAssumption, MigrationAssumption DEF FenceInv
<1>1. mig[m].status \in {"previewed", "scheduled", "failed"} /\ RowMoved(m, "cancelled", NoAttempt)
    BY SwappedMoves DEF CancelMigration
<1>3. UNCHANGED <<fence, truth, log, run, serves>>
    BY DEF CancelMigration, vars
<1>4. Shapes'
    BY <1>1, <1>3 DEF Shapes, Moved, RowMoved
<1>5. Calls'
    BY <1>1, <1>3 DEF Calls, Shapes, Rows, InFlight, AllOperations, Moved
<1>6. Rows'
    BY <1>1, <1>3 DEF Rows, Calls, Shapes, InFlight, RowMoved
<1>7. Owners'
  <2>1. \A b \in Attempt : serves[b] = m => ~truth[b] /\ fence # b
    BY <1>1 DEF Owners, Owner, InFlight
  <2> SUFFICES ASSUME NEW b \in Attempt, serves[b] # NoMigration
               PROVE  Owner(b)'
    BY <1>3 DEF Owners
  <2>2. CASE serves[b] = m
    BY <2>1, <2>2, <1>3 DEF Owner
  <2>3. CASE serves[b] # m
    <3>1. mig'[serves[b]] = mig[serves[b]]
      BY <2>3, <1>1 DEF Shapes, RowMoved
    <3> QED
      BY <3>1, <1>3 DEF Owners, Owner, InFlight
  <2> QED
    BY <2>2, <2>3
<1> QED
    BY <1>4, <1>5, <1>6, <1>7

LEMMA BeginKeeps ==
    ASSUME FenceInv, NEW a \in Attempt, NEW m \in Migration, Begin(a, m)
    PROVE  FenceInv'
<1> USE SubscriptionAssumption, MigrationAssumption DEF FenceInv
<1>1. /\ mig[m].status \in {"previewed", "scheduled", "failed"} /\ fence = NoAttempt
      /\ RowMoved(m, "executing", a)
    BY SwappedMoves DEF Begin, Startable
<1>2. run[a].pc = "idle" /\ Moved(a, {"calling"}, {"migrate"})
    BY DEF Begin, Call, Shapes, RunFields, Moved
<1>3. /\ UNCHANGED <<truth, log>> /\ fence' = a
      /\ serves' = [serves EXCEPT ![a] = m]
    BY DEF Begin
<1>4. Shapes'
    BY <1>1, <1>2, <1>3 DEF Shapes, Moved, RowMoved
<1>5. Calls'
    BY <1>1, <1>2, <1>3 DEF Calls, Shapes, Rows, InFlight, AllOperations, Moved
<1>6. Rows'
    BY <1>1, <1>2, <1>3 DEF Rows, Calls, Shapes, InFlight, RowMoved
<1>7. Owners'
  <2>1. \A b \in Attempt : serves[b] = m => ~truth[b]
    BY <1>1 DEF Owners, Owner, InFlight
  <2>2. \A b \in Attempt \ {a} : serves'[b] = serves[b] /\ fence' # b
    BY <1>3 DEF Shapes
  <2>3. ~truth[a] /\ serves'[a] = m
    BY <1>2, <1>3 DEF Calls, Shapes
  <2>4. Owner(a)'
    BY <2>3, <1>1, <1>3 DEF Owner, InFlight, RowMoved
  <2>5. ASSUME NEW b \in Attempt \ {a}, serves'[b] # NoMigration
        PROVE  Owner(b)'
    <3>1. CASE serves[b] = m
      BY <3>1, <2>1, <2>2, <1>3 DEF Owner
    <3>2. CASE serves[b] # m
      <4>1. serves[b] # NoMigration /\ mig'[serves[b]] = mig[serves[b]]
        BY <3>2, <2>2, <2>5, <1>1 DEF Shapes, RowMoved
      <4> QED
        BY <4>1, <2>2, <1>3, <1>1 DEF Owners, Owner, InFlight
    <3> QED
      BY <3>1, <3>2
  <2> QED
    BY <2>4, <2>5 DEF Owners
<1> QED
    BY <1>4, <1>5, <1>6, <1>7

LEMMA MigrationCallKeeps ==
    ASSUME FenceInv, NEW a \in Attempt, MigrationCall(a)
    PROVE  FenceInv'
<1> USE SubscriptionAssumption, MigrationAssumption DEF FenceInv
<1>1. run[a].op = "migrate" /\ run[a].pc = "calling"
    BY DEF MigrationCall
<1>2. \/ truth' = truth /\ Moved(a, {"refused", "unknown", "ended"}, {"migrate"})
      \/ truth' = [truth EXCEPT ![a] = TRUE] /\ Moved(a, {"answered", "unknown", "ended"}, {"migrate"})
    BY DEF MigrationCall, LostAnswer, Shapes, RunFields, Moved
<1>3. UNCHANGED <<fence, log, mig, serves>>
    BY DEF MigrationCall
<1>4. Shapes'
    BY <1>1, <1>2, <1>3 DEF Shapes, Moved, RowMoved
<1>5. Calls'
    BY <1>1, <1>2, <1>3 DEF Calls, Shapes, Rows, InFlight, AllOperations, Moved
<1>6. Rows'
    BY <1>1, <1>2, <1>3 DEF Rows, Calls, Shapes, InFlight, RowMoved
<1>7. Owners'
  <2>1. fence = a /\ serves[a] \in Migration
    BY <1>1 DEF Calls
  <2>2. \A b \in Attempt \ {a} : truth'[b] = truth[b]
    BY <1>2 DEF Shapes
  <2> QED
    BY <2>1, <2>2, <1>3 DEF Owners, Owner, InFlight
<1> QED
    BY <1>4, <1>5, <1>6, <1>7

LEMMA ProjectFailsKeeps ==
    ASSUME FenceInv, NEW a \in Attempt, ProjectFails(a)
    PROVE  FenceInv'
<1> USE SubscriptionAssumption, MigrationAssumption DEF FenceInv
<1>1. run[a].op = "migrate" /\ run[a].pc = "answered" /\ Moved(a, {"unknown"}, {"migrate"})
    BY DEF ProjectFails, Shapes, RunFields, Moved
<1>3. UNCHANGED <<fence, truth, log, mig, serves>>
    BY DEF ProjectFails
<1>4. Shapes'
    BY <1>1, <1>3 DEF Shapes, Moved, RowMoved
<1>5. Calls'
    BY <1>1, <1>3 DEF Calls, Shapes, Rows, InFlight, AllOperations, Moved
<1>6. Rows'
    BY <1>1, <1>3 DEF Rows, Calls, Shapes, InFlight, RowMoved
<1>7. Owners'
    BY <1>3 DEF Owners, Owner, InFlight
<1> QED
    BY <1>4, <1>5, <1>6, <1>7

LEMMA MigrationDiesKeeps ==
    ASSUME FenceInv, NEW a \in Attempt, MigrationDies(a)
    PROVE  FenceInv'
<1> USE SubscriptionAssumption, MigrationAssumption DEF FenceInv
<1>1. Moved(a, {"ended"}, {"none"})
    BY EndsMoves DEF MigrationDies
<1>3. UNCHANGED <<fence, truth, log, mig, serves>>
    BY DEF MigrationDies
<1>4. Shapes'
    BY <1>1, <1>3 DEF Shapes, Moved, RowMoved
<1>5. Calls'
    BY <1>1, <1>3 DEF Calls, Shapes, Rows, InFlight, AllOperations, Moved
<1>6. Rows'
    BY <1>1, <1>3 DEF Rows, Calls, Shapes, InFlight, RowMoved
<1>7. Owners'
    BY <1>3 DEF Owners, Owner, InFlight
<1> QED
    BY <1>4, <1>5, <1>6, <1>7

LEMMA ProjectKeeps ==
    ASSUME FenceInv, NEW a \in Attempt, Project(a)
    PROVE  FenceInv'
<1> USE SubscriptionAssumption, MigrationAssumption DEF FenceInv
<1>1. run[a].op = "migrate" /\ run[a].pc = "answered" /\ serves[a] \in Migration /\ truth[a]
    BY DEF Project, Calls
<1>2. \/ /\ Moved(a, {"unknown"}, {"migrate"}) /\ UNCHANGED <<fence, log, mig>>
      \/ /\ Moved(a, {"ended"}, {"none"})
         /\ mig[serves[a]].status = "executing" /\ mig[serves[a]].token = a
         /\ \/ /\ RowMoved(serves[a], "pending_renewal", a)
               /\ UNCHANGED <<fence, log>>
            \/ /\ RowMoved(serves[a], "applied", a)
               /\ fence' = NoAttempt /\ log' = [log EXCEPT ![a] = "applied"]
  <2>1. CASE run' = [run EXCEPT ![a].pc = "unknown"] /\ UNCHANGED <<fence, log, mig>>
    BY <2>1, <1>1 DEF Shapes, RunFields, Moved
  <2>2. ASSUME NEW to \in {"pending_renewal", "applied"}, Ends(a),
               Swaps(serves[a], "executing", a, to, a), mig' = Swapped(serves[a], to, a)
        PROVE  /\ Moved(a, {"ended"}, {"none"})
               /\ mig[serves[a]].status = "executing" /\ mig[serves[a]].token = a
               /\ RowMoved(serves[a], to, a)
    BY <2>2, <1>1, EndsMoves, SwappedMoves DEF Swaps
  <2>3. CASE mig[serves[a]].timing = "nextRenewal"
    BY <2>1, <2>2, <2>3 DEF Project
  <2>4. CASE mig[serves[a]].timing # "nextRenewal"
    BY <2>1, <2>2, <2>4 DEF Project
  <2> QED
    BY <2>3, <2>4
<1>3. UNCHANGED <<truth, serves>>
    BY DEF Project
<1>4. Shapes'
    BY <1>1, <1>2, <1>3 DEF Shapes, Moved, RowMoved
<1>5. Calls'
    BY <1>1, <1>2, <1>3 DEF Calls, Shapes, Rows, InFlight, AllOperations, Moved
<1>6. Rows'
    BY <1>1, <1>2, <1>3 DEF Rows, Calls, Shapes, InFlight, RowMoved
<1>7. Owners'
  <2>1. CASE UNCHANGED <<fence, mig>>
    BY <2>1, <1>3 DEF Owners, Owner, InFlight
  <2>2. ASSUME NEW to \in {"pending_renewal", "applied"}, RowMoved(serves[a], to, a),
               fence' = fence \/ fence' = NoAttempt, to = "applied" => fence' = NoAttempt,
               mig[serves[a]].token = a
        PROVE  Owners'
    <3>1. Owner(a)'
      BY <2>2, <1>1, <1>3 DEF Owner, InFlight, RowMoved
    <3> QED
      BY <3>1, <2>2, <1>1, <1>3, HolderMoves
  <2> QED
    BY <2>1, <2>2, <1>2
<1> QED
    BY <1>4, <1>5, <1>6, <1>7

LEMMA FailAttemptKeeps ==
    ASSUME FenceInv, NEW a \in Attempt, FailAttempt(a)
    PROVE  FenceInv'
<1> USE SubscriptionAssumption, MigrationAssumption DEF FenceInv
<1>1. /\ run[a].pc = "refused" /\ serves[a] \in Migration /\ ~truth[a]
      /\ Moved(a, {"ended"}, {"none"})
    BY EndsMoves DEF FailAttempt, Calls
<1>2. \/ UNCHANGED <<mig, fence, log>>
      \/ /\ mig[serves[a]].token = a /\ fence = a
         /\ RowMoved(serves[a], "failed", NoAttempt)
         /\ fence' = NoAttempt /\ log' = [log EXCEPT ![a] = "not_applied"]
    BY <1>1, SwappedMoves DEF FailAttempt, Swaps
<1>3. UNCHANGED <<truth, serves>>
    BY DEF FailAttempt
<1>4. Shapes'
    BY <1>1, <1>2, <1>3 DEF Shapes, Moved, RowMoved
<1>5. Calls'
    BY <1>1, <1>2, <1>3 DEF Calls, Shapes, Rows, InFlight, AllOperations, Moved
<1>6. Rows'
    BY <1>1, <1>2, <1>3 DEF Rows, Calls, Shapes, InFlight, RowMoved
<1>7. Owners'
  <2>1. CASE UNCHANGED <<fence, mig>>
    BY <2>1, <1>3 DEF Owners, Owner, InFlight
  <2>2. CASE mig[serves[a]].token = a /\ RowMoved(serves[a], "failed", NoAttempt) /\ fence' = NoAttempt
    <3>1. Owner(a)'
      BY <2>2, <1>1, <1>3 DEF Owner
    <3> QED
      BY <3>1, <2>2, <1>1, <1>3, HolderMoves
  <2> QED
    BY <2>1, <2>2, <1>2
<1> QED
    BY <1>4, <1>5, <1>6, <1>7

LEMMA RequireReconciliationKeeps ==
    ASSUME FenceInv, NEW a \in Attempt, RequireReconciliation(a)
    PROVE  FenceInv'
<1> USE SubscriptionAssumption, MigrationAssumption DEF FenceInv
<1>1. Moved(a, {"ended"}, {"none"}) /\ serves[a] \in Migration
    BY EndsMoves DEF RequireReconciliation, Calls
<1>2. \/ UNCHANGED mig
      \/ /\ mig[serves[a]].status = "executing" /\ mig[serves[a]].token = a
         /\ RowMoved(serves[a], "reconciliation_required", a)
    BY <1>1, SwappedMoves DEF RequireReconciliation, Swaps
<1>3. UNCHANGED <<fence, truth, log, serves>>
    BY DEF RequireReconciliation
<1>4. Shapes'
    BY <1>1, <1>2, <1>3 DEF Shapes, Moved, RowMoved
<1>5. Calls'
    BY <1>1, <1>2, <1>3 DEF Calls, Shapes, Rows, InFlight, AllOperations, Moved
<1>6. Rows'
    BY <1>1, <1>2, <1>3 DEF Rows, Calls, Shapes, InFlight, RowMoved
<1>7. Owners'
  <2>1. CASE UNCHANGED mig
    BY <2>1, <1>3 DEF Owners, Owner, InFlight
  <2>2. CASE mig[serves[a]].token = a /\ RowMoved(serves[a], "reconciliation_required", a)
    <3>1. Owner(a)'
      BY <2>2, <1>1, <1>3 DEF Owner, InFlight, RowMoved
    <3> QED
      BY <3>1, <2>2, <1>1, <1>3, HolderMoves
  <2> QED
    BY <2>1, <2>2, <1>2
<1> QED
    BY <1>4, <1>5, <1>6, <1>7

LEMMA SettleKeeps ==
    ASSUME FenceInv, NEW m \in Migration, Settle(m)
    PROVE  FenceInv'
<1> USE SubscriptionAssumption, MigrationAssumption DEF FenceInv
<1>1. PICK a \in Attempt :
         /\ mig[m].token = a /\ serves[a] = m /\ truth[a]
         /\ RowMoved(m, "applied", a) /\ log' = [log EXCEPT ![a] = "applied"]
  <2>1. mig[m].token \in Attempt /\ serves[mig[m].token] = m /\ truth[mig[m].token]
    BY DEF Settle, Rows, Shapes, InFlight
  <2> QED
    BY <2>1, SwappedMoves DEF Settle
<1>2. run[a].pc \notin {"idle", "resolved", "selected", "calling"}
    BY <1>1, MigrationAssumption DEF Calls
<1>3. UNCHANGED <<truth, serves, run>> /\ fence' = NoAttempt /\ fence = mig[m].token
    BY DEF Settle
<1>4. Shapes'
    BY <1>1, <1>2, <1>3 DEF Shapes, Moved, RowMoved
<1>5. Calls'
    BY <1>1, <1>2, <1>3 DEF Calls, Shapes, Rows, InFlight, AllOperations, Moved
<1>6. Rows'
    BY <1>1, <1>2, <1>3 DEF Rows, Calls, Shapes, InFlight, RowMoved
<1>7. Owners'
  <2>1. Owner(a)'
    BY <1>1, <1>3 DEF Owner, InFlight, RowMoved
  <2> QED
    BY <2>1, <1>1, <1>3, HolderMoves
<1> QED
    BY <1>4, <1>5, <1>6, <1>7

LEMMA ResolveMigrationKeeps ==
    ASSUME FenceInv, NEW m \in Migration, ResolveMigration(m)
    PROVE  FenceInv'
<1> USE SubscriptionAssumption, MigrationAssumption DEF FenceInv
<1>1. PICK a \in Attempt : mig[m].token = a /\ serves[a] = m /\ run[a].pc # "calling"
  <2>1. mig[m].token \in Attempt
    BY DEF ResolveMigration, Resolvable, Shapes
  <2> QED
    BY <2>1 DEF ResolveMigration, Rows
<1>2. /\ mig[m].status \in {"executing", "reconciliation_required"}
      /\ \/ /\ truth[a] /\ RowMoved(m, "pending_renewal", a) /\ UNCHANGED <<fence, log>>
            /\ mig'[m].active
         \/ /\ truth[a] /\ RowMoved(m, "applied", a) /\ fence = a /\ fence' = NoAttempt
            /\ log' = [log EXCEPT ![a] = "applied"]
         \/ /\ ~truth[a] /\ RowMoved(m, "failed", NoAttempt) /\ fence = a /\ fence' = NoAttempt
            /\ log' = [log EXCEPT ![a] = "not_applied"]
  <2> DEFINE renewal == truth[a] /\ mig[m].timing = "nextRenewal"
             to == CASE renewal -> "pending_renewal" [] truth[a] /\ ~renewal -> "applied" [] OTHER -> "failed"
             next == IF truth[a] THEN a ELSE NoAttempt
  <2>1. mig' = Resolved(m, to, Truthful(a), renewal, next)
    BY <1>1 DEF ResolveMigration, Resolved
  <2>2. /\ mig' = [n \in Migration |-> mig'[n]] /\ DOMAIN mig'[m] = RowFields
        /\ mig'[m].status = to /\ mig'[m].active = renewal /\ mig'[m].token = next
        /\ \A n \in Migration \ {m} : mig'[n] = mig[n]
    BY <2>1, ResolvedMoves
  <2>5. mig[m].status \in {"executing", "reconciliation_required"}
    BY DEF ResolveMigration, Resolvable
  <2>6. IF renewal THEN UNCHANGED <<fence, log>>
        ELSE fence = a /\ fence' = NoAttempt /\ log' = [log EXCEPT ![a] = Truthful(a)]
    BY <1>1 DEF ResolveMigration
  <2>7. CASE renewal
    <3>1. truth[a] /\ to = "pending_renewal" /\ next = a
      BY <2>7
    <3> QED
      BY <3>1, <2>2, <2>5, <2>6, <2>7 DEF RowMoved
  <2>8. CASE truth[a] /\ ~renewal
    BY <2>2, <2>5, <2>6, <2>8 DEF RowMoved, Truthful
  <2>9. CASE ~truth[a]
    BY <2>2, <2>5, <2>6, <2>9 DEF RowMoved, Truthful
  <2> QED
    BY <2>7, <2>8, <2>9
<1>3. UNCHANGED <<truth, serves, run>>
    BY DEF ResolveMigration
<1>4. Shapes'
    BY <1>1, <1>2, <1>3 DEF Shapes, Moved, RowMoved
<1>5. Calls'
    BY <1>1, <1>2, <1>3 DEF Calls, Shapes, Rows, InFlight, AllOperations, Moved
<1>6. Rows'
    BY <1>1, <1>2, <1>3 DEF Rows, Calls, Shapes, InFlight, RowMoved
<1>7. Owners'
  <2>1. Owner(a)'
    BY <1>1, <1>2, <1>3 DEF Owner, InFlight, RowMoved
  <2> QED
    BY <2>1, <1>1, <1>2, <1>3, HolderMoves
<1> QED
    BY <1>4, <1>5, <1>6, <1>7

LEMMA ObserveMigrationKeeps ==
    ASSUME FenceInv, NEW m \in Migration, ObserveMigration(m)
    PROVE  FenceInv'
<1> USE SubscriptionAssumption, MigrationAssumption DEF FenceInv
<1>1. PICK a \in Attempt : mig[m].token = a /\ serves[a] = m
    BY DEF ObserveMigration, Shapes, Rows
<1>2. /\ mig[m].status \in {"executing", "reconciliation_required"}
      /\ RowMoved(m, "reconciliation_required", a)
    BY <1>1 DEF ObserveMigration, Shapes, RowFields, RowMoved
<1>3. UNCHANGED <<fence, truth, log, run, serves>>
    BY DEF ObserveMigration, vars
<1>4. Shapes'
    BY <1>1, <1>2, <1>3 DEF Shapes, Moved, RowMoved
<1>5. Calls'
    BY <1>1, <1>2, <1>3 DEF Calls, Shapes, Rows, InFlight, AllOperations, Moved
<1>6. Rows'
    BY <1>1, <1>2, <1>3 DEF Rows, Calls, Shapes, InFlight, RowMoved
<1>7. Owners'
  <2>1. Owner(a)'
    BY <1>1, <1>2, <1>3 DEF Owners, Owner, InFlight, RowMoved
  <2> QED
    BY <2>1, <1>1, <1>2, <1>3, HolderMoves
<1> QED
    BY <1>4, <1>5, <1>6, <1>7

----------------------------------------------------------------------------
(* The theorems.                                                           *)

LEMMA FenceInvNext == FenceInv /\ [Next]_allVars => FenceInv'
<1> SUFFICES ASSUME FenceInv, [Next]_allVars PROVE FenceInv'
    OBVIOUS
<1>1. CASE DirectNext(Migrating) /\ UNCHANGED <<mig, serves>>
  <2> USE <1>1
  <2>1. ASSUME NEW a \in Attempt, NEW op \in Operation, Resolve(a, op) PROVE FenceInv'
    BY <2>1, ResolveKeeps
  <2>2. ASSUME NEW a \in Attempt, Select(a, Migrating) PROVE FenceInv'
    BY <2>2, SelectKeeps DEF Migrating
  <2>3. ASSUME NEW a \in Attempt, Claim(a) PROVE FenceInv'
    BY <2>3, ClaimKeeps
  <2>4. ASSUME NEW a \in Attempt, run[a].op \in Operation,
               CallProvider(a) \/ CallThrows(a) \/ Persist(a) \/ Dies(a)
        PROVE  FenceInv'
    BY <2>4, CallProviderKeeps, CallThrowsKeeps, PersistKeeps, DiesKeeps
  <2>5. ASSUME NEW a \in Attempt, ResolveClaim(a) PROVE FenceInv'
    BY <2>5, ResolveClaimKeeps
  <2>6. CASE ProviderEvent \/ \E i \in DOMAIN history : Webhook(i)
    <3>1. UNCHANGED <<fence, run, truth, log, mig, serves>>
      BY <2>6 DEF ProviderEvent, Webhook
    <3>2. Shapes' /\ Calls'
      BY <3>1 DEF FenceInv, Shapes, Calls
    <3>3. Rows' /\ Owners'
      BY <3>1 DEF FenceInv, Rows, Owners, Owner, InFlight
    <3> QED
      BY <3>2, <3>3 DEF FenceInv
  <2> QED
    BY <2>1, <2>2, <2>3, <2>4, <2>5, <2>6 DEF DirectNext
<1>2. ASSUME NEW m \in Migration,
             \/ Preview(m) \/ Schedule(m) \/ CancelMigration(m)
             \/ Settle(m) \/ ResolveMigration(m) \/ ObserveMigration(m)
      PROVE  FenceInv'
    BY <1>2, PreviewKeeps, ScheduleKeeps, CancelMigrationKeeps, SettleKeeps,
       ResolveMigrationKeeps, ObserveMigrationKeeps
<1>3. ASSUME NEW m \in Migration, NEW a \in Attempt, Begin(a, m) PROVE FenceInv'
    BY <1>3, BeginKeeps
<1>4. ASSUME NEW a \in Attempt,
             \/ MigrationCall(a) \/ Project(a) \/ ProjectFails(a)
             \/ FailAttempt(a) \/ RequireReconciliation(a) \/ MigrationDies(a)
      PROVE  FenceInv'
    BY <1>4, MigrationCallKeeps, ProjectKeeps, ProjectFailsKeeps, FailAttemptKeeps,
       RequireReconciliationKeeps, MigrationDiesKeeps
<1>5. CASE UNCHANGED allVars
    BY <1>5 DEF allVars, FenceInv, Shapes, Calls, Rows, Owners, Owner, InFlight
<1> QED
    BY <1>1, <1>2, <1>3, <1>4, <1>5 DEF Next

\* Every claim, every call, every webhook and every resolution of the rows and
\* the claim keeps them in step
THEOREM FenceInvariant == Spec => []FenceInv
    BY FenceInvInit, FenceInvNext, PTL DEF Spec

\* The active claim and the migration agree about who is in flight, for any
\* number of attempts and migrations
THEOREM ClaimsAgree == Spec => []ClaimAndMigrationAgree
<1>1. FenceInv => ClaimAndMigrationAgree
  <2> SUFFICES ASSUME FenceInv PROVE ClaimAndMigrationAgree
    OBVIOUS
  <2>1. \A m \in Migration : InFlight(m) => fence = mig[m].token /\ mig[m].active
    BY DEF FenceInv, Rows
  <2>2. ASSUME NEW a \in Attempt, fence = a, serves[a] # NoMigration
        PROVE  \E m \in Migration : InFlight(m) /\ mig[m].token = a
    BY <2>2 DEF FenceInv, Shapes, Owners, Owner
  <2> QED
    BY <2>1, <2>2 DEF ClaimAndMigrationAgree
<1> QED
    BY <1>1, FenceInvariant, PTL

\* However often it is retried and resolved, no migration is carried out twice
THEOREM CarriedOutOnce == Spec => []MigratedOnce
<1>1. FenceInv => MigratedOnce
    BY DEF FenceInv, Owners, Owner, MigratedOnce
<1> QED
    BY <1>1, FenceInvariant, PTL

LEMMA FenceStep ==
    ASSUME FenceInv, [Next]_allVars
    PROVE  [Fence!Next]_(Fence!fenceVars)
<1> USE SubscriptionAssumption, MigrationAssumption DEF Fence!fenceVars
<1>1. CASE DirectNext(Migrating) /\ UNCHANGED <<mig, serves>>
  <2>1. ASSUME NEW a \in Attempt,
               (\E op \in Operation : Resolve(a, op)) \/ Select(a, Migrating) \/ Dies(a)
        PROVE  UNCHANGED Fence!fenceVars
    BY <2>1 DEF Resolve, Select, Dies
  <2>2. ASSUME NEW a \in Attempt, Claim(a)
        PROVE  Fence!Next \/ UNCHANGED Fence!fenceVars
    BY <2>2 DEF Claim, Fence!Next, Fence!Begin, FenceInv, Calls, Shapes
  <2>3. ASSUME NEW a \in Attempt, CallProvider(a) \/ CallThrows(a)
        PROVE  Fence!Next \/ UNCHANGED Fence!fenceVars
    BY <2>3 DEF CallProvider, CallThrows, Fence!Next, Fence!TakeEffect, FenceInv, Calls
  <2>4. ASSUME NEW a \in Attempt, Persist(a) \/ ResolveClaim(a)
        PROVE  Fence!Next \/ UNCHANGED Fence!fenceVars
    BY <2>4 DEF Persist, ResolveClaim, Truthful, Fence!Next, Fence!Conclude, FenceInv, Calls
  <2>5. CASE ProviderEvent \/ \E i \in DOMAIN history : Webhook(i)
    BY <2>5 DEF ProviderEvent, Webhook
  <2> QED
    BY <1>1, <2>1, <2>2, <2>3, <2>4, <2>5 DEF DirectNext
<1>2. ASSUME NEW m \in Migration,
             Preview(m) \/ Schedule(m) \/ CancelMigration(m) \/ ObserveMigration(m)
      PROVE  UNCHANGED Fence!fenceVars
    BY <1>2 DEF Preview, Schedule, CancelMigration, ObserveMigration, vars
<1>3. ASSUME NEW m \in Migration, NEW a \in Attempt, Begin(a, m)
      PROVE  Fence!Begin(a)
    BY <1>3 DEF Begin, Fence!Begin, FenceInv, Calls, Shapes
<1>4. ASSUME NEW a \in Attempt, MigrationCall(a)
      PROVE  Fence!TakeEffect(a) \/ UNCHANGED Fence!fenceVars
    BY <1>4 DEF MigrationCall, Fence!TakeEffect, FenceInv, Calls
<1>5. ASSUME NEW a \in Attempt, Project(a) \/ FailAttempt(a)
      PROVE  Fence!Conclude(a) \/ UNCHANGED Fence!fenceVars
  <2>1. CASE FailAttempt(a)
    BY <2>1 DEF FailAttempt, Fence!Conclude, FenceInv, Calls
  <2>2. CASE Project(a)
    <3>1. truth[a] /\ serves[a] \in Migration
      BY <2>2 DEF Project, FenceInv, Calls
    <3>2. \/ UNCHANGED Fence!fenceVars
          \/ /\ mig[serves[a]].status = "executing" /\ mig[serves[a]].token = a
             /\ fence' = NoAttempt /\ log' = [log EXCEPT ![a] = "applied"]
      BY <2>2 DEF Project, Swaps
    <3>3. UNCHANGED truth
      BY <2>2 DEF Project
    <3> QED
      BY <3>1, <3>2, <3>3 DEF Fence!Conclude, FenceInv, Rows, InFlight
  <2> QED
    BY <1>5, <2>1, <2>2
<1>6. ASSUME NEW a \in Attempt, ProjectFails(a) \/ RequireReconciliation(a) \/ MigrationDies(a)
      PROVE  UNCHANGED Fence!fenceVars
    BY <1>6 DEF ProjectFails, RequireReconciliation, MigrationDies
<1>7. ASSUME NEW m \in Migration, Settle(m) \/ ResolveMigration(m)
      PROVE  (\E a \in Attempt : Fence!Conclude(a)) \/ UNCHANGED Fence!fenceVars
  <2>1. CASE Settle(m)
    <3>1. PICK a \in Attempt : mig[m].token = a /\ truth[a]
      BY <2>1 DEF Settle, FenceInv, Rows, Shapes, InFlight
    <3> QED
      BY <3>1, <2>1 DEF Settle, Fence!Conclude
  <2>2. CASE ResolveMigration(m)
    <3>1. PICK a \in Attempt : mig[m].token = a
      BY <2>2 DEF ResolveMigration, Resolvable, FenceInv, Shapes
    <3> QED
      BY <3>1, <2>2 DEF ResolveMigration, Truthful, Fence!Conclude
  <2> QED
    BY <1>7, <2>1, <2>2
<1>8. CASE UNCHANGED allVars
    BY <1>8 DEF allVars
<1> QED
    BY <1>1, <1>2, <1>3, <1>4, <1>5, <1>6, <1>7, <1>8 DEF Next, Fence!Next

\* The shared mutation claim makes the attempts follow one another: the direct
\* mutations and the migrations together implement the abstract fence
THEOREM MutationsAreFenced == Spec => ImplementsFence
<1>1. MigInit => Fence!Init
    BY DEF MigInit, Init, Fence!Init
<1>2. FenceInv /\ [Next]_allVars => [Fence!Next]_(Fence!fenceVars)
    BY FenceStep
<1> QED
    BY <1>1, <1>2, FenceInvariant, PTL DEF Spec, ImplementsFence, Fence!Spec

----------------------------------------------------------------------------
(* What the rows, the calls and the provider's history hold.               *)

SubFields == {"status", "price", "quantity", "item", "canon", "period", "synced"}

Reported ==
    [status : {"active", "past_due", "paused", "canceled"}, item : Item,
     pending : Item \cup {NoItem}, period : Nat]

\* Periods only grow at the provider
Histories ==
    /\ history \in Seq(Reported) /\ Len(history) > 0
    /\ \A i \in DOMAIN history : history[i].period <= Remote.period

SubRow ==
    /\ DOMAIN sub = SubFields
    /\ sub.item \in Item /\ sub.canon \in Item \cup {NoItem}
    /\ sub.period \in Nat /\ sub.period <= Remote.period

\* What a preview promised
Quoted(r) ==
    r.status # "none" => /\ r.source \in Item /\ r.target \in Item
                         /\ r.period \in Nat /\ r.period <= Remote.period

Quotes == \A m \in Migration : Quoted(mig[m])

\* What a call asks for; before it has the claim nothing it knows counts as stale
Asked(r) ==
    /\ r.op \in Operation \cup {"none", "migrate"}
    /\ r.stale \in BOOLEAN
    /\ r.pc \in {"idle", "resolved", "selected"} => r.stale = FALSE
    /\ r.op = "migrate" /\ r.pc = "calling" => r.stale = FALSE
    /\ r.op \in ItemOperations =>
          /\ r.want \in Item
          /\ r.pc # "resolved" => r.item \in Item

Requests == \A a \in Attempt : Asked(run[a])

\* The attempt that holds the claim has no verdict yet
Undecided == \A a \in Attempt : fence = a => log[a] = "none"

ItemTypes == Histories /\ SubRow /\ Quotes /\ Requests /\ Undecided

LEMMA ItemTypesInit == MigInit => ItemTypes
<1> SUFFICES ASSUME MigInit PROVE ItemTypes
    OBVIOUS
<1> USE SubscriptionAssumption DEF MigInit, Init
<1>1. Histories /\ Remote.period = 1
  <2> DEFINE first == [status |-> "active", item |-> FirstItem, pending |-> NoItem, period |-> 1]
  <2>1. first \in Reported
    BY DEF Reported
  <2>2. history = <<first>>
    OBVIOUS
  <2> HIDE DEF first
  <2>3. history \in Seq(Reported) /\ Len(history) = 1 /\ Remote = first /\ DOMAIN history = {1}
    BY <2>1, <2>2 DEF Remote
  <2>4. first.period = 1
    BY DEF first
  <2> QED
    BY <2>2, <2>3, <2>4 DEF Histories
<1>2. SubRow
    BY <1>1 DEF SubRow, SubFields
<1>3. Quotes
    BY DEF Quotes, Quoted, NoRow, Row
<1>4. Requests
    BY DEF Requests, Asked, Idle, Call, ItemOperations
<1>5. Undecided
    BY DEF Undecided
<1> QED
    BY <1>1, <1>2, <1>3, <1>4, <1>5 DEF ItemTypes

LEMMA RemoteIsReported ==
    ASSUME Histories
    PROVE  Remote \in Reported
    BY DEF Histories, Remote

LEMMA HistoryGrows ==
    ASSUME Histories, NEW x \in Reported, Remote.period <= x.period, history' = Append(history, x)
    PROVE  Histories' /\ Remote' = x /\ Remote.period <= Remote'.period
<1>1. Remote \in Reported /\ Remote.period \in Nat /\ x.period \in Nat
    BY RemoteIsReported DEF Reported
<1>2. history \in Seq(Reported) /\ history' \in Seq(Reported) /\ Len(history') = Len(history) + 1
    BY DEF Histories
<1>3. Remote' = x
    BY <1>2 DEF Remote
<1>4. ASSUME NEW i \in DOMAIN history'
      PROVE  history'[i].period <= x.period
  <2>1. CASE i \in DOMAIN history
    <3>1. history'[i] = history[i] /\ history[i] \in Reported
      BY <2>1, <1>2
    <3> QED
      BY <3>1, <2>1, <1>1 DEF Histories, Reported
  <2>2. CASE i \notin DOMAIN history
    <3>1. history'[i] = x
      BY <2>2, <1>2
    <3> QED
      BY <3>1, <1>1
  <2> QED
    BY <2>1, <2>2
<1> QED
    BY <1>2, <1>3, <1>4 DEF Histories

\* What the provider makes of an operation
LEMMA CarriedIsReported ==
    ASSUME NEW remote \in Reported, NEW op, NEW target, op \in ItemOperations => target \in Item
    PROVE  /\ Carried(remote, op, target) \in Reported
           /\ Carried(remote, op, target).period = remote.period
           /\ op # "swap_later" =>
                 /\ Carried(remote, op, target).pending = remote.pending
                 /\ Carried(remote, op, target).item =
                       IF op \in ItemOperations THEN target ELSE remote.item
<1> USE DEF Reported, ItemOperations
<1>1. CASE op \in ItemOperations
    BY <1>1 DEF Carried, Change, Later
<1>2. CASE op \in {"cancel_now", "pause", "resume_paused"}
    BY <1>2 DEF Carried, CancelNow, Pause, ResumePaused
<1>3. CASE op \notin ItemOperations \cup {"cancel_now", "pause", "resume_paused"}
    BY <1>3 DEF Carried
<1> QED
    BY <1>1, <1>2, <1>3

LEMMA TargetIsItem ==
    ASSUME NEW r, Asked(r), r.op \in ItemOperations, r.pc # "resolved"
    PROVE  Target(r) \in Item
    BY DEF Asked, Target, SwapTarget, QuantityTarget, Item, ItemOperations

LEMMA ChangedIsReported ==
    ASSUME Histories, NEW m \in Migration, mig[m].target \in Item
    PROVE  /\ Changed(m) \in Reported
           /\ Changed(m).period = Remote.period
           /\ mig[m].timing = "nextRenewal" =>
                 Changed(m).pending = mig[m].target /\ Changed(m).item = Remote.item
           /\ mig[m].timing # "nextRenewal" =>
                 Changed(m).pending = Remote.pending /\ Changed(m).item = mig[m].target
<1>1. Remote \in Reported
    BY RemoteIsReported
<1> QED
    BY <1>1 DEF Changed, Reported

\* How the calls reach the provider
LEMMA CallsExtendHistory ==
    ASSUME FenceInv, ItemTypes, NEW a \in Attempt, CallProvider(a) \/ CallThrows(a)
    PROVE  \/ UNCHANGED history /\ UNCHANGED truth
           \/ /\ Carried(Remote, run[a].op, Target(run[a])) \in Reported
              /\ history' = Append(history, Carried(Remote, run[a].op, Target(run[a])))
              /\ truth' = [truth EXCEPT ![a] = TRUE]
<1>1. run[a].pc = "calling"
    BY DEF CallProvider, CallThrows
<1>2. run[a].op \in ItemOperations => Target(run[a]) \in Item
    BY <1>1, TargetIsItem DEF ItemTypes, Requests
<1>3. Carried(Remote, run[a].op, Target(run[a])) \in Reported
    BY <1>2, RemoteIsReported, CarriedIsReported DEF ItemTypes
<1> QED
    BY <1>3 DEF CallProvider, CallThrows

\* A step at the provider
Grows ==
    /\ Histories'
    /\ Remote.period \in Nat /\ Remote'.period \in Nat /\ Remote.period <= Remote'.period

LEMMA CallGrows ==
    ASSUME FenceInv, ItemTypes, NEW a \in Attempt, CallProvider(a) \/ CallThrows(a)
    PROVE  Grows
<1> DEFINE carried == Carried(Remote, run[a].op, Target(run[a]))
<1>1. Remote \in Reported /\ Histories
    BY RemoteIsReported DEF ItemTypes
<1>2. CASE UNCHANGED history
    BY <1>1, <1>2 DEF Grows, Histories, Remote, Reported
<1>3. CASE carried \in Reported /\ history' = Append(history, carried)
  <2>1. run[a].op \in ItemOperations => Target(run[a]) \in Item
    <3>1. run[a].pc = "calling"
      BY DEF CallProvider, CallThrows
    <3> QED
      BY <3>1, TargetIsItem DEF ItemTypes, Requests
  <2>2. carried.period = Remote.period
    BY <1>1, <2>1, CarriedIsReported
  <2>3. Remote.period \in Nat
    BY <1>1 DEF Reported
  <2> HIDE DEF carried
  <2> QED
    BY <1>1, <1>3, <2>2, <2>3, HistoryGrows DEF Grows
<1> QED
    BY <1>2, <1>3, CallsExtendHistory

LEMMA EventGrows ==
    ASSUME ItemTypes, ProviderEvent
    PROVE  /\ Grows
           /\ \/ /\ Remote'.item = Remote.item /\ Remote'.pending = Remote.pending
                 /\ Remote'.period = Remote.period
              \/ /\ Remote'.item = IF Remote.pending = NoItem THEN Remote.item ELSE Remote.pending
                 /\ Remote'.pending = NoItem
                 /\ Remote'.period = Remote.period + 1
<1>1. Remote \in Reported /\ Remote.period \in Nat /\ Histories
    BY RemoteIsReported DEF ItemTypes, Reported
<1>2. CASE \E s \in {"active", "past_due", "canceled"} :
              history' = Append(history, [Remote EXCEPT !.status = s])
  <2>1. PICK s \in {"active", "past_due", "canceled"} :
              history' = Append(history, [Remote EXCEPT !.status = s])
    BY <1>2
  <2> DEFINE next == [Remote EXCEPT !.status = s]
  <2>2. /\ next \in Reported /\ next.item = Remote.item /\ next.pending = Remote.pending
        /\ next.period = Remote.period
    BY <1>1 DEF Reported
  <2>3. history' = Append(history, next)
    BY <2>1
  <2> HIDE DEF next
  <2> QED
    BY <1>1, <2>2, <2>3, HistoryGrows DEF Grows
<1>3. CASE history' = Append(history,
              [Remote EXCEPT !.period = @ + 1, !.pending = NoItem,
                             !.item = IF Remote.pending = NoItem THEN @ ELSE Remote.pending])
  <2> DEFINE item == IF Remote.pending = NoItem THEN Remote.item ELSE Remote.pending
             period == Remote.period + 1
             next == [Remote EXCEPT !.period = period, !.pending = NoItem, !.item = item]
  <2>1. item \in Item /\ period \in Nat
    BY <1>1 DEF Reported
  <2>3. history' = Append(history, next)
    BY <1>3
  <2>2. next \in Reported /\ next.pending = NoItem /\ next.period = period /\ next.item = item
    <3> HIDE DEF item, period
    <3>1. PICK remote \in Reported : remote = Remote
      BY <1>1
    <3>2. PICK p \in Nat, i \in Item : p = period /\ i = item
      BY <2>1
    <3>3. next = [remote EXCEPT !.period = p, !.pending = NoItem, !.item = i]
      BY <3>1, <3>2
    <3>4. next \in Reported /\ next.pending = NoItem /\ next.period = p /\ next.item = i
      <4> HIDE DEF next
      <4> QED
        BY <3>3 DEF Reported
    <3> QED
      BY <3>2, <3>4
  <2> HIDE DEF next
  <2>4. Remote.period <= next.period
    BY <1>1, <2>2
  <2>5. Histories' /\ Remote' = next
    BY <1>1, <2>2, <2>3, <2>4, HistoryGrows
  <2> QED
    BY <1>1, <2>2, <2>4, <2>5 DEF Grows, item
<1> QED
    BY <1>2, <1>3 DEF ProviderEvent

LEMMA MigrationTarget ==
    ASSUME FenceInv, ItemTypes, NEW a \in Attempt, fence = a, serves[a] # NoMigration
    PROVE  /\ serves[a] \in Migration
           /\ mig[serves[a]].source \in Item /\ mig[serves[a]].target \in Item
           /\ mig[serves[a]].period \in Nat /\ mig[serves[a]].period <= Remote.period
<1>1. serves[a] \in Migration /\ mig[serves[a]].status # "none"
    BY DEF FenceInv, Shapes, Owners, Owner, InFlight
<1> QED
    BY <1>1 DEF ItemTypes, Quotes, Quoted

LEMMA MigrationCallGrows ==
    ASSUME FenceInv, ItemTypes, NEW a \in Attempt, MigrationCall(a)
    PROVE  Grows
<1>1. Remote \in Reported /\ Remote.period \in Nat /\ Histories
    BY RemoteIsReported DEF ItemTypes, Reported
<1>2. serves[a] \in Migration /\ mig[serves[a]].target \in Item
    BY MigrationTarget, MigrationAssumption DEF MigrationCall, FenceInv, Calls
<1>3. CASE UNCHANGED history
    BY <1>1, <1>3 DEF Grows, Histories, Remote
<1>4. CASE history' = Append(history, Changed(serves[a]))
    BY <1>1, <1>2, <1>4, ChangedIsReported, HistoryGrows DEF Grows
<1> QED
    BY <1>3, <1>4 DEF MigrationCall

LEMMA GrowsNext ==
    ASSUME FenceInv, ItemTypes, [Next]_allVars
    PROVE  Grows
<1>0. CASE UNCHANGED history
    BY <1>0, RemoteIsReported DEF ItemTypes, Grows, Histories, Remote, Reported
<1>1. CASE DirectNext(Migrating) /\ UNCHANGED <<mig, serves>>
  <2>1. ASSUME NEW a \in Attempt,
               \/ (\E op \in Operation : Resolve(a, op)) \/ Select(a, Migrating) \/ Claim(a)
               \/ Persist(a) \/ Dies(a) \/ ResolveClaim(a)
        PROVE  UNCHANGED history
    BY <2>1 DEF Resolve, Select, Claim, Persist, Dies, ResolveClaim
  <2>2. ASSUME NEW i \in DOMAIN history, Webhook(i) PROVE UNCHANGED history
    BY <2>2 DEF Webhook
  <2> QED
    BY <1>0, <1>1, <2>1, <2>2, CallGrows, EventGrows DEF DirectNext
<1>2. ASSUME NEW m \in Migration,
             \/ Preview(m) \/ Schedule(m) \/ CancelMigration(m) \/ (\E a \in Attempt : Begin(a, m))
             \/ Settle(m) \/ ResolveMigration(m) \/ ObserveMigration(m)
      PROVE  UNCHANGED history
    BY <1>2 DEF Preview, Schedule, CancelMigration, Begin, Settle, ResolveMigration,
                ObserveMigration, vars
<1>3. ASSUME NEW a \in Attempt,
             \/ Project(a) \/ ProjectFails(a)
             \/ FailAttempt(a) \/ RequireReconciliation(a) \/ MigrationDies(a)
      PROVE  UNCHANGED history
    BY <1>3 DEF Project, ProjectFails, FailAttempt, RequireReconciliation, MigrationDies
<1>4. ASSUME NEW a \in Attempt, MigrationCall(a)
      PROVE  Grows
    BY <1>4, MigrationCallGrows
<1>5. CASE UNCHANGED allVars
    BY <1>0, <1>5 DEF allVars
<1>6. CASE Next
    BY <1>0, <1>1, <1>2, <1>3, <1>4, <1>6 DEF Next
<1> QED
    BY <1>5, <1>6

----------------------------------------------------------------------------
(* What a step leaves in the subscription's row.                           *)

RowOf(s) == DOMAIN s = SubFields /\ s.item \in Item /\ s.canon \in Item \cup {NoItem}

LEMMA PatchedRow ==
    ASSUME NEW s, RowOf(s), NEW r, Asked(r), r.pc # "resolved"
    PROVE  /\ RowOf(Patched(s, r)) /\ Patched(s, r).period = s.period
           /\ Patched(s, r).canon # NoItem => s.canon # NoItem
           /\ r.op \notin ItemOperations => Patched(s, r).item = s.item
           /\ r.op \in ItemOperations /\ r.op # "swap_later" /\ r.item = s.item
                 => Patched(s, r).item = Target(r)
<1> USE DEF RowOf, SubFields, Asked, ItemOperations, Item
<1> DEFINE w == [s EXCEPT !.status = AnsweredStatus(r)]
<1>0. /\ DOMAIN w = SubFields /\ w.item = s.item /\ w.canon = s.canon /\ w.period = s.period
    OBVIOUS
<1> HIDE DEF w
<1>1. CASE r.op = "swap"
  <2>1. Patched(s, r) = SwapPatch(w, r)
    BY <1>1 DEF Patched, w
  <2> QED
    BY <1>0, <1>1, <2>1 DEF SwapPatch, Target, SwapTarget
<1>2. CASE r.op = "quantity_update"
  <2>1. Patched(s, r) = QuantityPatch(w, r)
    BY <1>2 DEF Patched, w
  <2> QED
    BY <1>0, <1>2, <2>1 DEF QuantityPatch, Target, QuantityTarget, Accepted
<1>3. CASE r.op = "change_apply"
  <2>1. Patched(s, r) = ChangePatch(w, r)
    BY <1>3 DEF Patched, w
  <2> QED
    BY <1>0, <1>3, <2>1 DEF ChangePatch, Target
<1>4. CASE r.op \notin {"swap", "quantity_update", "change_apply"}
  <2>1. Patched(s, r) = w
    BY <1>4 DEF Patched, w
  <2> QED
    BY <1>0, <1>4, <2>1
<1> QED
    BY <1>1, <1>2, <1>3, <1>4

LEMMA ProjectedRow ==
    ASSUME NEW s, RowOf(s), NEW op, NEW target \in Item
    PROVE  /\ RowOf(Projected(s, op, target)) /\ Projected(s, op, target).period = s.period
           /\ Projected(s, op, target).canon # NoItem => s.canon # NoItem
           /\ op \in {"swap", "quantity_update"} => Projected(s, op, target).item = target
           /\ op \notin {"swap", "quantity_update"} => Projected(s, op, target).item = s.item
    BY DEF RowOf, SubFields, Projected, Accepted, Item

LEMMA ProjectedToRow ==
    ASSUME RowOf(sub), NEW target \in Item, NEW read, NEW reported
    PROVE  /\ RowOf(ProjectedTo(target, read, reported))
           /\ ProjectedTo(target, read, reported).period = sub.period
           /\ ProjectedTo(target, read, reported).item = target
    BY DEF RowOf, SubFields, ProjectedTo

\* A webhook leaves the item of a subscription that is linked to the catalog
LEMMA WebhookRow ==
    ASSUME ItemTypes, NEW i \in DOMAIN history, Webhook(i)
    PROVE  /\ RowOf(sub') /\ sub'.canon = sub.canon
           /\ sub'.period = sub.period \/ sub'.period = history[i].period
           /\ sub.canon # NoItem => sub'.item = sub.item
<1> DEFINE seen == history[i]
           withItem == IF sub.canon = NoItem THEN [sub EXCEPT !.item = seen.item] ELSE sub
<1>1. seen.item \in Item
  <2>1. history[i] \in Reported
    BY DEF ItemTypes, Histories
  <2> QED
    BY <2>1 DEF Reported
<1>2. /\ DOMAIN withItem = SubFields /\ withItem.item \in Item /\ withItem.canon = sub.canon
      /\ withItem.period = sub.period /\ (sub.canon # NoItem => withItem = sub)
    BY <1>1 DEF ItemTypes, SubRow, SubFields
<1>3. \/ sub' = withItem
      \/ sub' = [withItem EXCEPT
                          !.status = Reconciled(sub.status, seen.status),
                          !.price = IF sub.canon = NoItem THEN seen.item.price ELSE @,
                          !.quantity = IF sub.canon = NoItem THEN seen.item.quantity ELSE @,
                          !.period = seen.period,
                          !.synced = i]
    BY DEF Webhook
<1>4. sub.canon \in Item \cup {NoItem}
    BY DEF ItemTypes, SubRow
<1> HIDE DEF withItem, seen
<1>5. /\ RowOf(sub') /\ sub'.canon = sub.canon /\ sub'.item = withItem.item
      /\ sub'.period = sub.period \/ sub'.period = seen.period
    BY <1>2, <1>3, <1>4 DEF RowOf, SubFields
<1> QED
    BY <1>2, <1>5 DEF seen

\* A row that lies within the history
Within(s) == RowOf(s) /\ s.period \in Nat /\ s.period <= Remote.period

LEMMA SubRowNext ==
    ASSUME FenceInv, ItemTypes, [Next]_allVars
    PROVE  SubRow'
<1> USE SubscriptionAssumption, MigrationAssumption
<1>1. Grows
    BY GrowsNext
<1>2. Within(sub)
    BY DEF ItemTypes, SubRow, Within, RowOf
<1>3. SUFFICES Within(sub')
    BY <1>1 DEF Within, RowOf, SubRow, Grows
<1>4. CASE sub' = sub
    BY <1>2, <1>4
<1>5. ASSUME NEW a \in Attempt, run[a].op \in Operation, Persist(a) PROVE Within(sub')
  <2>1. sub' = sub \/ sub' = Patched(sub, run[a])
    BY <1>5 DEF Persist
  <2>2. Asked(run[a]) /\ run[a].pc # "resolved"
    BY <1>5 DEF Persist, ItemTypes, Requests
  <2> QED
    BY <2>1, <2>2, <1>2, PatchedRow DEF Within
<1>6. ASSUME NEW a \in Attempt, ResolveClaim(a) PROVE Within(sub')
  <2>1. CASE run[a].op \in Projecting
    <3>1. Asked(run[a]) /\ run[a].pc # "resolved" /\ run[a].op \in ItemOperations
      BY <1>6, <2>1 DEF ResolveClaim, ItemTypes, Requests, FenceInv, Calls, Projecting, ItemOperations
    <3>2. Target(run[a]) \in Item
      BY <3>1, TargetIsItem
    <3>3. sub' = sub \/ sub' = Projected(sub, run[a].op, Target(run[a]))
      BY <1>6 DEF ResolveClaim
    <3> QED
      BY <3>2, <3>3, <1>2, ProjectedRow DEF Within
  <2>2. CASE run[a].op \notin Projecting
    BY <1>2, <1>6, <2>2 DEF ResolveClaim
  <2> QED
    BY <2>1, <2>2
<1>7. ASSUME NEW i \in DOMAIN history, Webhook(i) PROVE Within(sub')
  <2>1. history[i].period \in Nat /\ history[i].period <= Remote.period
    <3>1. history[i] \in Reported
      BY DEF ItemTypes, Histories
    <3> QED
      BY <3>1 DEF ItemTypes, Histories, Reported
  <2> QED
    BY <1>2, <1>7, <2>1, WebhookRow DEF Within
<1>8. ASSUME NEW m \in Migration, mig[m].status # "none",
             sub' = sub \/ \E read, reported : sub' = ProjectedTo(mig[m].target, read, reported)
      PROVE  Within(sub')
  <2>1. mig[m].target \in Item
    BY <1>8 DEF ItemTypes, Quotes, Quoted
  <2> QED
    BY <2>1, <1>2, <1>8, ProjectedToRow DEF Within
<1>9. ASSUME NEW a \in Attempt, Project(a) PROVE Within(sub')
  <2>1. serves[a] \in Migration
    BY <1>9 DEF Project, FenceInv, Calls
  <2>2. \/ sub' = sub
        \/ mig[serves[a]].status = "executing" /\ sub' = ProjectedTo(mig[serves[a]].target, run[a].read, run[a].answer)
    BY <1>9 DEF Project, Swaps
  <2> QED
    BY <2>1, <2>2, <1>4, <1>8
<1>10. ASSUME NEW m \in Migration, Settle(m) \/ ResolveMigration(m) PROVE Within(sub')
  <2>1. /\ mig[m].status # "none"
        /\ sub' = sub \/ sub' = ProjectedTo(mig[m].target, sub.status, sub.status)
    BY <1>10 DEF Settle, ResolveMigration, Resolvable
  <2> QED
    BY <2>1, <1>8
<1>11. CASE DirectNext(Migrating)
  <2>1. ASSUME NEW a \in Attempt,
               \/ (\E op \in Operation : Resolve(a, op)) \/ Select(a, Migrating) \/ Claim(a)
               \/ CallProvider(a) \/ CallThrows(a) \/ Dies(a)
        PROVE  sub' = sub
    BY <2>1 DEF Resolve, Select, Claim, CallProvider, CallThrows, Dies
  <2>2. CASE ProviderEvent
    BY <2>2, <1>4 DEF ProviderEvent
  <2> QED
    BY <1>4, <1>5, <1>6, <1>7, <1>11, <2>1, <2>2 DEF DirectNext
<1>12. ASSUME NEW m \in Migration,
             \/ Preview(m) \/ Schedule(m) \/ CancelMigration(m) \/ (\E a \in Attempt : Begin(a, m))
             \/ ObserveMigration(m)
      PROVE  sub' = sub
    BY <1>12 DEF Preview, Schedule, CancelMigration, Begin, ObserveMigration, vars
<1>13. ASSUME NEW a \in Attempt,
             \/ MigrationCall(a) \/ ProjectFails(a)
             \/ FailAttempt(a) \/ RequireReconciliation(a) \/ MigrationDies(a)
      PROVE  sub' = sub
    BY <1>13 DEF MigrationCall, ProjectFails, FailAttempt, RequireReconciliation, MigrationDies
<1>14. CASE UNCHANGED allVars
    BY <1>4, <1>14 DEF allVars
<1>15. CASE Next
    BY <1>4, <1>9, <1>10, <1>11, <1>12, <1>13, <1>15 DEF Next
<1> QED
    BY <1>14, <1>15

----------------------------------------------------------------------------
(* What a migration is about never changes after its preview.              *)

TermsStay ==
    \A m \in Migration :
       /\ mig'[m].source = mig[m].source /\ mig'[m].target = mig[m].target
       /\ mig'[m].period = mig[m].period /\ mig'[m].timing = mig[m].timing
       /\ mig'[m].status # "none" => mig[m].status # "none"

LEMMA SwappedTerms ==
    ASSUME Shapes, NEW m \in Migration, NEW to, NEW next, mig' = Swapped(m, to, next),
           mig[m].status # "none"
    PROVE  TermsStay
    BY DEF Shapes, Swapped, RowFields, TermsStay

LEMMA ResolvedTerms ==
    ASSUME Shapes, NEW m \in Migration, NEW to, NEW outcome, NEW active, NEW next,
           mig' = Resolved(m, to, outcome, active, next), mig[m].status # "none"
    PROVE  TermsStay
    BY DEF Shapes, Resolved, RowFields, TermsStay

LEMMA TermsNext ==
    ASSUME FenceInv, [Next]_allVars, \A m \in Migration : ~Preview(m)
    PROVE  TermsStay
<1>0. Shapes
    BY DEF FenceInv
<1>1. CASE mig' = mig
    BY <1>1 DEF TermsStay
<1>2. ASSUME NEW m \in Migration,
             \/ Schedule(m) \/ CancelMigration(m) \/ Settle(m) \/ (\E a \in Attempt : Begin(a, m))
      PROVE  TermsStay
  <2>1. mig[m].status # "none" /\ \E to, next : mig' = Swapped(m, to, next)
    BY <1>2 DEF Schedule, CancelMigration, Settle, Begin, Startable, Swaps
  <2> QED
    BY <1>0, <2>1, SwappedTerms
<1>3. ASSUME NEW m \in Migration, ResolveMigration(m) PROVE TermsStay
  <2>1. mig[m].status # "none"
        /\ \E to, outcome, active, next : mig' = Resolved(m, to, outcome, active, next)
    BY <1>3 DEF ResolveMigration, Resolvable
  <2> QED
    BY <1>0, <2>1, ResolvedTerms
<1>4. ASSUME NEW m \in Migration, ObserveMigration(m) PROVE TermsStay
    BY <1>0, <1>4 DEF ObserveMigration, TermsStay, Shapes, RowFields
<1>5. ASSUME NEW a \in Attempt, Project(a) \/ FailAttempt(a) \/ RequireReconciliation(a)
      PROVE  TermsStay
  <2>1. serves[a] \in Migration
    BY <1>5 DEF Project, FailAttempt, RequireReconciliation, FenceInv, Calls
  <2>2. \/ mig' = mig
        \/ mig[serves[a]].status # "none" /\ \E to, next : mig' = Swapped(serves[a], to, next)
    BY <1>5 DEF Project, FailAttempt, RequireReconciliation, Swaps
  <2> QED
    BY <1>0, <1>1, <2>1, <2>2, SwappedTerms
<1>6. ASSUME NEW a \in Attempt, MigrationCall(a) \/ ProjectFails(a) \/ MigrationDies(a)
      PROVE  mig' = mig
    BY <1>6 DEF MigrationCall, ProjectFails, MigrationDies
<1>7. CASE UNCHANGED allVars
    BY <1>1, <1>7 DEF allVars
<1>8. CASE Next
    BY <1>1, <1>2, <1>3, <1>4, <1>5, <1>6, <1>8 DEF Next
<1> QED
    BY <1>7, <1>8

LEMMA QuotesNext ==
    ASSUME FenceInv, ItemTypes, [Next]_allVars
    PROVE  Quotes'
<1>1. Grows
    BY GrowsNext
<1>2. CASE TermsStay
  <2> SUFFICES ASSUME NEW m \in Migration PROVE Quoted(mig[m])'
    BY DEF Quotes
  <2> SUFFICES ASSUME mig'[m].status # "none"
               PROVE  /\ mig'[m].source \in Item /\ mig'[m].target \in Item
                      /\ mig'[m].period \in Nat /\ mig'[m].period <= Remote'.period
    BY DEF Quoted
  <2>1. /\ mig[m].source \in Item /\ mig[m].target \in Item
        /\ mig[m].period \in Nat /\ mig[m].period <= Remote.period
    BY <1>2 DEF ItemTypes, Quotes, Quoted, TermsStay
  <2>2. mig[m].period <= Remote'.period
    BY <1>1, <2>1 DEF Grows
  <2> QED
    BY <1>2, <2>1, <2>2 DEF TermsStay
<1>3. ASSUME NEW m \in Migration, Preview(m) PROVE Quotes'
  <2>1. PICK timing \in Timing, target \in Item :
           mig' = [mig EXCEPT ![m] = Row("previewed", timing, sub.item, target, sub.period, TRUE)]
    BY <1>3 DEF Preview
  <2>2. \A n \in Migration \ {m} : mig'[n] = mig[n]
    BY <2>1 DEF FenceInv, Shapes
  <2>3. mig'[m] = Row("previewed", timing, sub.item, target, sub.period, TRUE)
    BY <2>1 DEF FenceInv, Shapes
  <2>4. UNCHANGED history
    BY <1>3 DEF Preview, vars
  <2>5. Quoted(mig[m])'
    BY <2>3, <2>4 DEF Quoted, Row, ItemTypes, SubRow, Remote
  <2>6. ASSUME NEW n \in Migration \ {m} PROVE Quoted(mig[n])'
    BY <2>2, <2>4, <2>6 DEF Quoted, ItemTypes, Quotes, Remote
  <2> QED
    BY <2>5, <2>6 DEF Quotes
<1> QED
    BY <1>2, <1>3, TermsNext

----------------------------------------------------------------------------
(* What the calls ask for.                                                 *)

LEMMA RequestMoves ==
    ASSUME FenceInv, ItemTypes, NEW a \in Attempt, NEW r, Asked(r), run' = [run EXCEPT ![a] = r]
    PROVE  Requests'
    BY DEF FenceInv, Shapes, ItemTypes, Requests, Asked

LEMMA EndsRequests ==
    ASSUME FenceInv, ItemTypes, NEW a \in Attempt,
           Ends(a) \/ (LeavesClaim(a) /\ run[a].pc # "resolved")
    PROVE  Requests'
<1>1. Asked(run[a]) /\ DOMAIN run[a] = RunFields
    BY DEF FenceInv, Shapes, ItemTypes, Requests
<1>2. CASE Ends(a)
  <2> DEFINE r == [Idle EXCEPT !.pc = "ended", !.stale = run[a].stale]
  <2>1. Asked(r)
    BY <1>1 DEF Asked, Idle, Call, ItemOperations
  <2> QED
    BY <1>2, <2>1, RequestMoves DEF Ends
<1>3. CASE LeavesClaim(a) /\ run[a].pc # "resolved"
  <2> DEFINE r == [run[a] EXCEPT !.pc = "ended", !.read = "active", !.answer = "active"]
  <2>1. Asked(r)
    BY <1>1, <1>3 DEF Asked, RunFields
  <2> QED
    BY <1>3, <2>1, RequestMoves DEF LeavesClaim
<1> QED
    BY <1>2, <1>3

LEMMA RequestsNext ==
    ASSUME FenceInv, ItemTypes, [Next]_allVars
    PROVE  Requests'
<1> USE SubscriptionAssumption, MigrationAssumption
<1>0. CASE run' = run
    BY <1>0 DEF ItemTypes, Requests, Asked
<1>1. ASSUME NEW a \in Attempt PROVE Asked(run[a]) /\ DOMAIN run[a] = RunFields
    BY DEF FenceInv, Shapes, ItemTypes, Requests
<1>2. ASSUME NEW a \in Attempt, NEW op \in Operation, Resolve(a, op) PROVE Requests'
  <2>1. PICK want \in Wants(op) :
           run' = [run EXCEPT ![a] = Call("resolved", op, sub.status,
                                          IF op = "change_apply" THEN sub.item ELSE NoItem, want)]
    BY <1>2 DEF Resolve
  <2> DEFINE item == IF op = "change_apply" THEN sub.item ELSE NoItem
  <2>2. op \in ItemOperations => want \in Item
    BY DEF Wants, ItemOperations
  <2>3. Asked(Call("resolved", op, sub.status, item, want))
    <3> HIDE DEF item
    <3> QED
      BY <2>2, <1>2 DEF Asked, Call
  <2> HIDE DEF item
  <2>4. run' = [run EXCEPT ![a] = Call("resolved", op, sub.status, item, want)]
    BY <2>1 DEF item
  <2> QED
    BY <2>3, <2>4, RequestMoves
<1>3. ASSUME NEW a \in Attempt, Select(a, Migrating) PROVE Requests'
  <2> DEFINE item == IF run[a].op \in ItemOperations THEN sub.item ELSE NoItem
             r == [run[a] EXCEPT !.pc = "selected", !.item = item]
  <2>1. CASE Selectable(a, Migrating)
    <3>1. run' = [run EXCEPT ![a] = r]
      BY <1>3, <2>1 DEF Select
    <3>2. run[a].pc = "resolved" /\ (run[a].op \in ItemOperations => item \in Item)
      BY <1>3 DEF Select, ItemTypes, SubRow
    <3>3. Asked(r)
      <4> HIDE DEF item
      <4> QED
        BY <1>1, <3>2 DEF Asked, RunFields
    <3> HIDE DEF r
    <3> QED
      BY <3>1, <3>3, RequestMoves
  <2>2. CASE ~Selectable(a, Migrating)
    BY <1>3, <2>2, EndsRequests DEF Select
  <2> QED
    BY <2>1, <2>2
<1>4. ASSUME NEW a \in Attempt, Claim(a) PROVE Requests'
  <2> DEFINE stale == run[a].item \notin {NoItem, sub.item}
             r == [run[a] EXCEPT !.pc = "calling", !.stale = stale]
  <2>1. CASE fence = NoAttempt
    <3>1. run' = [run EXCEPT ![a] = r]
      BY <1>4, <2>1 DEF Claim
    <3>2. run[a].pc = "selected" /\ run[a].op # "migrate"
      BY <1>4 DEF Claim, FenceInv, Calls
    <3>3. stale \in BOOLEAN
      OBVIOUS
    <3>4. Asked(r)
      <4> HIDE DEF stale
      <4> QED
        BY <1>1, <3>2, <3>3 DEF Asked, RunFields
    <3> HIDE DEF r
    <3> QED
      BY <3>1, <3>4, RequestMoves
  <2>2. CASE fence # NoAttempt
    BY <1>4, <2>2, EndsRequests DEF Claim
  <2> QED
    BY <2>1, <2>2
<1>5. ASSUME NEW a \in Attempt, CallProvider(a) PROVE Requests'
  <2>1. PICK status : run' = [run EXCEPT ![a] = [run[a] EXCEPT !.pc = "answered", !.answer = status]]
    BY <1>5 DEF CallProvider
  <2>2. run[a].pc = "calling"
    BY <1>5 DEF CallProvider
  <2>3. Asked([run[a] EXCEPT !.pc = "answered", !.answer = status])
    BY <1>1, <2>2 DEF Asked, RunFields
  <2> QED
    BY <2>1, <2>3, RequestMoves
<1>6. ASSUME NEW a \in Attempt, CallThrows(a) \/ Persist(a) \/ Dies(a) PROVE Requests'
    BY <1>6, EndsRequests DEF CallThrows, Persist, Dies
<1>7. ASSUME NEW a \in Attempt, ResolveClaim(a) PROVE Requests'
  <2> DEFINE stale == run[a].stale \/ (truth[a] /\ run[a].op = "change_apply")
             r == [run[a] EXCEPT !.stale = stale]
  <2>1. run' = [run EXCEPT ![a] = r]
    BY <1>7 DEF ResolveClaim
  <2>2. run[a].pc \notin {"idle", "resolved", "selected", "calling"}
    BY <1>7 DEF ResolveClaim, FenceInv, Calls
  <2>3. stale \in BOOLEAN
    OBVIOUS
  <2>4. Asked(r)
    <3> HIDE DEF stale
    <3> QED
      BY <1>1, <2>2, <2>3 DEF Asked, RunFields
  <2> HIDE DEF r
  <2> QED
    BY <2>1, <2>4, RequestMoves
<1>8. ASSUME NEW m \in Migration, NEW a \in Attempt, Begin(a, m) PROVE Requests'
  <2>1. run' = [run EXCEPT ![a] = Call("calling", "migrate", sub.status, NoItem, NoItem)]
    BY <1>8 DEF Begin
  <2>2. Asked(Call("calling", "migrate", sub.status, NoItem, NoItem))
    BY DEF Asked, Call, ItemOperations
  <2> QED
    BY <2>1, <2>2, RequestMoves
<1>9. ASSUME NEW a \in Attempt, MigrationCall(a) PROVE Requests'
  <2>1. /\ run[a].op = "migrate"
        /\ \/ \E pc \in {"refused", "unknown", "ended"} :
                 run' = [run EXCEPT ![a] = [run[a] EXCEPT !.pc = pc]]
           \/ \E pc \in {"answered", "unknown", "ended"} : \E status :
                 run' = [run EXCEPT ![a] = [run[a] EXCEPT !.pc = pc, !.answer = status,
                                                          !.stale = RenewedSince(a)]]
           \/ \E pc \in {"answered", "unknown", "ended"} :
                 run' = [run EXCEPT ![a] = [run[a] EXCEPT !.pc = pc, !.stale = RenewedSince(a)]]
    <3>1. ASSUME NEW pc, NEW stale,
                 run' = [run EXCEPT ![a].pc = pc, ![a].stale = stale]
          PROVE  run' = [run EXCEPT ![a] = [run[a] EXCEPT !.pc = pc, !.stale = stale]]
      BY <3>1 DEF FenceInv, Shapes
    <3>2. ASSUME NEW pc, NEW status, NEW stale,
                 run' = [run EXCEPT ![a].pc = pc, ![a].answer = status, ![a].stale = stale]
          PROVE  run' = [run EXCEPT ![a] = [run[a] EXCEPT !.pc = pc, !.answer = status,
                                                          !.stale = stale]]
      BY <3>2 DEF FenceInv, Shapes
    <3>3. ASSUME run' = [run EXCEPT ![a].pc = "answered", ![a].answer = Remote.status,
                                    ![a].stale = RenewedSince(a)]
          PROVE  \E pc \in {"answered", "unknown", "ended"} : \E status :
                    run' = [run EXCEPT ![a] = [run[a] EXCEPT !.pc = pc, !.answer = status,
                                                             !.stale = RenewedSince(a)]]
      <4>1. run' = [run EXCEPT ![a] = [run[a] EXCEPT !.pc = "answered", !.answer = Remote.status,
                                                     !.stale = RenewedSince(a)]]
        BY <3>2, <3>3
      <4> QED
        BY <4>1
    <3>4. ASSUME NEW pc \in LostAnswer,
                 run' = [run EXCEPT ![a].pc = pc, ![a].stale = RenewedSince(a)]
          PROVE  \E p \in {"answered", "unknown", "ended"} :
                    run' = [run EXCEPT ![a] = [run[a] EXCEPT !.pc = p, !.stale = RenewedSince(a)]]
      BY <3>1, <3>4 DEF LostAnswer
    <3>5. ASSUME NEW pc \in LostAnswer \cup {"refused"}, run' = [run EXCEPT ![a].pc = pc]
          PROVE  \E p \in {"refused", "unknown", "ended"} :
                    run' = [run EXCEPT ![a] = [run[a] EXCEPT !.pc = p]]
      BY <3>5 DEF LostAnswer
    <3>6. run[a].op = "migrate"
      BY <1>9 DEF MigrationCall
    <3> QED
      BY <1>9, <3>3, <3>4, <3>5, <3>6 DEF MigrationCall
  <2>2. ASSUME NEW pc \in {"answered", "refused", "unknown", "ended"}, NEW status
        PROVE  /\ Asked([run[a] EXCEPT !.pc = pc])
               /\ Asked([run[a] EXCEPT !.pc = pc, !.stale = RenewedSince(a)])
               /\ Asked([run[a] EXCEPT !.pc = pc, !.answer = status, !.stale = RenewedSince(a)])
    <3>1. RenewedSince(a) \in BOOLEAN
      BY DEF RenewedSince
    <3> QED
      BY <1>1, <2>1, <2>2, <3>1 DEF Asked, RunFields, ItemOperations
  <2> QED
    BY <2>1, <2>2, RequestMoves
<1>10. ASSUME NEW a \in Attempt, Project(a) \/ ProjectFails(a) PROVE Requests'
  <2>1. CASE Ends(a)
    BY <2>1, EndsRequests
  <2>2. CASE run' = [run EXCEPT ![a] = [run[a] EXCEPT !.pc = "unknown"]]
    <3>1. run[a].op = "migrate"
      BY <1>10 DEF Project, ProjectFails
    <3>2. Asked([run[a] EXCEPT !.pc = "unknown"])
      BY <1>1, <3>1 DEF Asked, RunFields, ItemOperations
    <3> QED
      BY <2>2, <3>2, RequestMoves
  <2> QED
    BY <1>10, <2>1, <2>2 DEF Project, ProjectFails
<1>11. ASSUME NEW a \in Attempt, FailAttempt(a) \/ RequireReconciliation(a) \/ MigrationDies(a)
       PROVE  Requests'
    BY <1>11, EndsRequests DEF FailAttempt, RequireReconciliation, MigrationDies
<1>12. CASE ProviderEvent \/ \E i \in DOMAIN history : Webhook(i)
    BY <1>0, <1>12 DEF ProviderEvent, Webhook
<1>13. ASSUME NEW m \in Migration,
             \/ Preview(m) \/ Schedule(m) \/ CancelMigration(m)
             \/ Settle(m) \/ ResolveMigration(m) \/ ObserveMigration(m)
      PROVE  run' = run
    BY <1>13 DEF Preview, Schedule, CancelMigration, Settle, ResolveMigration,
                 ObserveMigration, vars
<1>14. CASE UNCHANGED allVars
    BY <1>0, <1>14 DEF allVars
<1>15. CASE DirectNext(Migrating)
    BY <1>2, <1>3, <1>4, <1>5, <1>6, <1>7, <1>12, <1>15 DEF DirectNext
<1>16. CASE Next
    BY <1>0, <1>8, <1>9, <1>10, <1>11, <1>13, <1>15, <1>16 DEF Next
<1> QED
    BY <1>14, <1>16

LEMMA UndecidedNext ==
    ASSUME FenceInv, ItemTypes, [Next]_allVars
    PROVE  Undecided'
<1> USE SubscriptionAssumption, MigrationAssumption
<1>1. CASE UNCHANGED <<fence, log>>
    BY <1>1 DEF ItemTypes, Undecided
<1>2. CASE fence' = NoAttempt
    BY <1>2 DEF Undecided
<1>3. ASSUME NEW a \in Attempt, log[a] = "none", log' = log, fence' = a PROVE Undecided'
    BY <1>3 DEF Undecided
<1>4. CASE DirectNext(Migrating)
  <2>1. ASSUME NEW a \in Attempt,
               \/ (\E op \in Operation : Resolve(a, op)) \/ Select(a, Migrating)
               \/ CallProvider(a) \/ CallThrows(a) \/ Dies(a)
        PROVE  UNCHANGED <<fence, log>>
    BY <2>1 DEF Resolve, Select, CallProvider, CallThrows, Dies
  <2>2. ASSUME NEW a \in Attempt, Claim(a)
        PROVE  UNCHANGED <<fence, log>> \/ (log[a] = "none" /\ log' = log /\ fence' = a)
    BY <2>2 DEF Claim, FenceInv, Calls
  <2>3. ASSUME NEW a \in Attempt, Persist(a) \/ ResolveClaim(a)
        PROVE  UNCHANGED <<fence, log>> \/ fence' = NoAttempt
    BY <2>3 DEF Persist, ResolveClaim
  <2>4. CASE ProviderEvent \/ \E i \in DOMAIN history : Webhook(i)
    BY <2>4, <1>1 DEF ProviderEvent, Webhook
  <2> QED
    BY <1>1, <1>2, <1>3, <1>4, <2>1, <2>2, <2>3, <2>4 DEF DirectNext
<1>5. ASSUME NEW m \in Migration,
             Preview(m) \/ Schedule(m) \/ CancelMigration(m) \/ ObserveMigration(m)
      PROVE  UNCHANGED <<fence, log>>
    BY <1>5 DEF Preview, Schedule, CancelMigration, ObserveMigration, vars
<1>6. ASSUME NEW m \in Migration, NEW a \in Attempt, Begin(a, m)
      PROVE  log[a] = "none" /\ log' = log /\ fence' = a
    BY <1>6 DEF Begin, FenceInv, Calls
<1>7. ASSUME NEW m \in Migration, Settle(m) \/ ResolveMigration(m)
      PROVE  UNCHANGED <<fence, log>> \/ fence' = NoAttempt
    BY <1>7 DEF Settle, ResolveMigration
<1>8. ASSUME NEW a \in Attempt,
             \/ MigrationCall(a) \/ Project(a) \/ ProjectFails(a)
             \/ FailAttempt(a) \/ RequireReconciliation(a) \/ MigrationDies(a)
      PROVE  UNCHANGED <<fence, log>> \/ fence' = NoAttempt
    BY <1>8 DEF MigrationCall, Project, ProjectFails, FailAttempt, RequireReconciliation,
                MigrationDies
<1>9. CASE UNCHANGED allVars
    BY <1>1, <1>9 DEF allVars
<1>10. CASE Next
    BY <1>1, <1>2, <1>3, <1>4, <1>5, <1>6, <1>7, <1>8, <1>10 DEF Next
<1> QED
    BY <1>9, <1>10

LEMMA ItemTypesNext == FenceInv /\ ItemTypes /\ [Next]_allVars => ItemTypes'
    BY GrowsNext, SubRowNext, QuotesNext, RequestsNext, UndecidedNext DEF ItemTypes, Grows

THEOREM ItemTypesInvariant == Spec => []ItemTypes
    BY ItemTypesInit, ItemTypesNext, FenceInvariant, PTL DEF Spec

\* Only a verdict moves the item of a subscription that is linked to the
\* catalog: its own answer, the operator's word or the settlement of a
\* migration, and each for a change the provider carried out
THEOREM OnlyVerdictsMoveItems == Spec => ItemMovesWithVerdict
<1> DEFINE Moves == sub.canon # NoItem /\ sub'.item # sub.item
                      => \E a \in Attempt : log[a] = "none" /\ log'[a] = "applied" /\ truth[a]
<1>1. ASSUME FenceInv, ItemTypes, [Next]_allVars PROVE Moves
  <2> USE SubscriptionAssumption, MigrationAssumption
  <2>0. CASE sub' = sub
    BY <2>0
  <2>1. ASSUME NEW a \in Attempt, fence = a, truth[a], log' = [log EXCEPT ![a] = "applied"]
        PROVE  Moves
    BY <1>1, <2>1 DEF FenceInv, Shapes, ItemTypes, Undecided
  <2>2. CASE DirectNext(Migrating)
    <3>1. ASSUME NEW a \in Attempt,
                 \/ (\E op \in Operation : Resolve(a, op)) \/ Select(a, Migrating) \/ Claim(a)
                 \/ CallProvider(a) \/ CallThrows(a) \/ Dies(a)
          PROVE  sub' = sub
      BY <3>1 DEF Resolve, Select, Claim, CallProvider, CallThrows, Dies
    <3>2. ASSUME NEW a \in Attempt, Persist(a) \/ ResolveClaim(a) PROVE Moves
      <4>1. \/ sub' = sub
            \/ fence = a /\ truth[a] /\ log' = [log EXCEPT ![a] = "applied"]
        BY <1>1, <3>2 DEF Persist, ResolveClaim, Truthful, FenceInv, Calls
      <4> QED
        BY <4>1, <2>0, <2>1
    <3>3. CASE ProviderEvent
      BY <3>3, <2>0 DEF ProviderEvent
    <3>4. ASSUME NEW i \in DOMAIN history, Webhook(i) PROVE Moves
      BY <1>1, <3>4, WebhookRow
    <3> QED
      BY <2>0, <2>2, <3>1, <3>2, <3>3, <3>4 DEF DirectNext
  <2>3. ASSUME NEW a \in Attempt, Project(a) PROVE Moves
    <3>1. \/ sub' = sub
          \/ fence = a /\ truth[a] /\ log' = [log EXCEPT ![a] = "applied"]
      BY <1>1, <2>3 DEF Project, FenceInv, Calls
    <3> QED
      BY <3>1, <2>0, <2>1
  <2>4. ASSUME NEW m \in Migration, Settle(m) \/ ResolveMigration(m) PROVE Moves
    <3>1. CASE Settle(m)
      <4>1. PICK a \in Attempt : mig[m].token = a /\ truth[a]
        BY <1>1, <3>1 DEF Settle, FenceInv, Rows, Shapes, InFlight
      <4> QED
        BY <4>1, <3>1, <2>1 DEF Settle
    <3>2. CASE ResolveMigration(m)
      <4>1. PICK a \in Attempt : mig[m].token = a
        BY <1>1, <3>2 DEF ResolveMigration, Resolvable, FenceInv, Shapes
      <4>2. sub' = sub \/ (fence = a /\ truth[a] /\ log' = [log EXCEPT ![a] = "applied"])
        BY <4>1, <3>2 DEF ResolveMigration, Truthful
      <4> QED
        BY <4>2, <2>0, <2>1
    <3> QED
      BY <2>4, <3>1, <3>2
  <2>5. ASSUME NEW m \in Migration,
               \/ Preview(m) \/ Schedule(m) \/ CancelMigration(m) \/ (\E a \in Attempt : Begin(a, m))
               \/ ObserveMigration(m)
        PROVE  sub' = sub
    BY <2>5 DEF Preview, Schedule, CancelMigration, Begin, ObserveMigration, vars
  <2>6. ASSUME NEW a \in Attempt,
               \/ MigrationCall(a) \/ ProjectFails(a)
               \/ FailAttempt(a) \/ RequireReconciliation(a) \/ MigrationDies(a)
        PROVE  sub' = sub
    BY <2>6 DEF MigrationCall, ProjectFails, FailAttempt, RequireReconciliation, MigrationDies
  <2>7. CASE UNCHANGED allVars
    BY <2>0, <2>7 DEF allVars
  <2>8. CASE Next
    <3> HIDE DEF Moves
    <3> QED
      BY <2>0, <2>2, <2>3, <2>4, <2>5, <2>6, <2>8 DEF Next
  <2> QED
    BY <1>1, <2>7, <2>8
<1>2. FenceInv /\ ItemTypes /\ [Next]_allVars => [Moves]_allVars
    BY <1>1
<1> QED
    BY <1>2, FenceInvariant, ItemTypesInvariant, PTL DEF Spec, ItemMovesWithVerdict

----------------------------------------------------------------------------
(* The item of a subscription that is linked to the catalog, while no call *)
(* defers a swap.  A deferred swap releases its claim before the renewal   *)
(* puts it into force, and the row does not learn of it.                   *)

Followed == sub.canon # NoItem /\ \A a \in Attempt : run[a].stale = FALSE

InStep == Remote.item = sub.item /\ Remote.pending = NoItem

\* How far the provider may be ahead of the row, by what holds the claim: one
\* item, the one the holder asked for
DirectAhead(a) ==
    /\ run[a].op \in ItemOperations => run[a].item = sub.item
    /\ Remote.pending = NoItem
    /\ Remote.item = IF truth[a] /\ run[a].op \in ItemOperations THEN Target(run[a]) ELSE sub.item

\* One put off to the renewal is pending until that, and in force after it
MigrationAhead(a) ==
    LET m == serves[a]
    IN  IF ~truth[a] THEN InStep
        ELSE \/ /\ mig[m].timing = "nextRenewal"
                /\ Remote.period = mig[m].period /\ Remote.pending = mig[m].target
             \/ /\ mig[m].timing = "nextRenewal" => Remote.period > mig[m].period
                /\ Remote.item = mig[m].target /\ Remote.pending = NoItem

Ahead(a) == IF serves[a] = NoMigration THEN DirectAhead(a) ELSE MigrationAhead(a)

Follows ==
    Followed => /\ fence = NoAttempt => InStep
                /\ \A a \in Attempt : fence = a => Ahead(a)

LEMMA FollowsInit == MigInit => Follows
<1> SUFFICES ASSUME MigInit PROVE InStep
    BY SubscriptionAssumption DEF Follows, MigInit, Init
<1>1. /\ history = << [status |-> "active", item |-> FirstItem, pending |-> NoItem, period |-> 1] >>
      /\ sub.item = FirstItem
    BY DEF MigInit, Init
<1> QED
    BY <1>1 DEF InStep, Remote

\* A call that is stale stays so
LEMMA StaleStays ==
    ASSUME FenceInv, ItemTypes, [Next]_allVars, NEW b \in Attempt, run'[b].stale = FALSE
    PROVE  run[b].stale = FALSE
<1> USE MigrationAssumption
<1>0. CASE run' = run
    BY <1>0
<1>1. \A a \in Attempt : Asked(run[a]) /\ DOMAIN run[a] = RunFields
    BY DEF FenceInv, Shapes, ItemTypes, Requests
<1>2. ASSUME NEW a \in Attempt, \A c \in Attempt \ {a} : run'[c] = run[c],
             run[a].stale = FALSE \/ run'[a].stale = run[a].stale
      PROVE  run[b].stale = FALSE
    BY <1>2
<1>3. ASSUME NEW a \in Attempt, Ends(a) \/ LeavesClaim(a)
      PROVE  (\A c \in Attempt \ {a} : run'[c] = run[c]) /\ run'[a].stale = run[a].stale
  <2>1. CASE Ends(a)
    <3>1. [Idle EXCEPT !.pc = "ended", !.stale = run[a].stale].stale = run[a].stale
      BY DEF Idle, Call
    <3> QED
      BY <2>1, <3>1 DEF Ends, FenceInv, Shapes
  <2>2. CASE LeavesClaim(a)
    BY <1>1, <2>2 DEF LeavesClaim, RunFields, FenceInv, Shapes
  <2> QED
    BY <1>3, <2>1, <2>2
<1>4. ASSUME NEW a \in Attempt,
             \/ (\E op \in Operation : Resolve(a, op)) \/ Select(a, Migrating) \/ Claim(a)
             \/ (\E m \in Migration : Begin(a, m)) \/ MigrationCall(a)
      PROVE  (\A c \in Attempt \ {a} : run'[c] = run[c]) /\ run[a].stale = FALSE
  <2>1. run[a].stale = FALSE
    BY <1>1, <1>4 DEF Resolve, Select, Claim, Begin, MigrationCall, Asked
  <2>2. \A c \in Attempt \ {a} : run'[c] = run[c]
    BY <1>3, <1>4 DEF Resolve, Select, Claim, Begin, MigrationCall, FenceInv, Shapes
  <2> QED
    BY <2>1, <2>2
<1>5. ASSUME NEW a \in Attempt, CallProvider(a) \/ ResolveClaim(a)
      PROVE  run[b].stale = FALSE
  <2>1. \A c \in Attempt \ {a} : run'[c] = run[c]
    BY <1>5 DEF CallProvider, ResolveClaim, FenceInv, Shapes
  <2>2. CASE CallProvider(a)
    BY <1>1, <1>2, <2>1, <2>2 DEF CallProvider, RunFields, FenceInv, Shapes
  <2>3. CASE ResolveClaim(a)
    <3>1. run'[a].stale = (run[a].stale \/ (truth[a] /\ run[a].op = "change_apply"))
      BY <1>1, <2>3 DEF ResolveClaim, RunFields, FenceInv, Shapes
    <3>2. CASE b = a
      <4>1. run[a].stale \in BOOLEAN /\ (run[a].stale \/ (truth[a] /\ run[a].op = "change_apply")) = FALSE
        BY <1>1, <3>1, <3>2 DEF Asked
      <4> QED
        BY <4>1, <3>2, Zenon
    <3>3. CASE b # a
      BY <2>1, <3>3
    <3> QED
      BY <3>2, <3>3
  <2> QED
    BY <1>5, <2>2, <2>3
<1>6. ASSUME NEW a \in Attempt,
             \/ CallThrows(a) \/ Persist(a) \/ Dies(a)
             \/ FailAttempt(a) \/ RequireReconciliation(a) \/ MigrationDies(a)
      PROVE  Ends(a) \/ LeavesClaim(a)
    BY <1>6 DEF CallThrows, Persist, Dies, FailAttempt, RequireReconciliation, MigrationDies
<1>7. ASSUME NEW a \in Attempt, Project(a) \/ ProjectFails(a)
      PROVE  (\A c \in Attempt \ {a} : run'[c] = run[c]) /\ run'[a].stale = run[a].stale
  <2>1. CASE Ends(a)
    BY <1>3, <2>1
  <2>2. CASE run' = [run EXCEPT ![a].pc = "unknown"]
    BY <1>1, <2>2 DEF RunFields, FenceInv, Shapes
  <2> QED
    BY <1>7, <2>1, <2>2 DEF Project, ProjectFails
<1>8. CASE ProviderEvent \/ \E i \in DOMAIN history : Webhook(i)
    BY <1>0, <1>8 DEF ProviderEvent, Webhook
<1>9. ASSUME NEW m \in Migration,
             \/ Preview(m) \/ Schedule(m) \/ CancelMigration(m)
             \/ Settle(m) \/ ResolveMigration(m) \/ ObserveMigration(m)
      PROVE  run' = run
    BY <1>9 DEF Preview, Schedule, CancelMigration, Settle, ResolveMigration,
                ObserveMigration, vars
<1>10. CASE UNCHANGED allVars
    BY <1>0, <1>10 DEF allVars
<1>11. CASE DirectNext(Migrating)
    BY <1>2, <1>3, <1>4, <1>5, <1>6, <1>8, <1>11 DEF DirectNext
<1>12. CASE Next
    BY <1>0, <1>2, <1>3, <1>4, <1>6, <1>7, <1>9, <1>11, <1>12 DEF Next
<1> QED
    BY <1>10, <1>12

\* A subscription is not linked to the catalog later on
LEMMA CanonStays ==
    ASSUME FenceInv, ItemTypes, [Next]_allVars, sub'.canon # NoItem
    PROVE  sub.canon # NoItem
<1> USE SubscriptionAssumption, MigrationAssumption
<1>0. CASE sub' = sub
    BY <1>0
<1>1. RowOf(sub)
    BY DEF ItemTypes, SubRow, RowOf
<1>2. ASSUME NEW a \in Attempt, Persist(a) PROVE sub.canon # NoItem
  <2>1. Asked(run[a]) /\ run[a].pc # "resolved"
    BY <1>2 DEF Persist, ItemTypes, Requests
  <2>2. sub' = sub \/ sub' = Patched(sub, run[a])
    BY <1>2 DEF Persist
  <2> QED
    BY <1>0, <1>1, <2>1, <2>2, PatchedRow
<1>3. ASSUME NEW a \in Attempt, ResolveClaim(a) PROVE sub.canon # NoItem
  <2>1. CASE sub' # sub
    <3>1. run[a].op \in Projecting /\ sub' = Projected(sub, run[a].op, Target(run[a]))
      BY <1>3, <2>1 DEF ResolveClaim
    <3>2. Asked(run[a]) /\ run[a].pc # "resolved" /\ run[a].op \in ItemOperations
      BY <1>3, <3>1 DEF ResolveClaim, ItemTypes, Requests, FenceInv, Calls, Projecting, ItemOperations
    <3> QED
      BY <1>1, <3>1, <3>2, TargetIsItem, ProjectedRow
  <2> QED
    BY <1>0, <2>1
<1>4. ASSUME NEW i \in DOMAIN history, Webhook(i) PROVE sub.canon # NoItem
    BY <1>4, WebhookRow
<1>5. ASSUME NEW m \in Migration, NEW advanced \in BOOLEAN, CanonicalSource(m, advanced),
             mig[m].status # "none"
      PROVE  sub.canon # NoItem
    BY <1>5 DEF CanonicalSource, ItemTypes, Quotes, Quoted
<1>6. ASSUME NEW a \in Attempt, Project(a) PROVE sub' = sub \/ sub.canon # NoItem
  <2>1. serves[a] \in Migration
    BY <1>6 DEF Project, FenceInv, Calls
  <2>2. sub' = sub \/ (CanonicalSource(serves[a], FALSE) /\ mig[serves[a]].status # "none")
    BY <1>6 DEF Project, Swaps
  <2> QED
    BY <2>1, <2>2, <1>5
<1>7. ASSUME NEW m \in Migration, Settle(m) \/ ResolveMigration(m)
      PROVE  sub' = sub \/ sub.canon # NoItem
  <2>1. \/ sub' = sub
        \/ (CanonicalSource(m, TRUE) \/ CanonicalSource(m, FALSE)) /\ mig[m].status # "none"
    BY <1>7 DEF Settle, ResolveMigration, Resolvable
  <2> QED
    BY <2>1, <1>5
<1>8. CASE DirectNext(Migrating)
  <2>1. ASSUME NEW a \in Attempt,
               \/ (\E op \in Operation : Resolve(a, op)) \/ Select(a, Migrating) \/ Claim(a)
               \/ CallProvider(a) \/ CallThrows(a) \/ Dies(a)
        PROVE  sub' = sub
    BY <2>1 DEF Resolve, Select, Claim, CallProvider, CallThrows, Dies
  <2>2. CASE ProviderEvent
    BY <2>2, <1>0 DEF ProviderEvent
  <2> QED
    BY <1>0, <1>2, <1>3, <1>4, <1>8, <2>1, <2>2 DEF DirectNext
<1>9. ASSUME NEW m \in Migration,
             \/ Preview(m) \/ Schedule(m) \/ CancelMigration(m) \/ (\E a \in Attempt : Begin(a, m))
             \/ ObserveMigration(m)
      PROVE  sub' = sub
    BY <1>9 DEF Preview, Schedule, CancelMigration, Begin, ObserveMigration, vars
<1>10. ASSUME NEW a \in Attempt,
             \/ MigrationCall(a) \/ ProjectFails(a)
             \/ FailAttempt(a) \/ RequireReconciliation(a) \/ MigrationDies(a)
      PROVE  sub' = sub
    BY <1>10 DEF MigrationCall, ProjectFails, FailAttempt, RequireReconciliation, MigrationDies
<1>11. CASE UNCHANGED allVars
    BY <1>0, <1>11 DEF allVars
<1>12. CASE Next
    BY <1>0, <1>6, <1>7, <1>8, <1>9, <1>10, <1>12 DEF Next
<1> QED
    BY <1>11, <1>12

LEMMA FollowedStays ==
    ASSUME FenceInv, ItemTypes, [Next]_allVars, Followed'
    PROVE  Followed
<1>1. sub.canon # NoItem
    BY CanonStays DEF Followed
<1>2. \A a \in Attempt : run[a].stale = FALSE
    BY StaleStays DEF Followed
<1> QED
    BY <1>1, <1>2 DEF Followed

\* Steps that move neither the provider nor the claim, and leave the holder's
\* request as it is
LEMMA HolderWaits ==
    ASSUME Follows, Followed' => Followed, NoAttempt \notin Attempt,
           UNCHANGED <<history, fence, truth, serves>>, Followed => sub'.item = sub.item,
           \A a \in Attempt : fence = a /\ serves[a] = NoMigration =>
              run'[a].op = run[a].op /\ run'[a].item = run[a].item /\ run'[a].want = run[a].want,
           \A a \in Attempt : fence = a /\ serves[a] # NoMigration =>
              /\ mig'[serves[a]].target = mig[serves[a]].target
              /\ mig'[serves[a]].timing = mig[serves[a]].timing
              /\ mig'[serves[a]].period = mig[serves[a]].period
    PROVE  Follows'
<1> SUFFICES ASSUME Followed'
             PROVE  /\ fence = NoAttempt => InStep'
                    /\ \A a \in Attempt : fence = a => Ahead(a)'
    BY DEF Follows
<1>1. Followed /\ sub'.item = sub.item /\ Remote' = Remote
    BY DEF Remote
<1>2. InStep => InStep'
    BY <1>1 DEF InStep
<1>3. ASSUME NEW a \in Attempt, fence = a, serves[a] = NoMigration PROVE Ahead(a)'
  <2>1. DirectAhead(a) /\ truth'[a] = truth[a] /\ serves'[a] = NoMigration
    BY <1>1, <1>3 DEF Follows, Ahead
  <2>2. run'[a].op = run[a].op /\ run'[a].item = run[a].item /\ run'[a].want = run[a].want
    BY <1>3
  <2>3. Target(run[a])' = Target(run[a])
    BY <2>2 DEF Target, SwapTarget, QuantityTarget
  <2>4. DirectAhead(a)'
    BY <1>1, <2>1, <2>2, <2>3 DEF DirectAhead
  <2> QED
    BY <2>1, <2>4 DEF Ahead
<1>4. ASSUME NEW a \in Attempt, fence = a, serves[a] # NoMigration PROVE Ahead(a)'
  <2>1. MigrationAhead(a) /\ truth'[a] = truth[a] /\ serves'[a] = serves[a]
    BY <1>1, <1>4 DEF Follows, Ahead
  <2>2. MigrationAhead(a)'
    BY <1>1, <1>2, <1>4, <2>1 DEF MigrationAhead
  <2> QED
    BY <1>4, <2>1, <2>2 DEF Ahead
<1> QED
    BY <1>1, <1>2, <1>3, <1>4 DEF Follows

\* What releases the claim leaves the row at the provider's item
LEMMA HolderReleases ==
    ASSUME Followed' => Followed, fence' = NoAttempt, UNCHANGED history, NoAttempt \notin Attempt,
           Followed' => Remote.item = sub'.item /\ Remote.pending = NoItem
    PROVE  Follows'
<1>1. Followed' => InStep'
    BY DEF InStep, Remote
<1> QED
    BY <1>1 DEF Follows

----------------------------------------------------------------------------

\* Steps of a direct mutation that does not hold the claim
LEMMA OthersWait ==
    ASSUME FenceInv, Follows, Followed' => Followed, NEW a \in Attempt, fence # a \/ serves[a] # NoMigration,
           UNCHANGED <<history, sub, fence, truth, mig, serves>>,
           \A b \in Attempt \ {a} : run'[b] = run[b]
    PROVE  Follows'
<1>1. \A b \in Attempt : fence = b /\ serves[b] = NoMigration => run'[b] = run[b]
    OBVIOUS
<1> QED
    BY <1>1, HolderWaits, SubscriptionAssumption

LEMMA ClaimFollows ==
    ASSUME FenceInv, ItemTypes, Follows, Followed' => Followed, NEW a \in Attempt, Claim(a),
           fence = NoAttempt, UNCHANGED <<mig, serves>>
    PROVE  Follows'
<1> USE SubscriptionAssumption, MigrationAssumption
<1> SUFFICES ASSUME Followed' PROVE Ahead(a)'
  <2>1. fence' = a
    BY DEF Claim
  <2> QED
    BY <2>1 DEF Follows
<1>1. /\ run[a].pc = "selected" /\ ~truth[a] /\ serves[a] = NoMigration
      /\ UNCHANGED <<history, sub, truth>>
    BY DEF Claim, FenceInv, Calls
<1>2. /\ run'[a].op = run[a].op /\ run'[a].item = run[a].item
      /\ run'[a].stale = (run[a].item \notin {NoItem, sub.item})
  <2> DEFINE stale == run[a].item \notin {NoItem, sub.item}
  <2>1. run' = [run EXCEPT ![a].pc = "calling", ![a].stale = stale]
    BY DEF Claim
  <2> HIDE DEF stale
  <2>2. /\ run'[a].op = run[a].op /\ run'[a].item = run[a].item /\ run'[a].stale = stale
    BY <2>1 DEF FenceInv, Shapes, RunFields
  <2> QED
    BY <2>2 DEF stale
<1>3. run[a].op \in ItemOperations => run[a].item = sub.item
  <2>1. run'[a].stale = FALSE
    BY DEF Followed
  <2>2. run[a].op \in ItemOperations => run[a].item \in Item
    BY <1>1 DEF ItemTypes, Requests, Asked
  <2> QED
    BY <1>2, <2>1, <2>2
<1>4. InStep /\ Remote' = Remote
    BY <1>1 DEF Follows, Remote
<1>5. DirectAhead(a)'
    BY <1>1, <1>2, <1>3, <1>4 DEF DirectAhead, InStep
<1> QED
    BY <1>1, <1>5 DEF Ahead

LEMMA CallFollows ==
    ASSUME FenceInv, ItemTypes, Follows, Followed' => Followed, "swap_later" \notin Operation,
           NEW a \in Attempt, run[a].op \in Operation, CallProvider(a) \/ CallThrows(a),
           UNCHANGED <<mig, serves>>
    PROVE  Follows'
<1> USE SubscriptionAssumption, MigrationAssumption
<1>1. /\ run[a].pc = "calling" /\ fence = a /\ ~truth[a] /\ serves[a] = NoMigration
      /\ run[a].op # "swap_later" /\ UNCHANGED <<sub, fence>>
    BY DEF CallProvider, CallThrows, FenceInv, Calls
<1>2. /\ run'[a].op = run[a].op /\ run'[a].item = run[a].item /\ run'[a].want = run[a].want
      /\ \A b \in Attempt \ {a} : run'[b] = run[b]
  <2>1. CASE CallProvider(a)
    <3>1. PICK status : run' = [run EXCEPT ![a].pc = "answered", ![a].answer = status]
      BY <2>1 DEF CallProvider
    <3> QED
      BY <3>1 DEF FenceInv, Shapes, RunFields
  <2>2. CASE CallThrows(a)
    BY <2>2 DEF CallThrows, LeavesClaim, FenceInv, Shapes, RunFields
  <2> QED
    BY <2>1, <2>2
<1>3. CASE UNCHANGED <<history, truth>>
    BY <1>1, <1>2, <1>3, HolderWaits
<1>4. ASSUME Carried(Remote, run[a].op, Target(run[a])) \in Reported,
             history' = Append(history, Carried(Remote, run[a].op, Target(run[a]))),
             truth' = [truth EXCEPT ![a] = TRUE]
      PROVE  Follows'
  <2> DEFINE carried == Carried(Remote, run[a].op, Target(run[a]))
  <2> SUFFICES ASSUME Followed' PROVE Ahead(a)'
    BY <1>1 DEF Follows
  <2>1. DirectAhead(a)
    BY <1>1 DEF Follows, Ahead
  <2>2. run[a].op \in ItemOperations => Target(run[a]) \in Item
    BY <1>1, TargetIsItem DEF ItemTypes, Requests
  <2>3. /\ carried.period = Remote.period /\ carried.pending = Remote.pending
        /\ carried.item = IF run[a].op \in ItemOperations THEN Target(run[a]) ELSE Remote.item
    BY <1>1, <2>2, RemoteIsReported, CarriedIsReported DEF ItemTypes
  <2>4. Remote.period <= carried.period
    BY <2>3, RemoteIsReported DEF ItemTypes, Reported
  <2>5. Remote' = carried
    <3> HIDE DEF carried
    <3> QED
      BY <1>4, <2>4, HistoryGrows DEF ItemTypes, carried
  <2>6. Target(run[a])' = Target(run[a])
    BY <1>2 DEF Target, SwapTarget, QuantityTarget
  <2>7. truth'[a] = TRUE /\ serves'[a] = NoMigration /\ sub'.item = sub.item
    BY <1>1, <1>4 DEF FenceInv, Shapes
  <2> HIDE DEF carried
  <2>8. DirectAhead(a)'
    BY <1>1, <1>2, <2>1, <2>3, <2>5, <2>6, <2>7 DEF DirectAhead
  <2> QED
    BY <2>7, <2>8 DEF Ahead
<1> QED
    BY <1>3, <1>4, CallsExtendHistory

LEMMA PersistFollows ==
    ASSUME FenceInv, ItemTypes, Follows, Followed' => Followed, "swap_later" \notin Operation,
           NEW a \in Attempt, run[a].op \in Operation, Persist(a), UNCHANGED <<mig, serves>>
    PROVE  Follows'
<1> USE SubscriptionAssumption, MigrationAssumption
<1>1. /\ run[a].pc = "answered" /\ truth[a] /\ serves[a] = NoMigration
      /\ run[a].op # "swap_later" /\ UNCHANGED <<history, truth>>
    BY DEF Persist, FenceInv, Calls
<1>2. CASE fence # a
  <2>1. \A b \in Attempt \ {a} : run'[b] = run[b]
    BY DEF Persist, Ends, FenceInv, Shapes
  <2> QED
    BY <1>1, <1>2, <2>1, OthersWait DEF Persist
<1>3. CASE fence = a
  <2>1. sub' = Patched(sub, run[a]) /\ fence' = NoAttempt
    BY <1>3 DEF Persist
  <2>2. ASSUME Followed' PROVE Remote.item = sub'.item /\ Remote.pending = NoItem
    <3>1. DirectAhead(a)
      BY <1>1, <1>3, <2>2 DEF Follows, Ahead
    <3>2. Asked(run[a]) /\ RowOf(sub)
      BY DEF ItemTypes, Requests, SubRow, RowOf
    <3>3. sub'.item = IF run[a].op \in ItemOperations THEN Target(run[a]) ELSE sub.item
      BY <1>1, <2>1, <3>1, <3>2, PatchedRow DEF DirectAhead
    <3> QED
      BY <1>1, <3>1, <3>3 DEF DirectAhead
  <2> QED
    BY <1>1, <2>1, <2>2, HolderReleases
<1> QED
    BY <1>2, <1>3

LEMMA ResolveClaimFollows ==
    ASSUME FenceInv, ItemTypes, Follows, Followed' => Followed, "swap_later" \notin Operation,
           NEW a \in Attempt, ResolveClaim(a), UNCHANGED <<mig, serves>>
    PROVE  Follows'
<1> USE SubscriptionAssumption, MigrationAssumption
<1>1. /\ fence = a /\ run[a].op \in Operation /\ serves[a] = NoMigration
      /\ run[a].op # "swap_later" /\ UNCHANGED <<history, truth>> /\ fence' = NoAttempt
      /\ run[a].pc # "resolved"
    BY DEF ResolveClaim, FenceInv, Calls
<1>2. ASSUME Followed' PROVE Remote.item = sub'.item /\ Remote.pending = NoItem
  <2>1. DirectAhead(a)
    BY <1>1, <1>2 DEF Follows, Ahead
  <2>2. CASE truth[a] /\ run[a].op \in Projecting
    <3>1. run[a].op \in {"swap", "quantity_update"} /\ run[a].op \in ItemOperations
      BY <1>1, <2>2 DEF Projecting, ItemOperations
    <3>2. Target(run[a]) \in Item /\ RowOf(sub)
      BY <1>1, <3>1, TargetIsItem DEF ItemTypes, Requests, SubRow, RowOf
    <3>3. sub'.item = Target(run[a])
      <4>1. CASE AtSide(sub, run[a].op, Target(run[a])) /\ UNCHANGED sub
        BY <4>1 DEF AtSide
      <4>2. CASE sub' = Projected(sub, run[a].op, Target(run[a]))
        BY <3>1, <3>2, <4>2, ProjectedRow
      <4> QED
        BY <2>2, <4>1, <4>2 DEF ResolveClaim
    <3> QED
      BY <2>1, <2>2, <3>1, <3>3 DEF DirectAhead
  <2>3. CASE truth[a] /\ run[a].op = "change_apply"
    <3>1. run'[a].stale = (run[a].stale \/ (truth[a] /\ run[a].op = "change_apply"))
      BY DEF ResolveClaim, RunFields, FenceInv, Shapes
    <3>2. run'[a].stale = TRUE
      BY <2>3, <3>1
    <3> QED
      BY <1>2, <3>2 DEF Followed
  <2>4. CASE ~truth[a] \/ run[a].op \notin Projecting \cup {"change_apply"}
    <3>1. sub' = sub
      BY <2>4 DEF ResolveClaim
    <3> QED
      BY <1>1, <2>1, <2>4, <3>1 DEF DirectAhead, Projecting, ItemOperations
  <2> QED
    BY <2>2, <2>3, <2>4
<1> QED
    BY <1>1, <1>2, HolderReleases

LEMMA DirectFollows ==
    ASSUME FenceInv, ItemTypes, Follows, Followed' => Followed, "swap_later" \notin Operation,
           DirectNext(Migrating), UNCHANGED <<mig, serves>>
    PROVE  Follows'
<1> USE SubscriptionAssumption, MigrationAssumption
<1>1. ASSUME NEW a \in Attempt, (\E op \in Operation : Resolve(a, op)) \/ Select(a, Migrating)
      PROVE  Follows'
  <2>1. fence # a /\ UNCHANGED <<history, sub, fence, truth>>
    BY <1>1 DEF Resolve, Select, FenceInv, Calls
  <2>2. \A b \in Attempt \ {a} : run'[b] = run[b]
    BY <1>1 DEF Resolve, Select, Ends, FenceInv, Shapes
  <2> QED
    BY <2>1, <2>2, OthersWait
<1>2. ASSUME NEW a \in Attempt, Claim(a), fence # NoAttempt PROVE Follows'
  <2>1. fence # a /\ UNCHANGED <<history, sub, fence, truth>>
    BY <1>2 DEF Claim, FenceInv, Calls
  <2>2. \A b \in Attempt \ {a} : run'[b] = run[b]
    BY <1>2 DEF Claim, Ends, FenceInv, Shapes
  <2> QED
    BY <2>1, <2>2, OthersWait
<1>3. ASSUME NEW a \in Attempt, Dies(a) PROVE Follows'
  <2>1. UNCHANGED <<history, sub, fence, truth>>
    BY <1>3 DEF Dies
  <2>2. CASE LeavesClaim(a)
    <3>1. /\ run'[a].op = run[a].op /\ run'[a].item = run[a].item /\ run'[a].want = run[a].want
          /\ \A b \in Attempt \ {a} : run'[b] = run[b]
      BY <2>2 DEF LeavesClaim, FenceInv, Shapes, RunFields
    <3> QED
      BY <2>1, <3>1, HolderWaits
  <2>3. CASE run[a].pc \in {"resolved", "selected"} /\ Ends(a)
    <3>1. fence # a /\ \A b \in Attempt \ {a} : run'[b] = run[b]
      BY <2>3 DEF Ends, FenceInv, Calls, Shapes
    <3> QED
      BY <2>1, <3>1, OthersWait
  <2> QED
    BY <1>3, <2>2, <2>3 DEF Dies
<1>4. CASE ProviderEvent
  <2>1. UNCHANGED <<sub, fence, run, truth>>
    BY <1>4 DEF ProviderEvent
  <2>2. /\ Remote.period \in Nat /\ Remote'.period \in Nat
        /\ \/ /\ Remote'.item = Remote.item /\ Remote'.pending = Remote.pending
              /\ Remote'.period = Remote.period
           \/ /\ Remote'.item = IF Remote.pending = NoItem THEN Remote.item ELSE Remote.pending
              /\ Remote'.pending = NoItem
              /\ Remote'.period = Remote.period + 1
    BY <1>4, EventGrows DEF Grows
  <2>3. InStep => InStep'
    BY <2>1, <2>2 DEF InStep
  <2> SUFFICES ASSUME Followed'
               PROVE  /\ fence = NoAttempt => InStep'
                      /\ \A a \in Attempt : fence = a => Ahead(a)'
    BY <2>1 DEF Follows
  <2>4. ASSUME NEW a \in Attempt, fence = a PROVE Ahead(a)'
    <3>1. Ahead(a)
      BY <2>4 DEF Follows
    <3>2. CASE serves[a] = NoMigration
      <4>1. DirectAhead(a) /\ Remote'.item = Remote.item /\ Remote'.pending = NoItem
        BY <2>2, <3>1, <3>2 DEF Ahead, DirectAhead
      <4>2. Target(run[a])' = Target(run[a])
        BY <2>1 DEF Target, SwapTarget, QuantityTarget
      <4>3. DirectAhead(a)'
        BY <2>1, <4>1, <4>2 DEF DirectAhead
      <4> QED
        BY <3>2, <4>3 DEF Ahead
    <3>3. CASE serves[a] # NoMigration
      <4>1. /\ MigrationAhead(a) /\ mig[serves[a]].period \in Nat
            /\ mig[serves[a]].target \in Item
        BY <2>4, <3>1, <3>3, MigrationTarget DEF Ahead
      <4>2. MigrationAhead(a)'
        BY <2>1, <2>2, <2>3, <4>1 DEF MigrationAhead
      <4> QED
        BY <3>3, <4>2 DEF Ahead
    <3> QED
      BY <3>2, <3>3
  <2> QED
    BY <2>3, <2>4 DEF Follows
<1>5. ASSUME NEW i \in DOMAIN history, Webhook(i) PROVE Follows'
  <2>1. UNCHANGED <<history, fence, truth, run>>
    BY <1>5 DEF Webhook
  <2>2. Followed => sub'.item = sub.item
    BY <1>5, WebhookRow DEF Followed
  <2> QED
    BY <2>1, <2>2, HolderWaits
<1>6. ASSUME NEW a \in Attempt, Claim(a), fence = NoAttempt PROVE Follows'
    BY <1>6, ClaimFollows
<1>7. ASSUME NEW a \in Attempt, run[a].op \in Operation, CallProvider(a) \/ CallThrows(a)
      PROVE  Follows'
    BY <1>7, CallFollows
<1>8. ASSUME NEW a \in Attempt, run[a].op \in Operation, Persist(a) PROVE Follows'
    BY <1>8, PersistFollows
<1>9. ASSUME NEW a \in Attempt, ResolveClaim(a) PROVE Follows'
    BY <1>9, ResolveClaimFollows
<1> QED
    BY <1>1, <1>2, <1>3, <1>4, <1>5, <1>6, <1>7, <1>8, <1>9 DEF DirectNext

----------------------------------------------------------------------------

\* Steps of migrations that move neither the provider nor the claim
LEMMA RowsWait ==
    ASSUME FenceInv, ItemTypes, Follows, Followed' => Followed, TermsStay,
           UNCHANGED <<history, sub, fence, truth, serves>>,
           \A a \in Attempt : fence = a /\ serves[a] = NoMigration => run'[a] = run[a]
    PROVE  Follows'
<1>1. \A a \in Attempt : fence = a /\ serves[a] # NoMigration =>
              /\ mig'[serves[a]].target = mig[serves[a]].target
              /\ mig'[serves[a]].timing = mig[serves[a]].timing
              /\ mig'[serves[a]].period = mig[serves[a]].period
    BY MigrationTarget DEF TermsStay
<1> QED
    BY <1>1, HolderWaits, SubscriptionAssumption

LEMMA PreviewFollows ==
    ASSUME FenceInv, ItemTypes, Follows, Followed' => Followed, NEW m \in Migration, Preview(m)
    PROVE  Follows'
<1>1. mig[m].status = "none" /\ UNCHANGED <<history, sub, fence, run, truth, serves>>
    BY DEF Preview, vars
<1>2. \A n \in Migration \ {m} : mig'[n] = mig[n]
    BY DEF Preview, FenceInv, Shapes
<1>3. \A a \in Attempt : fence = a /\ serves[a] # NoMigration => serves[a] \in Migration \ {m}
    BY <1>1 DEF FenceInv, Shapes, Owners, Owner, InFlight
<1> QED
    BY <1>1, <1>2, <1>3, HolderWaits, SubscriptionAssumption

LEMMA BeginFollows ==
    ASSUME FenceInv, ItemTypes, Follows, Followed' => Followed,
           NEW a \in Attempt, NEW m \in Migration, Begin(a, m)
    PROVE  Follows'
<1> USE SubscriptionAssumption, MigrationAssumption
<1>1. /\ fence = NoAttempt /\ fence' = a /\ ~truth[a] /\ UNCHANGED <<history, sub, truth>>
      /\ serves'[a] = m
    BY DEF Begin, FenceInv, Calls, Shapes
<1>2. ASSUME Followed' PROVE Ahead(a)'
  <2>1. InStep'
    BY <1>1, <1>2 DEF Follows, InStep, Remote
  <2>2. MigrationAhead(a)'
    BY <1>1, <2>1 DEF MigrationAhead
  <2> QED
    BY <1>1, <2>2 DEF Ahead
<1> QED
    BY <1>1, <1>2 DEF Follows

LEMMA MigrationCallFollows ==
    ASSUME FenceInv, ItemTypes, Follows, Followed' => Followed, NEW a \in Attempt, MigrationCall(a)
    PROVE  Follows'
<1> USE SubscriptionAssumption, MigrationAssumption
<1>1. /\ fence = a /\ ~truth[a] /\ serves[a] \in Migration
      /\ UNCHANGED <<sub, fence, mig, serves>>
    BY DEF MigrationCall, FenceInv, Calls
<1>2. CASE UNCHANGED <<history, truth>>
    BY <1>1, <1>2, HolderWaits
<1>3. ASSUME history' = Append(history, Changed(serves[a])), truth' = [truth EXCEPT ![a] = TRUE],
             run'[a].stale = RenewedSince(a)
      PROVE  Follows'
  <2> DEFINE m == serves[a]
  <2> SUFFICES ASSUME Followed' PROVE Ahead(a)'
    BY <1>1 DEF Follows
  <2>1. InStep
    BY <1>1 DEF Follows, Ahead, MigrationAhead
  <2>2. mig[m].target \in Item /\ mig[m].period \in Nat /\ mig[m].period <= Remote.period
    BY <1>1, MigrationTarget
  <2>3. Remote.period \in Nat
    BY RemoteIsReported DEF ItemTypes, Reported
  <2>4. Remote.period = mig[m].period
    <3>1. RenewedSince(a) = FALSE
      BY <1>3 DEF Followed
    <3> QED
      BY <2>2, <2>3, <3>1 DEF RenewedSince
  <2>5. Remote' = Changed(m)
    BY <1>1, <1>3, <2>2, <2>3, ChangedIsReported, HistoryGrows DEF ItemTypes
  <2>6. /\ mig[m].timing = "nextRenewal" => Remote'.pending = mig[m].target
        /\ mig[m].timing # "nextRenewal" =>
              Remote'.item = mig[m].target /\ Remote'.pending = NoItem
        /\ Remote'.period = mig[m].period
    BY <1>1, <2>1, <2>2, <2>4, <2>5, ChangedIsReported DEF ItemTypes, InStep
  <2>7. truth'[a] = TRUE
    BY <1>3 DEF FenceInv, Shapes
  <2>8. MigrationAhead(a)'
    BY <1>1, <2>6, <2>7 DEF MigrationAhead
  <2> QED
    BY <1>1, <2>8 DEF Ahead
<1>4. CASE ~(UNCHANGED <<history, truth>>)
  <2>1. /\ history' = Append(history, Changed(serves[a])) /\ truth' = [truth EXCEPT ![a] = TRUE]
        /\ \/ run' = [run EXCEPT ![a].pc = "answered", ![a].answer = Remote.status,
                                 ![a].stale = RenewedSince(a)]
           \/ \E pc \in LostAnswer :
                 run' = [run EXCEPT ![a].pc = pc, ![a].stale = RenewedSince(a)]
    BY <1>4 DEF MigrationCall
  <2>2. run'[a].stale = RenewedSince(a)
    <3> DEFINE stale == RenewedSince(a)
    <3>1. \/ run' = [run EXCEPT ![a].pc = "answered", ![a].answer = Remote.status,
                              ![a].stale = stale]
          \/ \E pc \in LostAnswer : run' = [run EXCEPT ![a].pc = pc, ![a].stale = stale]
      BY <2>1
    <3> HIDE DEF stale
    <3>2. ASSUME NEW answer,
                 run' = [run EXCEPT ![a].pc = "answered", ![a].answer = answer, ![a].stale = stale]
          PROVE  run'[a].stale = stale
      BY <3>2 DEF FenceInv, Shapes, RunFields
    <3>3. ASSUME NEW pc, run' = [run EXCEPT ![a].pc = pc, ![a].stale = stale]
          PROVE  run'[a].stale = stale
      BY <3>3 DEF FenceInv, Shapes, RunFields
    <3>4. run'[a].stale = stale
      <4>1. CASE run' = [run EXCEPT ![a].pc = "answered", ![a].answer = Remote.status,
                                    ![a].stale = stale]
        BY <3>2, <4>1
      <4>2. CASE \E pc \in LostAnswer : run' = [run EXCEPT ![a].pc = pc, ![a].stale = stale]
        <5>1. PICK pc \in LostAnswer : run' = [run EXCEPT ![a].pc = pc, ![a].stale = stale]
          BY <4>2
        <5> QED
          BY <3>3, <5>1
      <4> QED
        BY <3>1, <4>1, <4>2
    <3> QED
      BY <3>4 DEF stale
  <2> QED
    BY <1>3, <2>1, <2>2
<1> QED
    BY <1>2, <1>4

\* A migration that takes effect at once, or whose renewal has come
LEMMA TargetFollows ==
    ASSUME FenceInv, ItemTypes, Follows, Followed' => Followed,
           NEW a \in Attempt, fence = a, truth[a], serves[a] # NoMigration, UNCHANGED history,
           \/ mig[serves[a]].timing # "nextRenewal"
           \/ Remote.period > mig[serves[a]].period,
           fence' = NoAttempt,
           NEW read, NEW reported, sub' = ProjectedTo(mig[serves[a]].target, read, reported)
    PROVE  Follows'
<1>1. /\ serves[a] \in Migration /\ mig[serves[a]].target \in Item
      /\ mig[serves[a]].period \in Nat
    BY MigrationTarget
<1>2. sub'.item = mig[serves[a]].target
    BY <1>1, ProjectedToRow DEF ItemTypes, SubRow, RowOf
<1>3. ASSUME Followed' PROVE Remote.item = sub'.item /\ Remote.pending = NoItem
  <2>1. MigrationAhead(a)
    BY <1>3 DEF Follows, Ahead
  <2> QED
    BY <1>1, <1>2, <2>1 DEF MigrationAhead
<1> QED
    BY <1>3, HolderReleases, SubscriptionAssumption

LEMMA ProjectFollows ==
    ASSUME FenceInv, ItemTypes, Follows, Followed' => Followed, NEW a \in Attempt, Project(a)
    PROVE  Follows'
<1> USE SubscriptionAssumption, MigrationAssumption
<1>1. truth[a] /\ serves[a] \in Migration /\ UNCHANGED <<history, truth, serves>>
    BY DEF Project, FenceInv, Calls
<1>2. CASE UNCHANGED <<sub, fence>>
  <2>1. TermsStay
    <3>1. mig' = mig \/ \E to, next : mig[serves[a]].status # "none" /\ mig' = Swapped(serves[a], to, next)
      BY DEF Project, Swaps
    <3> QED
      BY <1>1, <3>1, SwappedTerms DEF FenceInv, TermsStay
  <2>2. \A b \in Attempt \ {a} : run'[b] = run[b]
    BY DEF Project, Ends, FenceInv, Shapes
  <2> QED
    BY <1>1, <1>2, <2>1, <2>2, RowsWait
<1>3. CASE ~(UNCHANGED <<sub, fence>>)
  <2>1. /\ mig[serves[a]].timing # "nextRenewal" /\ fence = a /\ fence' = NoAttempt
        /\ sub' = ProjectedTo(mig[serves[a]].target, run[a].read, run[a].answer)
    BY <1>3 DEF Project
  <2> QED
    BY <1>1, <2>1, TargetFollows
<1> QED
    BY <1>2, <1>3

LEMMA FailAttemptFollows ==
    ASSUME FenceInv, ItemTypes, Follows, Followed' => Followed, NEW a \in Attempt, FailAttempt(a)
    PROVE  Follows'
<1> USE SubscriptionAssumption, MigrationAssumption
<1>1. ~truth[a] /\ serves[a] \in Migration /\ UNCHANGED <<history, sub, truth, serves>>
    BY DEF FailAttempt, FenceInv, Calls
<1>2. \A b \in Attempt \ {a} : run'[b] = run[b]
    BY DEF FailAttempt, Ends, FenceInv, Shapes
<1>3. CASE UNCHANGED <<mig, fence>>
    BY <1>1, <1>2, <1>3, RowsWait DEF TermsStay
<1>4. CASE fence = a /\ fence' = NoAttempt
  <2>1. ASSUME Followed' PROVE Remote.item = sub'.item /\ Remote.pending = NoItem
    BY <1>1, <1>4, <2>1 DEF Follows, Ahead, MigrationAhead, InStep
  <2> QED
    BY <1>1, <1>4, <2>1, HolderReleases
<1> QED
    BY <1>3, <1>4 DEF FailAttempt

LEMMA SettleFollows ==
    ASSUME FenceInv, ItemTypes, Follows, Followed' => Followed, NEW m \in Migration, Settle(m)
    PROVE  Follows'
<1>1. PICK a \in Attempt : mig[m].token = a /\ serves[a] = m /\ truth[a]
    BY DEF Settle, FenceInv, Rows, Shapes, InFlight
<1>2. /\ fence = a /\ fence' = NoAttempt /\ Remote.period > mig[m].period /\ UNCHANGED history
      /\ sub' = ProjectedTo(mig[m].target, sub.status, sub.status)
    BY <1>1 DEF Settle
<1> QED
    BY <1>1, <1>2, TargetFollows, MigrationAssumption

LEMMA ResolveMigrationFollows ==
    ASSUME FenceInv, ItemTypes, Follows, Followed' => Followed, NEW m \in Migration,
           ResolveMigration(m)
    PROVE  Follows'
<1> USE SubscriptionAssumption, MigrationAssumption
<1>1. PICK a \in Attempt : mig[m].token = a /\ serves[a] = m /\ serves[a] # NoMigration
    BY DEF ResolveMigration, Resolvable, FenceInv, Shapes, Rows
<1>2. UNCHANGED <<history, run, truth, serves>> /\ mig[m].status # "none"
    BY DEF ResolveMigration, Resolvable
<1>3. CASE truth[a] /\ mig[m].timing = "nextRenewal"
  <2>1. UNCHANGED <<sub, fence>>
    BY <1>1, <1>3 DEF ResolveMigration
  <2>2. TermsStay
    <3>1. \E to, outcome, active, next : mig' = Resolved(m, to, outcome, active, next)
      BY DEF ResolveMigration
    <3> QED
      BY <1>2, <3>1, ResolvedTerms DEF FenceInv
  <2> QED
    BY <1>2, <2>1, <2>2, RowsWait
<1>4. CASE truth[a] /\ mig[m].timing # "nextRenewal"
  <2>1. /\ fence = a /\ fence' = NoAttempt
        /\ sub' = ProjectedTo(mig[m].target, sub.status, sub.status)
    BY <1>1, <1>4 DEF ResolveMigration
  <2> QED
    BY <1>1, <1>2, <1>4, <2>1, TargetFollows
<1>5. CASE ~truth[a]
  <2>1. fence = a /\ fence' = NoAttempt /\ sub' = sub
    BY <1>1, <1>5 DEF ResolveMigration
  <2>2. ASSUME Followed' PROVE Remote.item = sub'.item /\ Remote.pending = NoItem
    BY <1>1, <1>5, <2>1, <2>2 DEF Follows, Ahead, MigrationAhead, InStep
  <2> QED
    BY <1>2, <2>1, <2>2, HolderReleases
<1> QED
    BY <1>3, <1>4, <1>5

LEMMA FollowsNext ==
    ASSUME FenceInv, ItemTypes, Follows, [Next]_allVars, "swap_later" \notin Operation
    PROVE  Follows'
<1> USE SubscriptionAssumption, MigrationAssumption
<1>0. Followed' => Followed
    BY FollowedStays
<1>1. ASSUME NEW m \in Migration, Schedule(m) \/ CancelMigration(m) \/ ObserveMigration(m)
      PROVE  Follows'
  <2>1. UNCHANGED <<history, sub, fence, run, truth, serves>>
    BY <1>1 DEF Schedule, CancelMigration, ObserveMigration, vars
  <2>2. TermsStay
    <3>1. CASE ObserveMigration(m)
      BY <3>1 DEF FenceInv, ObserveMigration, TermsStay, Shapes, RowFields
    <3>2. CASE Schedule(m) \/ CancelMigration(m)
      <4>1. mig[m].status # "none" /\ \E to, next : mig' = Swapped(m, to, next)
        BY <3>2 DEF Schedule, CancelMigration, Swaps
      <4> QED
        BY <4>1, SwappedTerms DEF FenceInv
    <3> QED
      BY <1>1, <3>1, <3>2
  <2> QED
    BY <1>0, <2>1, <2>2, RowsWait
<1>2. ASSUME NEW a \in Attempt, ProjectFails(a) \/ RequireReconciliation(a) \/ MigrationDies(a)
      PROVE  Follows'
  <2>1. serves[a] \in Migration /\ UNCHANGED <<history, sub, fence, truth, serves>>
    BY <1>2 DEF ProjectFails, RequireReconciliation, MigrationDies, FenceInv, Calls
  <2>2. \A b \in Attempt \ {a} : run'[b] = run[b]
    BY <1>2 DEF ProjectFails, RequireReconciliation, MigrationDies, Ends, FenceInv, Shapes
  <2>3. TermsStay
    <3>1. mig' = mig \/ \E to, next : mig[serves[a]].status # "none" /\ mig' = Swapped(serves[a], to, next)
      BY <1>2 DEF ProjectFails, RequireReconciliation, MigrationDies, Swaps
    <3> QED
      BY <2>1, <3>1, SwappedTerms DEF FenceInv, TermsStay
  <2> QED
    BY <1>0, <2>1, <2>2, <2>3, RowsWait
<1>3. CASE UNCHANGED allVars
  <2>1. UNCHANGED <<history, sub, fence, run, truth, mig, serves>>
    BY <1>3 DEF allVars
  <2> QED
    BY <1>0, <2>1, HolderWaits
<1>4. CASE DirectNext(Migrating) /\ UNCHANGED <<mig, serves>>
    BY <1>0, <1>4, DirectFollows
<1>5. ASSUME NEW m \in Migration,
             Preview(m) \/ Settle(m) \/ ResolveMigration(m) \/ (\E a \in Attempt : Begin(a, m))
      PROVE  Follows'
    BY <1>0, <1>5, PreviewFollows, SettleFollows, ResolveMigrationFollows, BeginFollows
<1>6. ASSUME NEW a \in Attempt, MigrationCall(a) \/ Project(a) \/ FailAttempt(a)
      PROVE  Follows'
    BY <1>0, <1>6, MigrationCallFollows, ProjectFollows, FailAttemptFollows
<1>7. CASE Next
    BY <1>1, <1>2, <1>4, <1>5, <1>6, <1>7 DEF Next
<1> QED
    BY <1>3, <1>7

\* With nobody holding the claim the item of a subscription linked to the
\* catalog is the provider's, however calls, lost answers, dead processes, late
\* webhooks, migrations and the operator's words follow one another, as long as
\* no call defers a swap to the renewal
THEOREM ItemsFollow ==
    ASSUME "swap_later" \notin Operation
    PROVE  Spec => []ItemFollowsProvider
<1>1. FenceInv /\ ItemTypes /\ Follows /\ [Next]_allVars => Follows'
    BY FollowsNext
<1>2. ItemTypes /\ Follows => ItemFollowsProvider
  <2> SUFFICES ASSUME ItemTypes, Follows, fence = NoAttempt, sub.canon # NoItem,
                      \A a \in Attempt : ~run[a].stale
               PROVE  sub.item = Remote.item
    BY DEF ItemFollowsProvider
  <2>1. ASSUME NEW a \in Attempt PROVE run[a].stale = FALSE
    <3>1. run[a].stale \in BOOLEAN /\ ~run[a].stale
      BY DEF ItemTypes, Requests, Asked
    <3> QED
      BY <3>1, Zenon
  <2> QED
    BY <2>1 DEF Follows, Followed, InStep
<1> QED
    BY <1>1, <1>2, FollowsInit, FenceInvariant, ItemTypesInvariant, PTL DEF Spec

-----------------------------------------------------------------------------

Line == [id : Nat, pid : Nat, price : Nat, quantity : Nat]
Requested == [price : Nat, quantity : Nat]
ProviderItem == [pid : Nat, price : Nat, quantity : Nat]

\* No two rows are one row
OwnIds(local) == \A i, j \in DOMAIN local : local[i].id = local[j].id => i = j

\* No two of them name one provider item
Distinct(items) ==
    \A i, j \in DOMAIN items : items[i].pid = items[j].pid /\ items[i].pid # NoId => i = j

OneToOne(pairs) == \A p, q \in pairs : p[1] = q[1] <=> p[2] = q[2]

-----------------------------------------------------------------------------

\* Of two finite sets the one that is properly contained is smaller
LEMMA ProperlySmaller ==
    ASSUME NEW S, NEW T, IsFiniteSet(T), S \subseteq T, S # T
    PROVE  Cardinality(S) # Cardinality(T)
<1>1. IsFiniteSet(S) /\ Cardinality(S) <= Cardinality(T)
    BY FS_Subset
<1>2. Cardinality(S) = Cardinality(T) => S = T
    BY FS_Subset
<1>3. QED  BY <1>2

\* Lines of one group with different ids have different places in it
LEMMA LinesHavePlaces ==
    ASSUME NEW local \in Seq(Line), OwnIds(local),
           NEW mine \in SUBSET DOMAIN local, NEW h \in mine, NEW i \in mine,
           LocalPlace(local, mine, h) = LocalPlace(local, mine, i)
    PROVE  h = i
<1> DEFINE Below(k) == {g \in mine : local[g].id < local[k].id}
<1>1. IsFiniteSet(mine)
    BY FS_Interval, FS_Subset
<1>2. \A k \in mine : IsFiniteSet(Below(k))
    BY <1>1, FS_Subset
<1>3. \A k \in mine : local[k].id \in Nat
    <2>1. \A k \in DOMAIN local : local[k] \in Line
        OBVIOUS
    <2>2. QED  BY <2>1 DEF Line
<1>4. ASSUME NEW k \in mine, NEW l \in mine, local[k].id < local[l].id
      PROVE  Cardinality(Below(k)) # Cardinality(Below(l))
    <2>1. Below(k) \subseteq Below(l)
        BY <1>3, <1>4
    <2>2. k \in Below(l) /\ k \notin Below(k)
        BY <1>3, <1>4
    <2>3. Below(k) # Below(l)
        BY <2>2
    <2> HIDE DEF Below
    <2>4. QED  BY <1>2, <2>1, <2>3, ProperlySmaller
<1>5. Cardinality(Below(h)) = Cardinality(Below(i))
    BY DEF LocalPlace
<1>6. ~(local[h].id < local[i].id) /\ ~(local[i].id < local[h].id)
    <2> HIDE DEF Below
    <2> QED  BY <1>4, <1>5
<1>7. local[h].id = local[i].id
    BY <1>3, <1>6
<1>8. QED  BY <1>7 DEF OwnIds

\* So have the provider items of a group: equal ids are told apart by the list
LEMMA ItemsHavePlaces ==
    ASSUME NEW remote \in Seq(ProviderItem),
           NEW theirs \in SUBSET DOMAIN remote, NEW h \in theirs, NEW j \in theirs,
           RemotePlace(remote, theirs, h) = RemotePlace(remote, theirs, j)
    PROVE  h = j
<1> DEFINE Before(k, l) == \/ remote[k].pid < remote[l].pid
                           \/ remote[k].pid = remote[l].pid /\ k < l
           Below(k) == {g \in theirs : Before(g, k)}
<1>1. IsFiniteSet(theirs)
    BY FS_Interval, FS_Subset
<1>2. \A k \in theirs : IsFiniteSet(Below(k))
    BY <1>1, FS_Subset
<1>3. \A k \in theirs : remote[k].pid \in Nat /\ k \in Nat
    <2>1. \A k \in DOMAIN remote : remote[k] \in ProviderItem /\ k \in Nat
        OBVIOUS
    <2>2. QED  BY <2>1 DEF ProviderItem
<1>4. ASSUME NEW k \in theirs, NEW l \in theirs, Before(k, l)
      PROVE  Cardinality(Below(k)) # Cardinality(Below(l))
    <2>1. Below(k) \subseteq Below(l)
        BY <1>3, <1>4
    <2>2. k \in Below(l) /\ k \notin Below(k)
        BY <1>3, <1>4
    <2>3. Below(k) # Below(l)
        BY <2>2
    <2> HIDE DEF Below
    <2>4. QED  BY <1>2, <2>1, <2>3, ProperlySmaller
<1>5. Cardinality(Below(h)) = Cardinality(Below(j))
    BY DEF RemotePlace
<1>6. ~Before(h, j) /\ ~Before(j, h)
    <2> HIDE DEF Below, Before
    <2> QED  BY <1>4, <1>5
<1>7. QED  BY <1>3, <1>6

-----------------------------------------------------------------------------

\* Pairs of two pairings that share no place on either side
Apart(some, others) ==
    /\ Lines(some) \cap Lines(others) = {}
    /\ Items(some) \cap Items(others) = {}

\* Pairings that share no place make up a pairing
LEMMA Together ==
    ASSUME NEW some, NEW others, OneToOne(some), OneToOne(others), Apart(some, others)
    PROVE  OneToOne(some \cup others)
BY DEF OneToOne, Apart, Lines, Items

\* One call of matchGroups() pairs no line and no item twice
LEMMA GroupsAreOneToOne ==
    ASSUME NEW local \in Seq(Line), OwnIds(local), NEW remote \in Seq(ProviderItem),
           NEW free \in SUBSET DOMAIN local, NEW offered \in SUBSET DOMAIN remote,
           NEW exact \in BOOLEAN
    PROVE  /\ OneToOne(MatchGroups(local, remote, free, offered, exact))
           /\ Lines(MatchGroups(local, remote, free, offered, exact)) \subseteq free
           /\ Items(MatchGroups(local, remote, free, offered, exact)) \subseteq offered
<1> DEFINE pairs == MatchGroups(local, remote, free, offered, exact)
           Mine(p) == Group(local, free, local[p[1]], exact)
           Theirs(p) == Group(remote, offered, local[p[1]], exact)
<1>1. ASSUME NEW p \in pairs
      PROVE  /\ p[1] \in Mine(p) /\ p[2] \in Theirs(p)
             /\ LocalPlace(local, Mine(p), p[1]) = RemotePlace(remote, Theirs(p), p[2])
             /\ p \in free \X offered
    BY DEF MatchGroups, Group, SameKey
<1>2. ASSUME NEW p \in pairs, NEW q \in pairs, p[1] = q[1]
      PROVE  p[2] = q[2]
    <2>1. RemotePlace(remote, Theirs(p), p[2]) = RemotePlace(remote, Theirs(p), q[2])
        BY <1>1, <1>2
    <2>2. p[2] \in Theirs(p) /\ q[2] \in Theirs(p)
        BY <1>1, <1>2
    <2>3. Theirs(p) \in SUBSET DOMAIN remote
        BY DEF Group
    <2> HIDE DEF Theirs, pairs
    <2>4. QED  BY <2>1, <2>2, <2>3, ItemsHavePlaces
<1>3. ASSUME NEW p \in pairs, NEW q \in pairs, p[2] = q[2]
      PROVE  p[1] = q[1]
    <2>1. SameKey(local[p[1]], local[q[1]], exact)
        BY <1>1, <1>3 DEF Group, SameKey
    <2>2. Mine(p) = Mine(q) /\ Theirs(p) = Theirs(q)
        BY <2>1 DEF Group, SameKey
    <2>3. LocalPlace(local, Mine(p), p[1]) = LocalPlace(local, Mine(p), q[1])
        BY <1>1, <1>3, <2>2
    <2>4. p[1] \in Mine(p) /\ q[1] \in Mine(p)
        BY <1>1, <2>2
    <2>5. Mine(p) \in SUBSET DOMAIN local
        BY DEF Group
    <2> HIDE DEF Mine, Theirs, pairs
    <2>6. QED  BY <2>3, <2>4, <2>5, LinesHavePlaces
<1>4. Lines(pairs) \subseteq free /\ Items(pairs) \subseteq offered
    BY DEF MatchGroups, Lines, Items
<1>5. QED  BY <1>2, <1>3, <1>4 DEF OneToOne

\* Both calls together
LEMMA GroupedIsOneToOne ==
    ASSUME NEW local \in Seq(Line), OwnIds(local), NEW remote \in Seq(ProviderItem),
           NEW free \in SUBSET DOMAIN local, NEW offered \in SUBSET DOMAIN remote
    PROVE  /\ OneToOne(Grouped(local, remote, free, offered))
           /\ Lines(Grouped(local, remote, free, offered)) \subseteq free
           /\ Items(Grouped(local, remote, free, offered)) \subseteq offered
<1> DEFINE exactly == MatchGroups(local, remote, free, offered, TRUE)
           rest == MatchGroups(local, remote, free \ Lines(exactly), offered \ Items(exactly), FALSE)
<1>1. /\ OneToOne(exactly)
      /\ Lines(exactly) \subseteq free /\ Items(exactly) \subseteq offered
    BY GroupsAreOneToOne
<1>2. /\ OneToOne(rest)
      /\ Lines(rest) \subseteq free \ Lines(exactly)
      /\ Items(rest) \subseteq offered \ Items(exactly)
    <2> HIDE DEF exactly
    <2> QED  BY GroupsAreOneToOne
<1>3. Apart(exactly, rest)
    BY <1>1, <1>2 DEF Apart
<1>4. Grouped(local, remote, free, offered) = exactly \cup rest
    BY DEF Grouped
<1> HIDE DEF exactly, rest
<1>5. OneToOne(exactly \cup rest)
    BY <1>1, <1>2, <1>3, Together
<1>6. QED  BY <1>1, <1>2, <1>4, <1>5 DEF Lines, Items

-----------------------------------------------------------------------------

LEMMA KnownIsOneToOne ==
    ASSUME NEW local \in Seq(Line), NEW remote \in Seq(ProviderItem)
    PROVE  OneToOne(Known(local, remote))
<1>1. ASSUME NEW p \in Known(local, remote), NEW q \in Known(local, remote),
             local[p[1]].pid = local[q[1]].pid
      PROVE  p[1] = q[1] /\ p[2] = q[2]
    <2>1. /\ p[1] \in DOMAIN local /\ q[1] \in DOMAIN local
          /\ p[2] \in DOMAIN remote /\ q[2] \in DOMAIN remote
        BY DEF Known
    <2>2. p[1] <= q[1] /\ q[1] <= p[1] /\ p[2] <= q[2] /\ q[2] <= p[2]
        BY <1>1, <2>1 DEF Known
    <2>3. /\ p[1] \in Nat /\ q[1] \in Nat
          /\ p[2] \in Nat /\ q[2] \in Nat
        BY <2>1
    <2>4. QED  BY <2>2, <2>3
<1>2. ASSUME NEW p \in Known(local, remote), NEW q \in Known(local, remote),
             p[1] = q[1] \/ p[2] = q[2]
      PROVE  local[p[1]].pid = local[q[1]].pid
    BY <1>2 DEF Known
<1>3. QED  BY <1>1, <1>2 DEF OneToOne

\* What is left on both sides is one of each
LEMMA LeftoverIsOneToOne ==
    ASSUME NEW local \in Seq(Line), NEW remote \in Seq(ProviderItem), NEW pairs
    PROVE  /\ OneToOne(Leftover(local, remote, pairs))
           /\ Apart(pairs, Leftover(local, remote, pairs))
<1> DEFINE lines == DOMAIN local \ Lines(pairs)
           items == DOMAIN remote \ Items(pairs)
<1>0. IsFiniteSet(lines) /\ IsFiniteSet(items)
    <2>1. IsFiniteSet(DOMAIN local) /\ IsFiniteSet(DOMAIN remote)
        BY FS_Interval
    <2>2. QED  BY <2>1, FS_Subset
<1>1. CASE Leftover(local, remote, pairs) = {}
    BY <1>1 DEF OneToOne, Apart, Lines, Items
<1>2. CASE Leftover(local, remote, pairs) # {}
    <2>1. Cardinality(lines) = 1 /\ Cardinality(items) = 1
        BY <1>2 DEF Leftover
    <2>2. Leftover(local, remote, pairs) = lines \X items
        BY <2>1 DEF Leftover
    <2> HIDE DEF lines, items
    <2>3. PICK i : lines = {i}
        BY <1>0, <2>1, FS_Singleton
    <2>4. PICK j : items = {j}
        BY <1>0, <2>1, FS_Singleton
    <2>5. QED  BY <2>2, <2>3, <2>4 DEF OneToOne, Apart, Lines, Items, lines, items
<1>3. QED  BY <1>1, <1>2

\* A webhook pairs no line and no provider item twice, however many of them look
\* alike (reconcileProviderSubscriptionItems: groups of duplicates are paired by
\* their places in two sorted lists)
THEOREM ReconciliationsAreOneToOne ==
    ASSUME NEW local \in Seq(Line), OwnIds(local), NEW remote \in Seq(ProviderItem)
    PROVE  OneToOne(Reconciliations(local, remote))
<1> DEFINE known == Known(local, remote)
           unnamed == {i \in DOMAIN local : local[i].pid = NoId}
           grouped == Grouped(local, remote, unnamed, DOMAIN remote \ Items(known))
           paired == known \cup grouped
<1>1. OneToOne(known)
    BY KnownIsOneToOne
<1>2. /\ OneToOne(grouped)
      /\ Lines(grouped) \subseteq unnamed
      /\ Items(grouped) \subseteq DOMAIN remote \ Items(known)
    <2> HIDE DEF known
    <2> QED  BY GroupedIsOneToOne
<1>3. Lines(known) \cap unnamed = {}
    BY DEF Known, Lines
<1>4. Apart(known, grouped)
    BY <1>2, <1>3 DEF Apart
<1> HIDE DEF known, grouped
<1>5. OneToOne(paired)
    BY <1>1, <1>2, <1>4, Together
<1> HIDE DEF paired
<1>6. OneToOne(paired \cup Leftover(local, remote, paired))
    BY <1>5, LeftoverIsOneToOne, Together
<1>7. QED  BY <1>6 DEF Reconciliations, paired, known, grouped

\* At the creation of a subscription likewise (matchProviderSubscriptionItems)
THEOREM MatchedIsOneToOne ==
    ASSUME NEW lines \in Seq(Requested), NEW remote \in Seq(ProviderItem)
    PROVE  OneToOne(Matched(lines, remote))
<1> DEFINE local == [i \in DOMAIN lines |->
                        [id |-> i, pid |-> NoId,
                         price |-> lines[i].price, quantity |-> lines[i].quantity]]
<1>1. local \in Seq(Line)
    <2>1. \A i \in DOMAIN lines : lines[i] \in Requested /\ i \in Nat
        OBVIOUS
    <2>2. \A i \in DOMAIN lines :
            [id |-> i, pid |-> NoId, price |-> lines[i].price, quantity |-> lines[i].quantity] \in Line
        BY <2>1 DEF Requested, Line, NoId
    <2>3. QED  BY <2>2
<1>2. OwnIds(local)
    BY DEF OwnIds
<1>3. DOMAIN local = DOMAIN lines
    OBVIOUS
<1> HIDE DEF local
<1>4. OneToOne(Grouped(local, remote, DOMAIN lines, DOMAIN remote))
    BY <1>1, <1>2, <1>3, GroupedIsOneToOne
<1>5. QED  BY <1>4 DEF Matched, local

-----------------------------------------------------------------------------

\* A line keeps the provider item it names as long as webhooks list it: no group
\* and no leftover takes it away (the stable matches of
\* reconcileProviderSubscriptionItems come first)
THEOREM KnownItemsAreKept ==
    ASSUME NEW local \in Seq(Line), Distinct(local),
           NEW remote \in Seq(ProviderItem), Distinct(remote),
           NEW i \in DOMAIN local, NEW j \in DOMAIN remote,
           remote[j].pid # NoId, local[i].pid = remote[j].pid
    PROVE  <<i, j>> \in Reconciliations(local, remote)
<1>1. \A h \in DOMAIN local : local[h].pid = local[i].pid => i <= h
    BY DEF Distinct
<1>2. \A k \in DOMAIN remote : remote[k].pid = remote[j].pid => j <= k
    BY DEF Distinct
<1>3. <<i, j>> \in Known(local, remote)
    BY <1>1, <1>2 DEF Known
<1>4. QED  BY <1>3 DEF Reconciliations

\* What a webhook leaves in one row
LEMMA RowLeft ==
    ASSUME NEW local, NEW remote, NEW i \in DOMAIN local
    PROVE  \/ /\ i \notin Lines(Reconciliations(local, remote))
              /\ ReconciledRows(local, remote)[i].pid = local[i].pid
           \/ \E j \in DOMAIN remote : /\ <<i, j>> \in Reconciliations(local, remote)
                                       /\ ReconciledRows(local, remote)[i].pid = remote[j].pid
<1> DEFINE pairs == Reconciliations(local, remote)
           j == CHOOSE k \in DOMAIN remote : <<i, k>> \in pairs
<1>1. CASE i \notin Lines(pairs)
    BY <1>1 DEF ReconciledRows
<1>2. CASE i \in Lines(pairs)
    <2>1. pairs \subseteq (DOMAIN local) \X (DOMAIN remote)
        BY DEF Reconciliations, Known, Grouped, MatchGroups, Leftover
    <2>2. \E k \in DOMAIN remote : <<i, k>> \in pairs
        BY <1>2, <2>1 DEF Lines
    <2>3. j \in DOMAIN remote /\ <<i, j>> \in pairs
        BY <2>2
    <2>4. ReconciledRows(local, remote)[i].pid = remote[j].pid
        BY <1>2 DEF ReconciledRows
    <2>5. QED  BY <2>3, <2>4
<1>3. QED  BY <1>1, <1>2

\* No webhook makes two lines of a subscription name one provider item
\* (reconcileWebhookSubscription updates the rows one by one)
THEOREM RowsStayDistinct ==
    ASSUME NEW local \in Seq(Line), OwnIds(local), Distinct(local),
           NEW remote \in Seq(ProviderItem), Distinct(remote)
    PROVE  Distinct(ReconciledRows(local, remote))
<1> DEFINE pairs == Reconciliations(local, remote)
           rows == ReconciledRows(local, remote)
           Takes(i, k) == <<i, k>> \in pairs /\ rows[i].pid = remote[k].pid
<1>1. DOMAIN rows = DOMAIN local
    BY DEF ReconciledRows
<1>2. \A i \in DOMAIN local :
        \/ i \notin Lines(pairs) /\ rows[i].pid = local[i].pid
        \/ \E k \in DOMAIN remote : Takes(i, k)
    BY RowLeft
<1>3. OneToOne(pairs)
    BY ReconciliationsAreOneToOne
<1>4. \A i \in DOMAIN local, k \in DOMAIN remote :
        remote[k].pid # NoId /\ local[i].pid = remote[k].pid => i \in Lines(pairs)
    <2>1. \A i \in DOMAIN local, k \in DOMAIN remote :
            remote[k].pid # NoId /\ local[i].pid = remote[k].pid => <<i, k>> \in pairs
        BY KnownItemsAreKept
    <2> HIDE DEF pairs
    <2>2. \A p \in pairs : p[1] \in Lines(pairs)
        BY DEF Lines
    <2>3. \A i, k : <<i, k>> \in pairs => i \in Lines(pairs)
        <3>1. \A i, k : <<i, k>>[1] = i
            OBVIOUS
        <3>2. QED  BY <2>2, <3>1
    <2>4. QED  BY <2>1, <2>3
<1> HIDE DEF pairs, rows
<1>5. SUFFICES ASSUME NEW h \in DOMAIN local, NEW i \in DOMAIN local,
                      rows[h].pid = rows[i].pid, rows[h].pid # NoId
               PROVE  h = i
    BY <1>1 DEF Distinct, rows
<1>6. CASE \E k, l \in DOMAIN remote : Takes(h, k) /\ Takes(i, l)
    <2>1. PICK k \in DOMAIN remote, l \in DOMAIN remote : Takes(h, k) /\ Takes(i, l)
        BY <1>6
    <2>2. k = l
        BY <1>5, <2>1 DEF Distinct
    <2>3. QED  BY <1>3, <2>1, <2>2 DEF OneToOne
<1>7. CASE h \notin Lines(pairs) /\ rows[h].pid = local[h].pid
    BY <1>2, <1>4, <1>5, <1>7 DEF Distinct
<1>8. CASE i \notin Lines(pairs) /\ rows[i].pid = local[i].pid
    BY <1>2, <1>4, <1>5, <1>8 DEF Distinct
<1>9. QED  BY <1>2, <1>6, <1>7, <1>8

=============================================================================

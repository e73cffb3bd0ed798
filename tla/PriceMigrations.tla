-------------------------- MODULE PriceMigrations --------------------------
(***************************************************************************)
(* The price migrations of a subscription (SubscriptionPriceMigration-     *)
(* Executor, -Lifecycle, -Reconciliation, -Settlement) beside its direct   *)
(* mutations.                                                              *)
(*                                                                         *)
(* A migration is approved, scheduled, executed, retried or canceled by    *)
(* compare-and-swap on its status and execution token; executing it takes  *)
(* the mutation claim the direct mutations take, in the same transaction.  *)
(* What cannot be decided becomes reconciliation_required and keeps the    *)
(* claim until the operator resolves it; one for the next renewal keeps it *)
(* until it is settled.                                                    *)
(***************************************************************************)
EXTENDS SubscriptionMutations

CONSTANTS
    Migration,    \* previews of migrations
    Timing        \* the effective timings the previews may have

NoMigration == "none"

ASSUME MigrationAssumption ==
    /\ NoMigration \notin Migration
    /\ Timing \subseteq {"immediate", "nextRenewal", "scheduled"}

VARIABLES
    mig,          \* the row of each migration
    serves        \* serves[a]: the migration the attempt executes, if any

allVars == <<history, sub, fence, run, truth, log, spent, mig, serves>>

\* A migration nobody executed yet
Row(status, timing, source, target, period, active) ==
    [status |-> status, timing |-> timing, source |-> source, target |-> target,
     period |-> period, active |-> active, token |-> NoAttempt, recorded |-> "none",
     observed |-> FALSE]

NoRow == Row("none", "immediate", NoItem, NoItem, 0, FALSE)

MigInit ==
    /\ Init
    /\ mig = [m \in Migration |-> NoRow]
    /\ serves = [a \in Attempt |-> NoMigration]

----------------------------------------------------------------------------
(* The row's transitions.                                                  *)

\* MAP of the migration's state machine
MigrationEdges ==
    { <<"previewed", "scheduled">>, <<"previewed", "executing">>, <<"previewed", "cancelled">>,
      <<"scheduled", "executing">>, <<"scheduled", "cancelled">>,
      <<"executing", "applied">>, <<"executing", "pending_renewal">>,
      <<"executing", "failed">>, <<"executing", "reconciliation_required">>,
      <<"pending_renewal", "applied">>,
      <<"failed", "executing">>, <<"failed", "cancelled">>,
      <<"reconciliation_required", "applied">>,
      <<"reconciliation_required", "pending_renewal">>,
      <<"reconciliation_required", "failed">> }

\* isValidSubscriptionPriceMigrationCas(): reconciliation_required is left by
\* its own statement only, and the token says who may write what
ValidCas(from, token, to, next) ==
    /\ from # "reconciliation_required"
    /\ <<from, to>> \in MigrationEdges
    /\ CASE to \in {"scheduled", "cancelled"} -> token = NoAttempt /\ next = NoAttempt
         [] to = "executing" -> token = NoAttempt /\ next # NoAttempt
         [] to = "failed" -> token # NoAttempt /\ next = NoAttempt
         [] OTHER -> token # NoAttempt /\ next = token

\* active_subscription_id is unique: one migration is active per subscription
NobodyElseActive(m) == \A n \in Migration \ {m} : ~mig[n].active

Migrating == \E m \in Migration : mig[m].active

\* compareAndSwapState() finds the row it expects
Swaps(m, from, token, to, next) ==
    /\ ValidCas(from, token, to, next)
    /\ mig[m].status = from
    /\ mig[m].token = token
    /\ to = "executing" => NobodyElseActive(m)

\* The row it leaves: `active` follows the status, except that a failure
\* leaves it as it was
Swapped(m, to, next) ==
    [mig EXCEPT ![m].status = to, ![m].token = next,
                ![m].active = CASE to \in {"applied", "cancelled"} -> FALSE
                                [] to = "executing" -> TRUE
                                [] OTHER -> @]

\* assertSubscriptionMigrationCanonicalSource(): the rows are still what the
\* preview showed; a settlement comes after the renewal
CanonicalSource(m, advanced) ==
    /\ IsActive(sub.status)
    /\ sub.item = mig[m].source
    /\ sub.canon = mig[m].source
    /\ sub.price = mig[m].source.price
    /\ IF advanced THEN sub.period >= mig[m].period ELSE sub.period = mig[m].period

\* projectApprovedSubscriptionPriceMigration(): item, subscription and terms
ProjectedTo(target, read, reported) ==
    [sub EXCEPT !.status = Reconciled(read, reported), !.item = target, !.canon = target,
                !.price = target.price, !.quantity = target.quantity]

----------------------------------------------------------------------------
(* Actions: preview, approval, schedule, cancelation.                      *)

\* preview(): the provider quotes, and the row is inserted as the one active
Preview(m) ==
    /\ mig[m].status = "none"
    /\ sub.canon # NoItem
    /\ IsActive(sub.status)
    /\ sub.canon = sub.item
    /\ sub.price = sub.item.price
    /\ ~Migrating
    /\ \E timing \in Timing, target \in Item \ {sub.item} :
          mig' = [mig EXCEPT ![m] = Row("previewed", timing, sub.item, target, sub.period, TRUE)]
    /\ UNCHANGED <<vars, serves>>

\* approve() of a scheduled migration
Schedule(m) ==
    /\ mig[m].timing = "scheduled"
    /\ CanonicalSource(m, FALSE)
    /\ Swaps(m, "previewed", NoAttempt, "scheduled", NoAttempt)
    /\ mig' = Swapped(m, "scheduled", NoAttempt)
    /\ UNCHANGED <<vars, serves>>

\* cancel()
CancelMigration(m) ==
    /\ mig[m].status \in {"previewed", "scheduled", "failed"}
    /\ Swaps(m, mig[m].status, NoAttempt, "cancelled", NoAttempt)
    /\ mig' = Swapped(m, "cancelled", NoAttempt)
    /\ UNCHANGED <<vars, serves>>

----------------------------------------------------------------------------
(* Actions: the execution of a migration.                                  *)

\* approve(), execute() of one that is due, retry() of a failed one
Startable(m) ==
    \/ mig[m].status = "previewed" /\ mig[m].timing # "scheduled"
    \/ mig[m].status = "scheduled"
    \/ mig[m].status = "failed"

\* execute(): one transaction checks the rows, takes the claim and the token
Begin(a, m) ==
    /\ run[a].pc = "idle"
    /\ Startable(m)
    /\ CanonicalSource(m, FALSE)
    /\ fence = NoAttempt
    /\ Swaps(m, mig[m].status, NoAttempt, "executing", a)
    /\ mig' = Swapped(m, "executing", a)
    /\ fence' = a
    /\ serves' = [serves EXCEPT ![a] = m]
    /\ run' = [run EXCEPT ![a] = Call("calling", "migrate", sub.status, NoItem, NoItem)]
    /\ UNCHANGED <<history, sub, truth, log, spent>>

\* The provider carries the change out, now or at the renewal
Changed(m) ==
    IF mig[m].timing = "nextRenewal" THEN [Remote EXCEPT !.pending = mig[m].target]
    ELSE [Remote EXCEPT !.item = mig[m].target]

\* The renewal the preview named is over: a change put off now waits for the next
RenewedSince(a) == Remote.period > mig[serves[a]].period

\* Mutant: an answer that was lost is taken for a refusal
MutLostAnswerIsRefusal == {"refused", "ended"}

\* What a lost answer leaves: a call that needs reconciliation, or a dead one
LostAnswer == {"unknown", "ended"}

\* callProvider(): applied; applied with the answer lost or for a subscription
\* it does not name; definitively not applied; or lost before it took effect.
\* The process may die with the answer.
MigrationCall(a) ==
    /\ run[a].op = "migrate" /\ run[a].pc = "calling"
    /\ \/ /\ Accepts(Remote)
          /\ history' = Append(history, Changed(serves[a]))
          /\ truth' = [truth EXCEPT ![a] = TRUE]
          /\ \/ run' = [run EXCEPT ![a].pc = "answered", ![a].answer = Remote.status,
                                   ![a].stale = RenewedSince(a)] /\ UNCHANGED spent
             \/ /\ \E pc \in LostAnswer :
                      run' = [run EXCEPT ![a].pc = pc, ![a].stale = RenewedSince(a)]
                /\ Fault
       \/ /\ run' = [run EXCEPT ![a].pc = "refused"]
          /\ UNCHANGED <<history, truth, spent>>
       \/ /\ \E pc \in LostAnswer : run' = [run EXCEPT ![a].pc = pc]
          /\ Fault
          /\ UNCHANGED <<history, truth>>
    /\ UNCHANGED <<sub, fence, log, mig, serves>>

\* projectSubscriptionPriceMigrationSuccess(); a row that moved on in the
\* meantime, a stale source or a failed transaction needs reconciliation
Project(a) ==
    LET m == serves[a]
        to == IF mig[m].timing = "nextRenewal" THEN "pending_renewal" ELSE "applied"
    IN  /\ run[a].op = "migrate" /\ run[a].pc = "answered"
        /\ IF /\ CanonicalSource(m, FALSE)
              /\ Swaps(m, "executing", a, to, a)
              /\ to = "applied" => fence = a
           THEN /\ mig' = Swapped(m, to, a)
                /\ Ends(a)
                /\ IF to = "applied"
                   THEN /\ sub' = ProjectedTo(mig[m].target, run[a].read, run[a].answer)
                        /\ fence' = NoAttempt
                        /\ log' = [log EXCEPT ![a] = "applied"]
                   ELSE UNCHANGED <<sub, fence, log>>
                /\ UNCHANGED spent
           ELSE /\ run' = [run EXCEPT ![a].pc = "unknown"]
                /\ UNCHANGED <<sub, fence, log, mig, spent>>
        /\ UNCHANGED <<history, truth, serves>>

\* The transaction of the projection fails and rolls back
ProjectFails(a) ==
    /\ run[a].op = "migrate" /\ run[a].pc = "answered"
    /\ Fault
    /\ run' = [run EXCEPT ![a].pc = "unknown"]
    /\ UNCHANGED <<history, sub, fence, truth, log, mig, serves>>

\* finishFailure('failed'): the claim is released with the row; a row that
\* moved on makes the call end without a trace
FailAttempt(a) ==
    LET m == serves[a]
    IN  /\ run[a].op = "migrate" /\ run[a].pc = "refused"
        /\ IF Swaps(m, "executing", a, "failed", NoAttempt) /\ fence = a
           THEN /\ mig' = Swapped(m, "failed", NoAttempt)
                /\ fence' = NoAttempt
                /\ log' = [log EXCEPT ![a] = "not_applied"]
           ELSE UNCHANGED <<mig, fence, log>>
        /\ Ends(a)
        /\ UNCHANGED <<history, sub, truth, spent, serves>>

\* requireReconciliation(): a lost compare-and-swap is swallowed
RequireReconciliation(a) ==
    LET m == serves[a]
    IN  /\ run[a].op = "migrate" /\ run[a].pc = "unknown"
        /\ mig' = IF Swaps(m, "executing", a, "reconciliation_required", a)
                  THEN Swapped(m, "reconciliation_required", a) ELSE mig
        /\ Ends(a)
        /\ UNCHANGED <<history, sub, fence, truth, log, spent, serves>>

\* The process dies, or the last transaction fails: the row stays executing
MigrationDies(a) ==
    /\ run[a].op = "migrate" /\ run[a].pc \in {"answered", "refused", "unknown"}
    /\ Fault
    /\ Ends(a)
    /\ UNCHANGED <<history, sub, fence, truth, log, mig, serves>>

----------------------------------------------------------------------------
(* Actions: settlement and the operator.                                   *)

\* settle(): at the renewal the deferred change is projected, without a call
Settle(m) ==
    LET a == mig[m].token
    IN  /\ mig[m].status = "pending_renewal"
        /\ mig[m].timing = "nextRenewal"
        /\ Remote.period > mig[m].period
        /\ CanonicalSource(m, TRUE)
        /\ Swaps(m, "pending_renewal", a, "applied", a)
        /\ fence = a
        /\ sub' = ProjectedTo(mig[m].target, sub.status, sub.status)
        /\ mig' = Swapped(m, "applied", a)
        /\ fence' = NoAttempt
        /\ log' = [log EXCEPT ![a] = "applied"]
        /\ UNCHANGED <<history, run, truth, spent, serves>>

\* resolve(): a migration that carries an outcome already conflicts, or is
\* returned as it is
Resolvable(m) ==
    /\ mig[m].recorded = "none"
    /\ mig[m].status \in {"executing", "reconciliation_required"}
    /\ mig[m].token # NoAttempt

\* The row the operator's resolution leaves
Resolved(m, to, outcome, active, next) ==
    [mig EXCEPT ![m].status = to, ![m].recorded = outcome, ![m].active = active,
                ![m].token = next]

\* Mutant: the claim is released with every resolution, the renewal's too
MutResolveMigrationReleases(m) ==
    LET a == mig[m].token
        renewal == truth[a] /\ mig[m].timing = "nextRenewal"
        to == CASE renewal -> "pending_renewal"
                [] truth[a] /\ ~renewal -> "applied"
                [] OTHER -> "failed"
    IN  /\ Resolvable(m)
        /\ run[a].pc # "calling"
        /\ to = "applied" => CanonicalSource(m, FALSE)
        /\ fence = a
        /\ sub' = IF to = "applied" THEN ProjectedTo(mig[m].target, sub.status, sub.status) ELSE sub
        /\ mig' = Resolved(m, to, Truthful(a), renewal, IF truth[a] THEN a ELSE NoAttempt)
        /\ fence' = NoAttempt /\ log' = [log EXCEPT ![a] = Truthful(a)]
        /\ UNCHANGED <<history, run, truth, spent, serves>>

\* resolve() with what the operator established of a call that is over: the
\* approved change is projected, left to the renewal, or declared failed
ResolveMigration(m) ==
    LET a == mig[m].token
        renewal == truth[a] /\ mig[m].timing = "nextRenewal"
        to == CASE renewal -> "pending_renewal"
                [] truth[a] /\ ~renewal -> "applied"
                [] OTHER -> "failed"
    IN  /\ Resolvable(m)
        /\ run[a].pc # "calling"
        /\ to = "applied" => CanonicalSource(m, FALSE)
        /\ ~renewal => fence = a
        /\ sub' = IF to = "applied" THEN ProjectedTo(mig[m].target, sub.status, sub.status) ELSE sub
        /\ mig' = Resolved(m, to, Truthful(a), renewal, IF truth[a] THEN a ELSE NoAttempt)
        /\ IF renewal THEN UNCHANGED <<fence, log>>
           ELSE fence' = NoAttempt /\ log' = [log EXCEPT ![a] = Truthful(a)]
        /\ UNCHANGED <<history, run, truth, spent, serves>>

\* resolve() with `unknown`: recorded once, and an executing row is taken from
\* its call
ObserveMigration(m) ==
    /\ mig[m].status \in {"executing", "reconciliation_required"}
    /\ mig[m].token # NoAttempt
    /\ ~mig[m].observed
    /\ mig' = [mig EXCEPT ![m].status = "reconciliation_required", ![m].observed = TRUE]
    /\ UNCHANGED <<vars, serves>>

\* A direct mutation finds an active migration in its way
Next ==
    \/ DirectNext(Migrating) /\ UNCHANGED <<mig, serves>>
    \/ \E m \in Migration :
          \/ Preview(m) \/ Schedule(m) \/ CancelMigration(m)
          \/ \E a \in Attempt : Begin(a, m)
          \/ Settle(m) \/ ResolveMigration(m) \/ ObserveMigration(m)
    \/ \E a \in Attempt :
          \/ MigrationCall(a) \/ Project(a) \/ ProjectFails(a)
          \/ FailAttempt(a) \/ RequireReconciliation(a) \/ MigrationDies(a)

Spec == MigInit /\ [][Next]_allVars

----------------------------------------------------------------------------
(* Properties.                                                             *)

\* The claim, the provider's effect and the recorded verdict are a fence: two
\* attempts never overlap at the provider, none takes effect twice or after
\* its verdict, and no verdict is wrong
\* (docs/domain/35-subscription-price-migrations.md, "two provider mutations
\* cannot overlap even when their initial reads race")
Fence == INSTANCE MutationFence
            WITH inFlight <- fence, effect <- truth, verdict <- log
ImplementsFence == Fence!Spec

\* A migration is between its call and its verdict exactly while the active
\* claim is its attempt's, although row and claim are written by different
\* statements and requireReconciliation() swallows a lost one
InFlight(m) ==
    mig[m].status \in {"executing", "reconciliation_required", "pending_renewal"}

ClaimAndMigrationAgree ==
    /\ \A m \in Migration : InFlight(m) => fence = mig[m].token /\ mig[m].active
    /\ \A a \in Attempt : fence = a /\ serves[a] # NoMigration
          => \E m \in Migration : InFlight(m) /\ mig[m].token = a

\* However often a migration is retried, resolved and retried again, the
\* provider carries it out at most once: the customer is not charged twice
MigratedOnce ==
    \A a, b \in Attempt :
       truth[a] /\ truth[b] /\ serves[a] = serves[b] /\ a # b => serves[a] = NoMigration

\* With nobody holding the claim, the item of a subscription linked to the
\* catalog is the provider's, whoever wrote it last: the call, the operator or
\* the settlement.  Excepted is a subscription one of whose claims was taken
\* on an item or a renewal date that was no longer the provider's (stale), or
\* whose legacy change was resolved by the operator, which projects nothing.
ItemFollowsProvider ==
    (/\ fence = NoAttempt
     /\ sub.canon # NoItem
     /\ \A a \in Attempt : ~run[a].stale)
    => sub.item = Remote.item

\* The item of a subscription linked to the catalog changes only in the step
\* that records the verdict of an attempt the provider carried out; nothing
\* else, and no webhook, touches it
ItemMovesWithVerdict ==
    [][sub.canon # NoItem /\ sub'.item # sub.item
         => \E a \in Attempt : log[a] = "none" /\ log'[a] = "applied" /\ truth[a]]_allVars

============================================================================

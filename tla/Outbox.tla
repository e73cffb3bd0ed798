------------------------------- MODULE Outbox -------------------------------
(***************************************************************************)
(* The transactional outbox: rows staged by the application, claimed in    *)
(* batches by the workers that run OutboxService.publishPending, delivered *)
(* one after the other and marked published, scheduled for retry or dead-  *)
(* lettered.  A worker runs one batch at a time, so the lock token that    *)
(* claimPending draws for the batch is the worker itself.  Deadlines are   *)
(* kept as the time left until them: locked_until <= now is lockLeft = 0.  *)
(***************************************************************************)
EXTENDS FairOrder

CONSTANTS
    Event,
    Worker,
    None,           \* no worker: locked_by is null
    Tenant,
    TenantOf,       \* TenantOf[e]: tenant_id of the row
    Limit,          \* publishPending's limit
    FetchLimit,     \* min(limit * FAIR_OVERFETCH_FACTOR, MAX_FAIR_OVERFETCH)
    MaxAttempts, BackoffMs, MaxBackoffMs,
    ClaimTtl,       \* CLAIM_TTL_MS
    Locking,        \* the storage drivers to consider: TRUE for Knex with row
                    \* locks (FOR UPDATE SKIP LOCKED), FALSE for Prisma, SQLite
    MaxStalls,      \* bound: ticks while some worker has a batch in hand
    MaxFaults,      \* bound: mark statements that throw
    MaxCrashes      \* bound: worker crashes

ASSUME OutboxAssumption ==
    /\ None \notin Worker
    /\ TenantOf \in [Event -> Tenant]
    /\ Limit \in Nat \ {0}
    /\ FetchLimit \in Nat \ {0}
    /\ MaxAttempts \in Nat \ {0}
    /\ BackoffMs \in Nat
    /\ MaxBackoffMs \in Nat
    /\ ClaimTtl \in Nat \ {0}
    /\ Locking \subseteq BOOLEAN
    /\ MaxStalls \in Nat
    /\ MaxFaults \in Nat
    /\ MaxCrashes \in Nat

VARIABLES
    locking,    \* the storage driver, fixed at the start
    createdAt,  \* place of each row in (created_at, id) order, 0 before it exists
    row,        \* the rows of payable_outbox_events
    pc,         \* where each worker is
    window,     \* candidate rows of the worker's open claim transaction
    batch,      \* claimed events the worker still has to handle
    lease,      \* time left of the worker's own claim
    failures,   \* failed deliveries of each event, counted up to MaxAttempts
    stalls, faults, crashes

vars == <<locking, createdAt, row, pc, window, batch, lease, failures,
          stalls, faults, crashes>>

\* status: absent, pending, processing, published or failed (dead-lettered).
NoRow == [status |-> "absent", attempts |-> 0, retryLeft |-> 0,
          lockedBy |-> None, lockLeft |-> 0]

\* The event that publishOne has in hand.
Current(w) == Head(batch[w]).id
Ids(claimed) == {claimed[i].id : i \in DOMAIN claimed}
Served(claimed, t) == Cardinality({e \in Ids(claimed) : TenantOf[e] = t})

-----------------------------------------------------------------------------
\* Backoff

\* Math.floor(half + random() * half), with random() in [0, 1).
Delays(attempts) ==
    LET base == BackoffMs * 2 ^ (attempts - 1)
        cap == IF base <= MaxBackoffMs THEN base ELSE MaxBackoffMs
    IN  IF cap = 0 THEN {0} ELSE (cap \div 2)..(cap - 1)

\* No delay is lost to rounding: the retry time of an attempt that is not the
\* last lies in the future (it does if both backoffs are at least 2).
RetriesLieAhead == \A n \in 1..(MaxAttempts - 1) : \A delay \in Delays(n) : delay > 0

-----------------------------------------------------------------------------
\* Actions

Init ==
    /\ locking \in Locking
    /\ createdAt = [e \in Event |-> 0]
    /\ row = [e \in Event |-> NoRow]
    /\ pc = [w \in Worker |-> "idle"]
    /\ window = [w \in Worker |-> {}]
    /\ batch = [w \in Worker |-> <<>>]
    /\ lease = [w \in Worker |-> 0]
    /\ failures = [e \in Event |-> 0]
    /\ stalls = 0
    /\ faults = 0
    /\ crashes = 0

Staged == {e \in Event : row[e].status # "absent"}

\* create(): the row is committed with the change that announces it.
Stage(e) ==
    /\ row[e].status = "absent"
    /\ row' = [row EXCEPT ![e].status = "pending"]
    /\ createdAt' = [createdAt EXCEPT ![e] = Cardinality(Staged) + 1]
    /\ UNCHANGED <<pc, window, batch, lease, failures,
                   stalls, faults, crashes>>

MutClaimableIgnoresLease(e) ==
    \/ row[e].status = "pending" /\ row[e].retryLeft = 0
    \/ row[e].status = "processing"
MutClaimableNoReclaim(e) ==
    row[e].status = "pending" /\ row[e].retryLeft = 0
Claimable(e) ==
    \/ row[e].status = "pending" /\ row[e].retryLeft = 0
    \/ row[e].status = "processing" /\ row[e].lockLeft = 0

\* Rows that the claim transaction of another worker holds FOR UPDATE.
LockedByOthers(w) ==
    IF locking
    THEN UNION {window[v] : v \in Worker \ {w}}
    ELSE {}

Older == {p \in Event \X Event : createdAt[p[1]] < createdAt[p[2]]}

\* A claim transaction opens and reads the oldest of the open rows.
OpenClaim(w, open) ==
    /\ pc[w] = "idle"
    /\ open # {}
    /\ window' = [window EXCEPT ![w] = FirstOf(FetchLimit, open, Older)]
    /\ pc' = [pc EXCEPT ![w] = "claiming"]
    /\ UNCHANGED <<createdAt, row, batch, lease, failures,
                   stalls, faults, crashes>>

\* claimPending of the Knex repository: SELECT ... FOR UPDATE SKIP LOCKED.
SelectForUpdate(w) ==
    /\ locking
    /\ OpenClaim(w, {e \in Event : Claimable(e)} \ LockedByOthers(w))

\* claimPending of the Prisma repository: a findMany that locks nothing.
FindCandidates(w) == ~locking /\ OpenClaim(w, {e \in Event : Claimable(e)})

\* The rows the UPDATE of claimPending changes: a fair share of the candidates,
\* up to the limit, that is still claimable.
Turns(w) == TurnOrder(window[w], createdAt, TenantOf)
MutChosenOldest(w) == {e \in FirstOf(Limit, window[w], Older) : Claimable(e)}
Chosen(w) == {e \in FirstOf(Limit, window[w], Turns(w)) : Claimable(e)}

\* claimPending: the UPDATE and the commit; the batch is what it updated.
ClaimRows(w) ==
    /\ pc[w] = "claiming"
    /\ LET chosen == Chosen(w)
           ids == InOrder(chosen, Turns(w))
       IN
       /\ row' = [e \in Event |-> IF e \in chosen
             THEN [row[e] EXCEPT !.status = "processing", !.lockedBy = w,
                                 !.lockLeft = ClaimTtl]
             ELSE row[e]]
       /\ batch' = [batch EXCEPT ![w] = [i \in DOMAIN ids |->
             [id |-> ids[i], attempts |-> row[ids[i]].attempts]]]
       /\ lease' = [lease EXCEPT ![w] = IF chosen = {} THEN 0 ELSE ClaimTtl]
       /\ pc' = [pc EXCEPT ![w] = IF chosen = {} THEN "idle" ELSE "delivering"]
    /\ window' = [window EXCEPT ![w] = {}]
    /\ UNCHANGED <<createdAt, failures, stalls, faults, crashes>>

\* publishOne: deliver(event) returns ...
DeliverReturns(w) ==
    /\ pc[w] = "delivering"
    /\ pc' = [pc EXCEPT ![w] = "publishing"]
    /\ UNCHANGED <<createdAt, row, window, batch, lease, failures,
                   stalls, faults, crashes>>

\* ... or throws.
DeliverThrows(w) ==
    /\ pc[w] = "delivering"
    /\ failures' = [failures EXCEPT ![Current(w)] = Min({@ + 1, MaxAttempts})]
    /\ pc' = [pc EXCEPT ![w] = "failing"]
    /\ UNCHANGED <<createdAt, row, window, batch, lease,
                   stalls, faults, crashes>>

\* The for loop of publishPending goes on to the next event of the batch.
NextEvent(w) ==
    /\ batch' = [batch EXCEPT ![w] = Tail(@)]
    /\ pc' = [pc EXCEPT ![w] = IF Len(batch[w]) = 1 THEN "idle" ELSE "delivering"]
    /\ lease' = [lease EXCEPT ![w] = IF Len(batch[w]) = 1 THEN 0 ELSE @]

\* owned(): the WHERE clause of both marks.
MutOwnedIgnoresToken(e, w) == row[e].status # "absent"
Owned(e, w) == row[e].lockedBy = w

MarkPublished(w) ==
    /\ pc[w] = "publishing"
    /\ Current(w) \notin LockedByOthers(w)
    /\ IF Owned(Current(w), w)
       THEN row' = [row EXCEPT ![Current(w)].status = "published",
                               ![Current(w)].lockedBy = None,
                               ![Current(w)].lockLeft = 0]
       ELSE UNCHANGED row
    /\ NextEvent(w)
    /\ UNCHANGED <<createdAt, window, failures, stalls, faults, crashes>>

\* handleDeliveryFailure: the retry time handed to markFailed, 0 for null.
MutRetryAfterOffByOne(attempts) ==
    IF attempts + 1 >= MaxAttempts - 1 THEN {0} ELSE Delays(attempts + 1)
RetryAfter(attempts) ==
    IF attempts + 1 >= MaxAttempts THEN {0} ELSE Delays(attempts + 1)

\* markFailed: a retry time that is not in the future dead-letters the row.
MarkFailed(w) ==
    /\ pc[w] = "failing"
    /\ Current(w) \notin LockedByOthers(w)
    /\ \E delay \in RetryAfter(Head(batch[w]).attempts) :
         IF Owned(Current(w), w)
         THEN row' = [row EXCEPT ![Current(w)] =
                [status |-> IF delay > 0 THEN "pending" ELSE "failed",
                 attempts |-> @.attempts + 1,
                 retryLeft |-> IF delay > 0 THEN delay ELSE 0, lockedBy |-> None, lockLeft |-> 0]]
         ELSE UNCHANGED row
    /\ NextEvent(w)
    /\ UNCHANGED <<createdAt, window, failures, stalls, faults, crashes>>

\* Either mark throws: logged, the row is left for reclaim.
MarkThrows(w) ==
    /\ pc[w] \in {"publishing", "failing"}
    /\ faults < MaxFaults
    /\ faults' = faults + 1
    /\ NextEvent(w)
    /\ UNCHANGED <<createdAt, row, window, failures, stalls, crashes>>

\* The process dies: its batch is lost, an open transaction is rolled back.
Crash(w) ==
    /\ pc[w] # "idle"
    /\ crashes < MaxCrashes
    /\ crashes' = crashes + 1
    /\ pc' = [pc EXCEPT ![w] = "idle"]
    /\ window' = [window EXCEPT ![w] = {}]
    /\ batch' = [batch EXCEPT ![w] = <<>>]
    /\ lease' = [lease EXCEPT ![w] = 0]
    /\ UNCHANGED <<createdAt, row, failures, stalls, faults>>

Busy == \E w \in Worker : pc[w] # "idle"
Before(time) == IF time = 0 THEN 0 ELSE time - 1

\* Time passes.  A claim transaction takes less than one unit of time.
Tick ==
    /\ \A w \in Worker : pc[w] # "claiming"
    /\ \E e \in Event : row[e].retryLeft > 0 \/ row[e].lockLeft > 0
    /\ Busy => stalls < MaxStalls
    /\ stalls' = IF Busy THEN stalls + 1 ELSE stalls
    /\ row' = [e \in Event |-> [row[e] EXCEPT !.retryLeft = Before(@),
                                              !.lockLeft = Before(@)]]
    /\ lease' = [w \in Worker |-> Before(lease[w])]
    /\ UNCHANGED <<createdAt, pc, window, batch, failures,
                   faults, crashes>>

Work(w) ==
    \/ SelectForUpdate(w) \/ FindCandidates(w) \/ ClaimRows(w)
    \/ DeliverReturns(w) \/ DeliverThrows(w)
    \/ MarkPublished(w) \/ MarkFailed(w) \/ MarkThrows(w)

Next ==
    /\ UNCHANGED locking
    /\ \/ \E e \in Event : Stage(e)
       \/ \E w \in Worker : Work(w) \/ Crash(w)
       \/ Tick

Spec == Init /\ [][Next]_vars

-----------------------------------------------------------------------------
\* Properties

\* claimPending never hands an event to a second worker while the first is
\* inside its claim and has not settled the event.
ClaimIsExclusive ==
    \A v, w \in Worker :
        v # w /\ lease[v] > 0 /\ lease[w] > 0 => Ids(batch[v]) \cap Ids(batch[w]) = {}

\* A row is dead-lettered only after maxAttempts deliveries of it threw,
\* whatever claims expired and whichever workers made the attempts.
DeadLetterOnlyWhenExhausted ==
    \A e \in Event : row[e].status = "failed" => failures[e] = MaxAttempts

\* Once published or dead-lettered a row is never claimed or marked again:
\* a worker whose claim was taken over stands down.
SettledIsFinal ==
    [][\A e \in Event :
         row[e].status \in {"published", "failed"} => row'[e] = row[e]]_vars

\* A claim serves the tenants of its candidates evenly: one tenant gets two
\* rows more than another only if all candidates of the other are claimed, or
\* another worker has taken one of them since they were read, which only a
\* store that locks no rows allows (fairlyOrdered, claimPending).
ClaimServesTenantsEvenly ==
    [][\A w \in Worker : pc[w] = "claiming" /\ pc'[w] = "delivering" =>
         \A s, t \in Tenant :
            Served(batch'[w], s) > Served(batch'[w], t) + 1 =>
                LET candidates == {e \in window[w] : TenantOf[e] = t}
                IN  \/ candidates \subseteq Ids(batch'[w])
                    \/ ~locking /\ \E e \in candidates : ~Claimable(e)]_vars

\* Every staged event is eventually published or dead-lettered, once workers
\* stop crashing and stalling beyond their claims.
EveryEventSettles ==
    \A e \in Event :
        row[e].status # "absent" ~> row[e].status \in {"published", "failed"}

=============================================================================

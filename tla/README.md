# A verification development for payable

TLA+ models of the concurrent core of `payable` (a TypeScript billing library), the TLC
configurations that check them on small instances, and TLAPS proofs of the promises that matter
most, for every instance. Source paths below are relative to `src/src/` of the repository,
documents to `src/docs/`.

`PROJECT.json` lists the components, the runs, for each property a plausible bug in the code that it
detects, the source lines every definition translates, the hazards the properties are aimed at, and
the theorems.

## 1. The system

`payable` runs inside a host application, in any number of processes that share one database. It
keeps all its state in rows; its processes share nothing else, except for an optional queue and an
optional lock driver. So its hard behaviour is that of *conditional writes*: a handler reads a row,
awaits something slow (a provider, another statement), and writes under a `WHERE` clause that
decides whether what it read still holds. Nor does it share a transaction with the payment provider:
what happened there is learned from an answer, which may be lost, or from an event, which may come
late, twice or never.

| Component | State | Operations | What makes it correct |
|---|---|---|---|
| Idempotency service | one row per key: status, request hash, lease, expiry, owner token, response | execute: acquire, take over, run, mark completed or failed, verify | one runner per live lease; only recorded answers are returned; the reconciliation policy allows one effect |
| Outbox relay | outbox rows: status, attempts, retry time, claim token and expiry | create, claimPending, publishPending, markPublished, markFailed | exclusive live claims, retry until exhausted, settled rows final, tenants served evenly, every row settles |
| Webhook delivery to merchants | delivery rows, endpoints enabled or disabled | deliver one outbox event to all endpoints, record, disable | nothing published past an enabled endpoint; an endpoint is disabled for real failures only; fits the outbox protocol |
| Webhook inbox (payments and treasury) | event rows: status, claim token and expiry; queue jobs | receive, store, dispatch, claim, process, mark, replay | an acknowledged event is not lost, is processed by one run at a time, is staged for the outbox once |
| Queue drivers | BullMQ jobs, or none (inline) | dispatch, take, retry, stall, dead letter | used by the inbox; jobs are deduplicated by event id |
| Payments, checkout | `payments.status`, captured amount, provider id; at the provider a payment or a session with attempts | charge, authorize, checkout, capture, void, expire, local transitions, provider events, redirect callbacks, the sweep of unsettled checkouts | the row claims no more than the provider did, moves along the state machine, and an uncertain capture is asked once |
| Payment providers | none; each adapter translates | read a status out of an event, an answer, a callback | a report says what the provider's words mean |
| Refunds | `payments.refunded_amount` and `status`, refund rows | refund through the provider (reserve, call, settle or release), record a local refund | the ledger is the sum of its rows; never more than the payment is returned; a settled row is final |
| Subscriptions and their mutation claims | the subscription with its items; one claim per subscription | swap, change, quantity, cancel, pause, resume, the provider's events, resolution by an operator | one mutation at a time; an ambiguous outcome keeps the claim; the local item is the provider's |
| Subscription price migrations | migration rows: status, execution token, outcome | preview, schedule, execute, retry, cancel, settle, observe, resolve | migration and claim agree; a migration is carried out once |
| Customer synchronization | sync state with attempt number, owner, 30 s lease; binding | claim, follow, provider create or update, complete, fail, report an orphan | no second customer; state and binding agree; what was created is accounted for; calls end |
| Catalog synchronization | a row per resource: generation, status, owner, 30 s lease; bindings; jobs | request, retry, reconcile, process a job of a product or price | a create is not repeated blindly; state and binding agree; what was made is bound or reported |
| Catalog persistence | product and price rows, audit entries, outbox rows | create, update, activate and archive at the provider, then persist | the record tells each row's history without a gap; what a call returned was persisted |
| Audit log | a hash chain per tenant | append (alone or in a business transaction), backfill, verify | appends form one chain without a gap, each entry once; a verdict was true of the chain |
| Money | none | divide, allocate, convert, rescale | no unit is lost, every part is within a unit of its share |
| Schema migrations (Knex) | the database's tables, keys and rows; a ledger of steps; an advisory lock | migrate: twenty-five steps of statements | a recorded step is done and stays done; a call goes on where a dead one stopped; an upgrade keeps identities and unique keys |
| Invoices; locks; cache; event bus; encryption; row mapping; presentation; registries | single-row writes, in-process or none | adapters, translation, pure functions | see §8 |

**Interactions.** Receive → store → dispatch → queue → process → pipeline, which writes payments,
subscriptions and audit entries and stages an **outbox** row in one transaction; the outbox is
drained by `deliverPendingWebhooks`, whose `deliver` callback is the **webhook delivery** service.
Charge, refund, capture, customer creation and catalog mutations run inside **idempotency**;
capture and void, and inside them a distributed lock; subscription mutations and price migrations
share one **claim**. A product run of **catalog synchronization** is started by a price's run and
inside it. Whatever changes money, catalog or subscriptions appends to the **audit chain** in the
same transaction.

**What is hard here.** Interleavings of processes between two awaits; leases that expire under a
live holder; storage calls that throw although they took effect, and lost commit acknowledgements;
processes that die; repeated, racing and reordered deliveries; provider calls whose outcome is
unknown; a compare-and-swap against a part of the row; stores that do not lock the rows they select
(Prisma, SQLite); and an operator who settles what the program cannot know. The `hazards` of
`PROJECT.json` give each at its line, and the three that no property covers say why.

## 2. Plan

Done, in the order in which it was built:

1. `Idempotency` and its proofs (now in `PaymentProofs`).
2. `FairOrder`, `Outbox`, and `WebhookDelivery`, shown (by TLC and by proof) to implement `Outbox`,
   with liveness; the proofs of their safety properties.
3. `WebhookInbox` with the queue, in its payment, treasury and inline pipelines, with liveness; the
   proofs of its safety properties (in `RefundsAndInboxProofs`).
4. `PaymentMachine`, `Refunds` and its proofs; `Amounts`.
5. `PaymentReports` and `PaymentLifecycle`: payments and redirect checkouts; their proofs.
6. `MutationFence`, the abstract specification; `SubscriptionMachine`, `SubscriptionMutations`,
   `PriceMigrations`, shown (by TLC and by proof) to implement it; `SubscriptionItems`.
7. `CustomerSync`, `CatalogSync`, `CatalogPersistence` and their proofs.
8. `AuditChain` and its proofs.
9. `SchemaSteps` and `SchemaMigrations`, then `SchemaLaws` and their proofs (in `CatalogAndSchemaProofs`).

Worth doing next: subscriptions with several items in the state machine, for which
`SubscriptionItems` already has the pairing; the second pending row a checkout opens when it is repeated after a rebinding; the host's manual reconciliation of customers.

## 3. Modules

Each module's header says what it models and what it leaves out. Names are the source's; `pc`
values are named after the await a call is at. One action stands for what runs between two awaits,
or for one statement or transaction of the database. The definitions whose name begins with `Mut` are
variants of a definition with a bug; nothing but `PROJECT.json` refers to them.

### Idempotency

One key, a set of calls `Execution` with their request hashes. State: the row (`record`), the clock
(`now`, bounded by `MaxTime`), each call's place (`pc`), its lease, its result. One action per
awaited statement of `IdempotencyService.execute` and `run`: `Execute`, `Acquire` (insert, or lose
to the unique index), `Reread`, `TakeOver` (the conditional UPDATE), `Effect` and
`RunReturns`/`RunThrows` (the operation, which may take effect before it throws), `MarkCompleted`,
`MarkFailed`, `Verify` (the find after completion), `MarkUnverified`; `StoreThrows` and the second
disjuncts of the marks are storage calls that throw before or after they took effect; `Crash` is a
process death. The policy (`resolvePolicy`) is computed from `settings`, chosen once from the
constant `Settings`, so that a run covers several configurations of the service.

### FairOrder, Outbox, WebhookDelivery

`FairOrder` is `fairlyOrdered` as an order on the candidates: a candidate's turn is the round in which
its tenant's bucket reaches it, then its bucket; an assumption of `MCOutbox` compares it with what it
promises for every list of up to five candidates of three tenants and every limit up to six.
`Outbox` has rows, their place in the order of creation (`createdAt`, which stands for `created_at, id`),
the clock as countdowns (`retryLeft`, `lockLeft`), and per worker the candidates of its claim
transaction (`window`), the claimed batch and the remaining lease. `SelectForUpdate` and
`FindCandidates` are the claim on stores with and without `FOR UPDATE SKIP LOCKED`, `ClaimRows` the
UPDATE that tests again, then `DeliverReturns`/`DeliverThrows`, `MarkPublished`/`MarkFailed` under
the token, `MarkThrows`, `Crash` and `Tick`. `WebhookDelivery` extends it: `deliver` becomes a walk
over the endpoints (`todo` is the set of their places still to visit, `Facing` the one in hand) with posts, delivery rows, attempt counters and disabling. The property
`ImplementsOutbox` states that each of its steps is a step of `Outbox` (or leaves its variables
alone), so the outbox's safety properties hold of the composition.

### WebhookInbox

One provider event: its row, its BullMQ job, the requests that deliver it, workers, and operators
that replay it. `pipeline` selects BullMQ or inline queue and the payment or treasury pipeline.
Receiving is `Receive`, `CreateEvent` (or the unique violation and `LookUpRaced`), `Dispatch`,
`Settle`; processing is `ReadEvent`, `ClaimEvent`/`ClaimTreasuryEvent`, `ReconcileCatalog`,
`Commit`/`CommitTreasury`, `MarkFailed`. Every call of the store may throw: `ReadThrows`, and
`ClaimThrows`, before or after its UPDATE, hand the error to the queue, since `findById` and `claim()`
are awaited outside the `try`; `CreateThrows` and `DispatchThrows`, also after they took effect, give
it to the provider. The queue is `TakeJob`, `StallJob`, `RecoverJob`,
`ForgetJob` and the retry rule `JobAfter`.

### PaymentMachine, PaymentReports, PaymentLifecycle

`PaymentMachine` is the transition table. `PaymentReports` is what the adapters of Stripe, Revolut,
Trust My Travel and SISP make of a provider's words: the status they read out of an event, out of an
answer to a charge or authorization, of a retrieved session, of a callback; a report is a set of
statuses, empty where the adapter reports nothing or throws.

`PaymentLifecycle` is one row (`payment`), the payment at the provider (`provider`, with what it
captured and on which request), the events it has sent and where each is processed (`event`), the
attempts of the customer in a checkout session with their callbacks, the opening call, the calls of
capture and void (or of a local succeed and void), and the sweep. The row is opened by `AskProvider`
and `CreatePayment` (charge and authorize: the provider first, then the row unless it is found), by
`OpenSession` and `RecordSession` (a checkout), or by `RecordLocal`. A happening at the provider
sends the events that the adapters make something of (`Tells`, `Sends`): one for each status, and for an
authorization also the `charge.succeeded` that Stripe sends of an uncaptured charge (`uncaptured`). Each
is processed at any time, again, or never, by `ReadEvent` and `WriteEvent`, a read without a lock and
an unconditional update in one transaction; an event that the row does not accept changes nothing and
has no step. A callback is
`HandleRedirect`, `FindRedirect`, `ReadRedirect`, `WriteRedirect`, read with the lock, which rebinds
the row from the session to the transaction (`Rebind`). The sweep of
`ReconcileUnsettledCheckoutAction` is `FindSession`, `AskSession`, `CloseUnsettled`.
`SettleAuthorization` takes the idempotency claim, which `Granted` reduces to what `Idempotency`
shows of it (one runner at a time, a claim that survives its dead holder, a failure that may be
repeated only by the same request at a provider with native idempotency); then come
`CheckAuthorized`, `ExpireAuthorization`, `AskSettlement`, the compare-and-swap `SettlePayment`, and
`CloseClaim`. `mode.store` tells apart stores that run one transaction at a time, that lock rows
read `FOR UPDATE`, and that lock none.

### Refunds, Amounts

In `Refunds` every call owns one refund row. A provider refund is `RefundPayment` (read, status
check), `CheckPending` (the pending check and the amount check on the payment read before),
`StartReserve`/`Reserve` (the transaction: read, compute, compare-and-swap on the refunded amount,
create the pending row, or retry), `ProviderRefund`, then `Finalize`, `RejectResponse` or
`BeginRelease`/`StartRelease`/`Release`. A local refund is `RefundLocal`, `StartRecord`, `Record`.
With `mode.locking` a transaction excludes the others from its read on; otherwise two transactions
read the same row. `mode.unknownOutcomes` allows the provider to refund and throw. A storage call
that throws ends the call with its transaction rolled back, as the death of its process does: both
are `Crash`.

`Amounts` is the arithmetic of money as pure operators: rounding division, percentages, allocation by
ratios, conversion, and Stripe's rescaling of currencies whose minor unit differs. Assumptions of
`MCRefunds` compare each with what it is for: the quotient is the nearest, an allocation adds up and
gives each part within one unit of its share, the way to Stripe and back loses nothing.

### MutationFence, SubscriptionMachine, SubscriptionMutations, PriceMigrations

`MutationFence` is the promise of the shared claim: attempts to change a subscription at its provider
follow one another. It has the attempt in flight, which attempts took effect, and the verdicts, with
`Begin`, `TakeEffect`, `Conclude`.

`SubscriptionMachine` is the status machine with the reconciliation of events (paths through several
transitions). `SubscriptionMutations` is the direct mutations of one subscription with one item.
An attempt is `Resolve` (it reads the row), `Select` (nobody holds the claim; it reads the item),
`Claim` (the insert under the unique index), `CallProvider`/`CallThrows` (the provider carries out `Carried`, a
function of what the attempt *read*), and `Persist` (the transaction that writes `Projected` and
deletes the claim). `Dies` is a process death or a storage call that throws; `ResolveClaim` is the
operator. `ProviderEvent` changes the subscription at the provider, `Webhook` reports it at any
time or never. `PriceMigrations` adds the migration rows with their compare-and-swap (`ValidCas`) over
the same claim: `Preview`, `Schedule`, `CancelMigration`, `Begin` (claim and row in one
transaction), `MigrationCall`, `Project`, `ProjectFails`, `FailAttempt`, `RequireReconciliation`,
`Settle`, `ObserveMigration`, `ResolveMigration`.

### SubscriptionItems

How the lines of a subscription are paired with the items a provider lists, which is where a
subscription with several lines could go wrong: first by provider id, then by price and quantity,
then by price alone, by rank within groups that look alike, and only in groups that are equally large
on both sides (`MatchGroups`, `Grouped`, `Matched`, `Reconciliations`, `ReconciledRows`). The state machine has one item;
`SingleItemIsTaken`, an assumption of `MCPriceMigrations`, is what it relies on.

### CustomerSync

The calls of `SyncCustomerWithProviderAction` for one customer and one provider account. A call reads
the binding, reads the state, and takes a `Course`: follow a live attempt, reclaim, update or create
(`TakeClaim` is the compare-and-swap on the attempt number), or stop for manual reconciliation. It then
calls the provider (`CreateRemote`, `UpdateRemote`, uncertain or refused), binds (`Persist`), and
completes in one of four ways (`Synchronize`, `Report`, `ReportUncertain`, `ReportFailed`), each under
the owner test `Holds`. `ExpireLease`, `Tick`, `ForgetKey`, `Crash` and the throwing variants are
the environment. Remote customers are numbered, so that a second one is a number.

### CatalogSync, CatalogPersistence

`CatalogSync` is a product and a price of it. Callers `Request`, `Retry` and `Reconcile` (each a read
and a later write); workers `Take` a dispatched job, `Check`, `Claim`, see to the parent product
(`Ensure`, `AwaitBinding`), `Recover` a remembered id, `Create` or `Update` at the provider, `Commit`
row and binding, or `Remember`, `Report` and `Fail`. A worker has two frames, since a price's run
contains a product's. The queue may hand a dispatched job out any number of times.

`CatalogPersistence` is the direct mutations: `Begin`, `CallProvider`, then a transaction `ReadRow`,
`Commit` (compare-and-swap, audit entry and event together), and `Recover`, which asks the row after a
transaction that found it changed or that threw. Nothing ties the order of the answers to the order
of the transactions.

### AuditChain

The chain of one tenant. An append is `ReadLatest`, `Insert` (waits for a transaction that holds the
number, fails with `Collide` if it committed), again up to `MaxRetries` times, then `Commit` or
`RollBack`; a business transaction may log again (`LogAnother`). `mode` says what a repeated
append inside a transaction sees: a savepoint's fresh read, an aborted transaction, or its own
snapshot. A backfill is `ReadLegacy`, `ReadLatestForBackfill`, `Renumber`, `CommitBackfill`; a
verifier reads page by page (`ReadPage`) while appends go on and other hands edit a row (`Edit`). A
hash is the sequence of what was hashed, so equal hashes mean equal histories.

### SchemaSteps, SchemaLaws, SchemaMigrations

`SchemaSteps` is the twenty-five steps of `migrate(knex)` as data: each a sequence of operations that
look at the database (`hasTable`, `hasColumn`, `indexExists`) and then issue statements, every
statement a transaction of its own. The database is a set of objects, pairs of a table and a part of
it; columns that go together are one object, and a backfill's row is one. `SchemaMigrations` runs the
steps: `Migrate` and `Acquire` (the advisory lock of PostgreSQL and MySQL, with `TimeOut`; SQLite has
none), `Look` (the ledger), `Guard` (what an operation finds), the statements `Add`, `Reference`,
`Update`, `Drop`, `Copy`, `Check`, then `Record`. A process can `Die` anywhere, and `Repair` is the
operator who corrects the rows that a call reported. What `createIfMissing` skips as a whole because
the table is there is kept in `torn`. The starts are an empty database and the one of an earlier
release that the repository's upgrade tests begin with. What Knex makes of a builder is external.

`SchemaLaws` states what the steps have in common, as assumptions in which no constant and no variable
occurs: nothing that is added is dropped later (`NothingIsUndone`), a table is made before anything
asks for it (`TablesComeFirst`) and whole (`TablesAreMadeWhole`), an operation that adds looks for the
one thing it adds and one that drops has looked for it (`OperationsAreShaped`), columns go after their
rows have been compared (`ColumnsGoLast`) and a unique key after its successor has come
(`NewKeysComeFirst`). They are statements about finite data, so one evaluation decides each. TLC
evaluates them when it starts on `MCCatalogPersistence`; the run of `SchemaMigrations` does without
them, so that a step that breaks a law is seen there by what comes of it. A new migration step for
which a law is false needs a look at the proofs.

## 4. Runs

All properties of a run are checked together; each has a mutation of a mapped definition under
which TLC finds it violated.

| Run | Instance | What it shows |
|---|---|---|
| `idempotency` | 3 calls, two of them the same request; lease 1, retention of failures 1, time 3; three settings; storage calls throw | `AnswerWasPersisted`, `AnswerHoldsUntilExpiry`, `LeaseProtectsRunner`, `AtMostOneEffect` |
| `outbox` | 2 workers, 2 rows of one tenant and 1 of another, batch 2 of a window of 3, 2 attempts, one claim expiring under a worker, one throw, one crash, both kinds of store | `ClaimIsExclusive`, `DeadLetterOnlyWhenExhausted`, `SettledIsFinal`, `ClaimServesTenantsEvenly` |
| `webhook_delivery` | 2 workers, one event, 2 endpoints, endpoint limit 2, row limit 3, one expired claim, one crash, one storage fault | `PublishedReachedEndpoints`, `DisabledWasEarned`, `ImplementsOutbox`; `EveryEventSettles` under fairness |
| `webhook_inbox` | 2 deliveries and a repeated one, 2 workers, 1 operator, three pipelines, any three of: redelivery, throwing reads, claims and steps, a claim written but not answered, a lost acknowledgement of a commit, failing mark, crash, stalled job, expired claims | `EffectsAccounted`, `ClaimIsExclusive`, `AcceptedIsSettled` under fairness |
| `payment` | 2 calls, an amount of 2 units, 2 attempts in a checkout session, one report before the payment is authorized or captured, one crash or throw, eleven combinations of store, provider and kind of payment | `RowFollowsProvider`, `UncertainIsAskedOnce`, `MovesAlongTable` |
| `refunds` | 2 provider refunds and 1 local one of a payment of 3 units, all modes, one crash; also the arithmetic of `Amounts` | `LedgerIsSum`, `RefundsWithinPayment` |
| `subscriptions` | 2 attempts among swap, quantity update, cancel and pause or the execution and retry of 1 migration (immediate, scheduled, at the next renewal), 2 prices, 2 quantities, one event of the provider's own, one fault; also the pairing of `SubscriptionItems` | `ClaimAndMigrationAgree`, `MigratedOnce`, `ItemFollowsProvider`, `ItemMovesWithVerdict`, `ImplementsFence` |
| `sync` | 3 calls, both kinds of provider, one lease that runs out, one forgotten key, two faults, one crash | `OneRemoteCustomer`, `KnownIsAccounted`; `SyncReturns` under fairness |
| `catalog` | 2 workers with two runs in total, 1 caller asking twice, three kinds of provider, one edit or removal, one fault; rows new or synchronized before | `FirstCreateOnce`, `SucceededIsBound`, `EvidenceKept` |
| `catalog_persistence` | 3 calls, 2 states, one key or none, up to 2 resources, two faults, both kinds of provider | `TransitionsTellTheRow`, `ReturnedWasPersisted` |
| `audit` | 2 calls of up to 2 entries, 2 backfills of 2 legacy entries, 1 verifier with pages of 2, 2 retries, one fault, one edit, four modes | `ChainIsLinked`, `VerdictWasTrue`, `RecordedOnce`, `ContentionIsReal` |
| `schema` | 2 processes, 2 rows in each table that is copied, a price that contradicts a step; up to 4 calls and deaths, on SQLite 3; three databases | `RecordedStepsHold`, `LockedCallsNeverStumble`, `UpgradeLosesNothing` |

**What the less obvious properties say.** `ItemFollowsProvider`: with nobody
holding the claim, the item of a subscription linked to the catalog is the provider's; excepted
(`stale`) are attempts that claimed on an item or renewal date that was no longer the provider's, and the
run has no swap deferred to the renewal (§5).
`FirstCreateOnce`: without native idempotency a resource that is not bound was created at most once for
each generation; excepted (`overtaken`) is a request whose unguarded late write asked again for a
generation in doubt (§7). `KnownIsAccounted`: a customer that a call learned of is bound, in the row
or reported as orphaned; excepted (`unlooked`) is one whose binding was lost to another and whose
writer could not look up to which (§7). With the three calls of the run it is still in the row; a
fourth, which the theorem covers, may overwrite it. `RowFollowsProvider` excepts a row that the event of
an uncaptured charge moved to `succeeded` (`UncapturedCounted`, §7). `EffectsAccounted`: an event is
processed again only for a replay, or after a commit that was not acknowledged. `AcceptedIsSettled`
excepts two states in which nobody may be left to settle an event (§7): `NeverClaimed`, its job
dead-lettered while the row is still pending, and `ClaimStranded`, a row in `processing` whose token no
run works under any more, because a claim was not answered, a process died or a mark threw.
`ClaimServesTenantsEvenly` is about the rows in one claim's window, which in this run holds every row: it
says nothing of a tenant whose rows the window does not reach. `ContentionIsReal`: a call gives up for contention only if others appended as
many entries as it tried. `TransitionsTellTheRow`: read in order, the audit entries and events of a
row begin where the one before ended, and the last is the row. `ChainIsLinked` excepts a chain that a
backfill has `renumbered` (§7), and so does the half of `VerdictWasTrue` about a verdict of sound: with
three backfills, pages read before and after a renumbering can be valid each and never have stood in one
sound chain. Two backfills, the bound of the run, cannot do it. `RecordedStepsHold` excepts the `torn` (§7), which it shows to be all that a
death or an overtaking process can cost.

**Bounds.** Two actors that run the same code and one that differs give every race of the
protocols: each conditional write involves one writer and one rival, and a third actor supplies the
change-and-change-back between a read and its write. One lease expiry under a live holder is what
creates a stale holder. The payment of 3 units has a partial refund, one that empties it, one that
is refused, and amounts that return to an earlier value; two units are the least that tell a partial
capture from a full one. The retry loops of refunds are run with 2 attempts instead of 3
(`MAX_RESERVATION_ATTEMPTS`, `MAX_RELEASE_ATTEMPTS`) and those of the audit log with 2 instead of 50:
both the retry and its exhaustion occur. Two prices and two quantities let a swap and a quantity
update undo one another; two migrations in a row come from retries of the one. Two attempts to pay in
one session are the least of which one is declined and one collects. Countdown clocks are cut to one
unit per lease; only the order of expiry and steps matters to the code. Every bound on failures
(`MaxCrashes`, `MaxStalls`, `MaxFaults`, `MaxLostClaims`, ...) is a constant named in its module; `MaxHappenings` of
`WebhookInbox` bounds all kinds together, so that any three of them meet. Symmetry is used for
interchangeable calls, workers and rows in runs without liveness properties. Once each, larger
instances were run as well, without an error: `sync` with 4 calls and 3 faults (safety only),
`catalog` with 3 requests and with 2 faults, `audit` with 3 calls, `webhook_inbox` with any four of its
happenings, `payment` with a native provider's authorizations on a store without locks.

**Deadlock** is not checked: every instance is finite work that ends.

**Fairness.** Weak fairness of each worker's steps and of time: the host calls
`deliverPendingWebhooks` periodically, BullMQ's worker polls, a handler that has started continues
(an await returns or throws), a countdown reaches zero. Staging, deliveries by the provider, replays,
crashes, stalls and throws are not fair. The liveness properties therefore say that the work ends if
failures and stalls are finitely many; a worker that is slower than its claim every time would
prevent it. `AcceptedIsSettled` names the two states in which an event may be left behind (§7). `SyncReturns` holds with crashes: a follower gives up or reclaims. No liveness
is claimed for subscriptions (they wait for an operator), for the catalog (a generation whose
process died waits for a reconciliation) or for payments (an event may never come).

## 5. Proofs

Eight modules hold the theorems. Each proves its properties for every value of the constants, from
the `ASSUME`s of the module it is about (and the laws of `SchemaLaws`) and nothing else; TLC evaluates
these for every instance it runs. None of the properties is inductive, so each module is built around an inductive invariant with
one named conjunct per idea, one proof step per action, and one below it for each conjunct the action
can disturb.

**`PaymentProofs`** has two parts. About `PaymentLifecycle`, for any calls, amount, transactions and
faults, any store, provider and kind of payment: `RowFollowsProvider`, `UncertainIsAskedOnce` and
`MovesAlongTable`. `FollowsInv` says of everything on its way to the row what it knows of the provider: an
event sent (`EventsTrue`), the answer a callback carries (`CallbackTrue`), the answer of the opening call
(`OpenerTrue`), a settlement that trusts its answer (`CallTrue`). Such knowledge lasts because what the
provider collected or gave up stays so (`ProviderFinal`), and a charge has one transaction, which its
row names (`OneTransaction`); from the adapters it needs only that, `uncaptured` aside, they report a success
of nothing but a collection, and a cancellation of nothing but a closed payment (`EventTells`,
`CallbackTells`). What `uncaptured` moved to `succeeded` is excepted as long as it stays there, since such a
row does not accept the event a second time (`CountedStays`); that the row names the transaction is shown
of it too. `AskedInv`
says that without idempotency keys a claim, once granted, is never free again and has one holder, who
asks once. `ExclusiveInv` says that, where transactions exclude one another, an open one is the only one
and the row still is what it read; what a store that locks rows owes to this is that a kind of
payment without webhooks has no writer but those that lock. `Frames` lists for each variable the steps
that may change it, so that the proof of a conjunct looks at those only.

About `Idempotency`, for any calls, requests, TTLs and settings: type correctness,
`LeaseProtectsRunner`, `AnswerWasPersisted`, `AnswerHoldsUntilExpiry`, `AtMostOneEffect`, and that a
completed row is final until its retention ends (`CompletedIsFinal`, which no run needs to repeat).
`IdempotencyInv` adds that a runner has a lease (`LeaseSet`), that the row's lock is the lease of the
call that owns it (`LockedByRunner`: the token test of the marks then implies mutual exclusion until
the deadline), that a completed row carries the expiry its producer recorded (`CompletionRecorded`)
and that returned calls have an answer (`ResultsSettled`). `ReconcileOnce` needs `SingleOwner`: under
the reconciliation policy no call but the owner of the row has ever got past acquiring it, because no
state of the row lets `TakeOver` match.

**`RefundsAndInboxProofs`** has two parts. About `Refunds`, for any calls, amount, requests, numbers of
attempts, modes and crashes: type correctness, `LedgerIsSum`, `StatusFollowsLedger`, `RefundsWithinPayment`, `SettledIsFinal`,
`FullRefundIsFinal`.
`RefundsInv` adds `Place` (where a call is and its row: none before the reservation commits, a
pending one until the call settles or releases it, a release only after a refusal), `Truth` (the
provider's answer and the money, claimed only when a provider that throws has not refunded), and
that the payment a call read last was `Consistent` when it was read. That is what makes the
compare-and-swap on the amount alone sufficient: the status a transaction computed from its read is
the one that belongs to the amount the swap writes, whatever happened in between.
`FullRefundIsFinal` needs no history: a full payment leaves nothing to reserve, and a release is of a
pending row.

`LedgerIsSum` is inductive beside `RefundsInv`: each write of the amount passes the test on the amount
read, and its transaction writes the row of the call by as much. What it rests on are laws of sums over
a finite set of calls: the fold of the model satisfies its recursion (`SumsExist`), any element may be
taken out first (`SumsTakeOut`), and so the sum moves by what one row held and holds (`HeldInAllMoves`).
The library's principles of induction take an operator, which no backend instantiates; the lemmas
`NatInductive` and `SmallestSubset` say the same of sets and follow from its least element theorem.

About `WebhookInbox`, for any requests, workers, operators, lengths of a claim and failures:
`EffectsAccounted` and `ClaimIsExclusive`. The bound on the audit entries is not inductive: `InboxInv`
keeps room for one entry more while the event is not processed (`AuditsAccounted`), and of a run whose
token the row carries it says that the event is claimed as long as the run is in the pipeline, and that
if it fails over an event that is processed, its own commit was not acknowledged, so that the mark which
opens the event again has been paid for (`OwnerAccounted`). A run inside its lease owns the row, whose
claim lasts at least as long (`LeaseHeld`): no one else finds it claimable, and two such runs would give
it two tokens. Nothing is said of the job and the answers: jobs that are dispatched twice, stalled, lost
or finished too early do not matter to either property. The claim of a replay pays for an entry when
it is written, whether it is answered or not.

**`SubscriptionProofs`**, about direct mutations and migrations together, for any attempts,
migrations, prices, quantities and faults: the refinement of `MutationFence` (`MutationsAreFenced`:
initial states map to initial states and each step to a step or a stutter), `ClaimAndMigrationAgree`
and `MigratedOnce`. `FenceInv` says what a call at each point has done to the claim, the effect and
the log (`Calls`), what a row in each status says of its token's call and of the claim (`Rows`), and
that a claim has exactly one owner (`Owners`). The step to look at is `RequireReconciliation`, whose lost
compare-and-swap the code swallows: the invariant is shown to survive it whether the row was written
or not.

On `FenceInv` rest two results about the item of a subscription that is linked to the catalog.
`ItemMovesWithVerdict` needs that the holder of the claim has no verdict yet (`Undecided`).
`ItemFollowsProvider` needs `Follows`, which says by what the provider may be ahead of the row: by nothing
while nobody holds the claim or the holder had no effect; by the item it asked for when a direct
mutation took effect (`DirectAhead`), which therefore still asks with the item the row has; and for a migration
put off to the renewal, by a pending item until the period the preview named is over and by the item
itself after that (`MigrationAhead`). The types it rests on (`ItemTypes`) include that periods only grow at
the provider, which is what makes the check of the renewal date at the settlement sufficient. The theorem
has the hypothesis that no call is a swap deferred to the renewal, as in the run: such a swap releases its
claim long before it is in force, `persist()` writes no item for it, and the webhook that reports it leaves
the item of a linked subscription alone, so the row does not learn of it. A migration for the next renewal
exists for this case, and it is covered.

The same module proves of `SubscriptionItems`, for lists of any length, that a pairing is one-to-one in
both directions (`ReconciliationsAreOneToOne`, `MatchedIsOneToOne`), that a line keeps the item it names
while webhooks list it (`KnownItemsAreKept`), and that no webhook makes two lines name one item
(`RowsStayDistinct`). The key is that ranks within a group are distinct, since the set of what sorts
before the one is a proper subset of what sorts before the other.

**`OutboxProofs`**, for any workers, rows, tenants, limits, backoffs, lengths of a claim and failures, on
stores that lock rows and on stores that do not: `ClaimIsExclusive`, `SettledIsFinal`,
`DeadLetterOnlyWhenExhausted` and `ClaimServesTenantsEvenly` of the relay, and of webhook delivery, for any endpoints, that it implements
`Outbox`, `PublishedReachedEndpoints` and `DisabledWasEarned`. `RelayInv` says what a row in each status
carries (`RowStates`: a settled row has no owner), what a worker at each point has in hand (`Batches`:
an event at most once, in particular), and, in `Claims`, the heart of it: as long as a worker's own
lease runs, each event of its batch is still locked by its token, for as long as that lease at least.
Two live claims on one row would give the row two tokens. For `ClaimRows` this needs that a row which is
still claimable when the UPDATE tests it again is in no live claim, whatever the window read before;
that the batch is an enumeration of the chosen rows (`InOrderListsEachOnce`) rests on turns being a
total order (`TurnsAreAnOrder`).

`ClaimServesTenantsEvenly` needs two things. The first is about turns: what a claim takes is closed
under what has an earlier turn (`FirstOfIsClosed`), so if one tenant has two rows more in it than
another, the next row of the other would have come before the last of the one (`TurnsAreEven`). The
second, `RowLocks`, is that on a store that locks rows the candidates of an open claim stay claimable
and are in no other claim. The proof without the second failed, and with a batch of three TLC showed
why: on a store that locks nothing another worker can take a candidate between the read and the UPDATE,
and the batch is uneven although the tenant has candidates left. The property now says so; a batch of two
is too small for it, so the run neither needs nor shows that exception.

`FailuresCounted` adds that a row has never more attempts than failed deliveries, and neither has the copy
in a batch, so the counter a slow worker hands to `markFailed` may be stale but never too high. The
theorem about dead letters has the hypothesis `RetriesLieAhead`: no delay of a retry that is still
allowed is rounded down to zero. It holds whenever both backoffs are at least 2 ms (the default is a
second); where it does not hold the property is false (§7). The refinement
maps the states of `WebhookDelivery` to those of `Outbox` by identity; what needs proof is that the
callback's inner steps leave the relay alone and that each way out of `handle()` is `DeliverReturns` or
`DeliverThrows`. `DeliveryInv` has a part for each place inside `handle()` (`Handling`): an endpoint the
loop has passed has the event, was disabled, or has set `incomplete`; and the attempts a delivery row
counts, or a call has loaded, are posts that failed (`Recorded`).

**`CustomerSyncProofs`**, for any calls and failures: `OneRemoteCustomer`, `KnownIsAccounted` and `SynchronizedIsBound`.
`SyncInv` adds that a binding is never replaced (`BindingStands`), what a call holds (`InHand`), that
while nothing was created nobody holds the id of anything (`NothingCreated`), that a call that may still create
holds the claim (`CreatorHolds`), and that a row that could invite another creation means nothing was
created (`NoInvitation`). `KnownIsAccounted` has an invariant of its own, `AccountInv`: until an update
has failed at most one customer exists, so binding it forgets nobody; a customer just created, or
perhaps created, is known to no other call (`Untold`); and what the row drops once something is bound is the
bound customer, a reported one or one whose binding could not be looked up (`RowKept`).

**`CatalogSyncProofs`**, for any workers, callers, jobs and failures: `SucceededIsBound`,
`EvidenceKept`, `FirstCreateOnce`. `RunInv` says what a run knows at each of its points
(`RunKnows`), that a price is made, known or bound only under a bound product (`ParentBound`) and that
whoever has evidence of something made still owes a report (`EvidenceOwed`). `CreateInv` adds that a
generation that was created is closed to others (`MadeIsClosed`: it is processing, failed and
required, or retrying with the known id), that a run that may still create is the first
(`CreatorIsFirst`) and the only one (`CreatorIsAlone`). One lemma, `CreatesGoOn`, covers all steps
that make nothing.

**`CatalogAndSchemaProofs`** has two parts. About `CatalogPersistence`, for any calls, resources,
states, keys and failures: `TransitionsTellTheRow` and `ReturnedWasPersisted`. `PersistInv` adds what a call holds after the
answer (`InHand`: its resource, a mark no later than the history) and that a writer changes
something. Two lemmas carry the steps: one that writes no row keeps histories and witnesses
(`NothingWritten`), and one transition more keeps earlier states (`WriteIsTold`).

About `SchemaMigrations`, for any processes, calls, deaths and rows, on each dialect and from both
starts: `RecordedStepsHold`, `UpgradeLosesNothing` and `LockedCallsNeverStumble`. The twenty-five steps
enter the proofs through the laws and not one by one; only the three operations with which 008 drops
two columns are looked into. `SchemaInv`
says that a call inside the steps has all earlier ones in the ledger (`InTurn`), that the operations
before its own are `Done` (`Passed`), and the statements before its own (`Within`), as are all
operations of a recorded step (`RecordedDone`); that a table is there with all its parts but those
that `torn`, or a call in the middle of the CREATE, accounts for, and no part is there without its
table (`Whole`); and that what the old schema said is in the old place or in the new one (`Upgraded`).
What carries it is that the database only `Grows`: whatever a statement may add stays, and whatever one
may drop does not come back, whoever else runs, so what is done stays done on SQLite as well, where
calls overlap. Each action is one of seven ways of a call to move (`Moves`: it rests, goes on, begins,
enters, completes, continues or stays), and each way keeps each part. `LockInv` adds for the other two
dialects that a call inside the steps holds the lock and that what it looked for is still so (`Fits`);
a half made table is no obstacle, because `Whole` makes `createIfMissing` find it needless.

**`AuditChainProofs`**, for any calls, backfills, verifiers, retries, entries, legacy rows, faults and
edits: `RecordedOnce`, `ChainIsLinked`, `ContentionIsReal`, `VerdictWasTrue`. `OnceInv` says that an open transaction
has its numbers for itself (`CallHolds`), that a backfill in its commit writes only entries of older
versions (`BackfillHolds`) and that each entry logged so far is written once (`WritesOnce`). `LinkInv`
says that the committed chain together with the rows of an open transaction is linked and that the
number after what the transaction read is in it or free (`CallLinked`), that what was read as the
latest is still there, and how far the chain has grown since (`Overtaken`, which is why giving up
means contention). The lemmas behind it are about chains: a linked one has no gap, a free number after
an entry is the number after the last, one more entry or a batch continues it, and of two open
transactions at most one holds numbers.

`VerdictWasTrue` rests on them. `Judged` says what a verification between two pages may rely on: if the
chain has been sound at every moment, the head it remembers is still in the chain, and if it never was,
an entry changed before the first read lies beyond the pages read. For the first half a backfill that
moves rows is the hard step (`CommitBackfillKeepsHead`): each legacy entry is in the chain once
(`LegacyOnce`), so in a chain that is sound before and after the commit they come back to the numbers
they had, and equal entries have equal hashes (`SameIdsSameHashes`). For the second, `PageIs` shows that
a page skips nothing and that a short page is the last. The attempt to prove the property without an
exception is what showed that it fails with three backfills.

## 6. What is only model-checked

- Liveness (`EveryEventSettles`, `AcceptedIsSettled`, `SyncReturns`): fairness and `ENABLED` are
  outside the prover's fragment.
- The laws of `SchemaLaws` are decided by evaluating them; they are not derived.
- The pure modules: that a repeated webhook changes nothing and that the lines of a new subscription
  find their items, for lists of up to three; `Amounts` and `FairOrder`, for small numbers and lists.
  They count or add up over lists, and the inductions this takes have not been carried out.

## 7. Disagreements with the documentation

The models show the following differences from what the documents say, or were built around them.
They have no run of their own: the property that would state them is weakened by a named exception
(given in brackets), or the model simply follows the code.

*Idempotency and outbox*

- `features/14-idempotency.md:146-147` lets a failed record be taken over "only when the retry policy
  permits a retry". The policy is tested on a record read earlier (`idempotency-service.ts:158`); the
  conditional UPDATE matches any failed row without a live lock
  (`knex-idempotency.repository.ts:48`), also a newer failure of another call.
- `features/14-idempotency.md:151-154` names a stale takeover under `reconciliation-required`;
  `resolvePolicy` turns it off under that policy.
- `features/15-reliability.md:65` has the lock token guard against double delivery. The token is
  tested after the delivery (`outbox-service.ts:67`): it keeps a slow worker from marking the row,
  and both workers deliver it.
- `features/15-reliability.md:69-71` retries until `maxAttempts`. `markFailed` treats a retry time
  that is not in the future as none (`knex-outbox-event.repository.ts:168`) and `nextRetry` rounds
  its delay down, so a `backoffMs` of 1 can dead-letter a row after its first attempt. `Delays`
  models the rounding; the instances use a backoff of 2, for which no delay is zero.

*Webhook inbox*

- `CHANGELOG.md:295` (in the root) says the claim's TTL keeps a crashed worker from stranding events.
  BullMQ repeats the stalled job while the claim is still live, the repeated run gets no token,
  returns and completes the job, and a redelivery of an event in `processing` is acknowledged without
  a dispatch: only an operator's replay recovers it [`ClaimStranded` in `AcceptedIsSettled`].
- The same happens without a crash. `process-webhook.action.ts:33` awaits `claim()` outside the `try`; if
  its UPDATE commits and the answer is lost, the job is retried, gets no token against the live claim and
  completes, and the event stays in `processing` [`ClaimStranded`].
- If `findById` (`:21`) or `claim()` (`:33`) throws at each of the job's attempts, the job is
  dead-lettered and the acknowledged event stays `pending`; nothing marks it failed [`NeverClaimed` in
  `AcceptedIsSettled`].

*Payments, refunds, checkout*

- `features/13-webhooks.md:251-254` says stale provider events cannot move a final payment back. The
  event's transaction reads without a lock and updates unconditionally
  (`reconcile-webhook-payment.ts:39`): on a store with concurrent transactions the event of an earlier
  failure, read before a capture commits, overwrites `succeeded` with `failed` [`MovesAlongTable` is
  about stores that run one transaction at a time].
- `features/17-payment-authorization.md` says the same capture request can safely recover after a
  transient failure. If the provider's success event is processed between the capture and the
  compare-and-swap, the swap fails and the repeated request is refused, since the payment is no longer
  authorized; the status is right, the captured amount stays zero [`RowFollowsProvider`
  allows zero].
- `features/11-charges-refunds.md:157-160` describes a recomputation of the payment when the refund
  settles; the code writes the payment when it reserves.
- A declined transaction's callback rebinds the row of a Trust My Travel checkout from the booking to
  that transaction. A later successful transaction of the same session then finds no row, and the
  collected payment stays `failed` (`reconcile-redirect-payment.action.ts:50-66,94-102`); repeating
  the checkout after the rebinding replays the session and opens a second pending row. On a store that
  locks nothing two callbacks can overwrite each other.
- Stripe sends `charge.succeeded` (`captured: false`) also for a charge that is only authorized, and the
  adapter does not look at `captured`: it reports `succeeded`
  (`stripe-payment-webhook-reconciliation.ts:14-17,39-46,83`). The row then says the payment was
  collected although nothing was; `capture()` and `void()` refuse it from then on, and one that is under
  way finds the row changed and is not recorded [the exception `UncapturedCounted` of
  `RowFollowsProvider`].
- `trust-my-travel`'s `recurringStatus` reads `complete` as succeeded also for authorize and void
  transactions, unlike its payment status; the captures of Stripe and Revolut report the requested
  amount.

*Subscriptions*

- A price migration whose answer was lost is resolved as *not applied*, retried, and its answer lost
  again. The row then requires reconciliation with the outcome of the first resolution still in it;
  `resolve()` refuses a row that carries another outcome
  (`subscription-price-migration-reconciliation.ts:73-81`, here `Resolvable`), and no transition clears
  that column. No resolution can settle the migration, and it keeps the claim of its subscription. The
  documents let a failed migration be retried (`domain/35-subscription-price-migrations.md:171-173`)
  and a row that requires reconciliation be resolved (`features/10-subscriptions.md:283`). The model
  reaches this state in seven steps.
- A cancelation at period end that is undone at the provider leaves the local `endsAt`
  (`reconcile-webhook-subscription.ts` writes it only for a canceled status). An event to whose status
  no path leads writes the items without advancing `providerSyncedAt`, so an older event can write
  them again.
- A Revolut webhook takes the status from the event and the items from a later retrieve. Paddle's
  `resumeSubscription` also answers a pending cancelation, for which it declares no capability.

*Customer synchronization*

- `features/08-customers-billable.md:231-233` has concurrent callers reuse the lease owner's binding
  instead of creating a second remote customer. Without native idempotency a call that read the
  binding before its claim, and finds the previous status failed, does not read it again
  (`sync-customer-with-provider.action.ts:68-90`) and can create a second customer
  [`OneRemoteCustomer` holds while no update has failed].
- After a commit that was applied but whose answer was lost, the bound customer is reported as
  orphaned (`customer-provider-sync-lifecycle.ts:126-195`). A native provider that forgot its key can
  make a recorded id disappear [`KnownIsAccounted` is about providers without native idempotency].
- A call that loses the insert of its binding looks up who won (`customer-provider-binding-writer.ts:16`).
  If the lookup throws, its error is not the conflict that
  `customer-provider-sync-lifecycle.ts:141-149` reports as an orphan: the second customer's id is in the
  row only, and the next update of the bound customer overwrites it [`unlooked` in `KnownIsAccounted`].

*Catalog*

- `examples/45-catalog-lifecycle.md:50-51` says a provider without native idempotency requires a
  reconciliation before an ambiguous request is repeated. A request or `ensure()` that read the row
  before it became *required* resets it under the same key, as do two overlapping retries [the
  exception `overtaken`]; `ensure()` resets a required product of an older version; a failed
  re-creation of a missing resource and an ambiguous update may be retried.
- A reconciliation overwrites requested and processing rows, its compare-and-swap being on the key
  only. A process that dies leaves its row `processing`. The wait for a parent ends at half the
  lease. A recovery commits an id made with older content under the newer version. A superseded run
  whose orphan report throws returns silently, and the id is lost [`lost` in `EvidenceKept`].
- Overlapping direct mutations that are answered in one order and persisted in the other leave the
  local row behind the provider; no document promises otherwise, and `CatalogPersistence` claims only
  that the record is true to the row.

*Audit log*

- `features/15-reliability.md:171` calls the sequence monotonic and contiguous per tenant. Of two
  overlapping `backfillChain` calls the second can number rows again that the first has numbered,
  which breaks the chain [the exception `renumbered`]. A third that computed its rows before can put
  them back; a verification that reads around it may call a chain sound that never was.
- `features/15-reliability.md:167-169` says a losing writer retries. With Prisma inside an outer
  transaction there is no savepoint: on PostgreSQL the retry runs in an aborted transaction, on MySQL it
  reads the same snapshot until it gives up. A unique violation in a backfill is not retried.
- `verifyChain` cannot see that the last entries were deleted.

*Schema migrations*

- `persistence/21-storage-knex.md:360` calls migrate idempotent and safe to run again, and `:383` has
  fresh creation, upgrade and replay converge on the same unique constraints. A process that dies
  between CREATE TABLE and the statements of its keys leaves a table that the next call skips
  (`create-if-missing.ts:8`) and records. The keys that a later step ensures by name are made then
  (those of customers, products, prices, subscriptions and their bindings); those of idempotency
  keys, webhook events, mutation claims, catalog synchronizations, payments by provider id and refunds
  are not, ever [`torn` in `RecordedStepsHold`]. On SQLite, where nothing keeps two calls apart, an
  error that `createIfMissing` swallows has the same effect. An upgraded database also lacks foreign
  keys that a new one has (refunds, subscription items).
- `dropLegacyIndex` of step 009 (`catalog-tenant-keys.ts`) drops by DROP INDEX what an earlier release
  made as a UNIQUE constraint; PostgreSQL refuses that, so there the upgrade of such a database stops
  at 009 on every call. Step 015 tells the two apart (`uniqueConstraintExists`).
- The report of step 020 is written again with zero counts when a process dies between it and the
  ledger entry.

## 8. What is not modelled

Left out of modelled components:

- Schema migrations: columns that no step looks for, the application writing while a step copies rows,
  other starts than an empty database and the earlier release of the upgrade tests, MariaDB (as MySQL).
- Idempotency: storage keys of migrated deployments, expiry sweeps, response payloads and hashing.
- Webhooks: signatures, secrets, encryption, URL checks, the contents of events. An inbox event's
  reconciliation is one effect; what it does to a payment or subscription is in their modules.
- Payments: listeners of domain events, allocations of a capture, refunds (a module of their own,
  starting from a succeeded row). Checkouts of subscriptions and line items; capture and void of a
  checkout payment, which is never authorized; the second row after a rebinding. The audit and outbox
  rows that commit with a payment or refund. The lock of capture and void: it has the identity of the
  idempotency claim and is taken inside it, so it never contends.
- Subscriptions: creation, attaching a provider subscription and change previews, dates, scheduled
  changes and payment collection as data, items beyond the first in the state machine (the pairing of
  several is `SubscriptionItems`), the observation of a direct claim by a provider read, bulk
  preparation of migrations. The operator is assumed to resolve truthfully and after the call has
  ended, as `domain/35-subscription-price-migrations.md:219-221` demands.
- Customer synchronization: the customer's fields, the host's manual reconciliation, and the
  idempotency service around the creation. What is modelled is the deployment without that service.
  Where it refuses to run, replays or fails to record, the call ends as one whose creation was refused or
  uncertain, one whose process died, or one whose completion threw, all of which the model has.
- Catalog: contents, tenants and authorization, transfer of lookup keys, stores of the host without
  `updateIfUnchanged`, BullMQ's deduplication of catalog jobs (any dispatched job may run any number
  of times).
- Audit log: `list()`, the fields of an entry, the row lock some stores take on the latest entry,
  which only removes interleavings.
- Money: the bound of the safe integers, formatting.

Components that are not modelled at all, and why:

- **Provider adapters** beyond `PaymentReports` (Stripe, Revolut, Trust My Travel, Paddle, SISP):
  some 12,700 lines that build requests and translate answers for services that are not in the
  repository. What the core must cope with, every outcome `src/application` distinguishes, is the
  nondeterminism of the models above.
- **Storage drivers** beyond the migrations of Knex, some 9,000 lines: row mapping and SQL. The
  conditional writes that carry a protocol are modelled where they are used (and mapped to the
  repositories); transactions, unique indexes and row locks are what the database provides.
- **Presentation** (Express, Fastify, Nest, MCP), some 6,000 lines: routing, validation and formatting
  without state.
- **Contracts, DTOs, builders, registries and the facade**, some 9,000 lines: types, construction and
  delegation.
- **Invoices**: reads and single-row writes. A transition reads the invoice and then updates its
  status unconditionally (`canonical-invoice-resource.ts`), so that a void and a payment of one open
  invoice may overwrite each other; no document says more.
- **Locks** (see above), **cache** (nothing depends on its freshness), **event bus** (listeners called
  in turn, no state), **encryption and hashing** (functions of bytes).

These make up most of the lines that the map does not cover.

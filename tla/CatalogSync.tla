----------------------------- MODULE CatalogSync -----------------------------
(***************************************************************************)
(* Synchronization of a canonical product and of a price of it with one    *)
(* provider account.  CatalogSyncRequester, CatalogSyncRetrier and the     *)
(* reconcilers write the generation of a resource that is wanted at the    *)
(* provider, one row of payable_catalog_synchronizations per resource;     *)
(* ProcessCatalogSyncAction claims a generation for 30 seconds, calls the  *)
(* provider and binds what the provider made.  A price first sees to its   *)
(* product, inside its own run.                                            *)
(*                                                                         *)
(* A generation is an operation and the canonical version it carries; its  *)
(* idempotency key is derived from both.  "update" also stands for archive *)
(* and reactivate.  Of reconciliationState only what the code asks for is  *)
(* kept: "required", "missing" (missing_remote), and "clear" for pending,  *)
(* in_sync, stale_local and unsupported.  What the provider makes is       *)
(* numbered; 0 is a provider id that is null.  The queue hands a job out   *)
(* at least once: a dispatched job may run again at any time.              *)
(***************************************************************************)
EXTENDS Integers, Sequences

CONSTANTS
    Worker,         \* processes that run catalog synchronization jobs
    Caller,         \* calls to request, retry and reconcile
    Nobody,         \* attemptOwnerId null
    Providers,      \* capabilities: [native, reads, supports]
    LeaseTtl,       \* CATALOG_SYNC_LEASE_MS, in units of the countdown
    MaxRuns,        \* bound: times that a worker takes a job
    MaxAsks,        \* bound: calls of the callers
    MaxChanges,     \* bound: edits of the catalog, removals at the provider
    MaxFaults       \* bound: answers lost, storage calls that throw, deaths

Resource == {"product", "price"}
Operation == {"create", "update"}

ASSUME CatalogSyncAssumption ==
    /\ Nobody \notin Worker
    /\ \A p \in Providers : p.native \in BOOLEAN /\ p.reads \in BOOLEAN
                            /\ p.supports \in [Resource -> SUBSET Operation]
    /\ LeaseTtl \in Nat \ {0}
    /\ {MaxRuns, MaxAsks, MaxChanges, MaxFaults} \subseteq Nat

VARIABLES
    provider,   \* the provider account; fixed
    version,    \* updatedAt of the canonical product and price
    row,        \* the synchronization row of each resource
    binding,    \* the provider id each resource is bound to
    made,       \* what the provider has made: [res, key]
    removed,    \* what was removed at the provider
    dispatched, \* the generations that a job was dispatched for
    work,       \* the frames of each worker: a product run, a price run
    ask,        \* where each caller is and what it has read
    learned,    \* provider ids that a worker got as an answer
    bound,      \* provider ids that have been bound
    orphaned,   \* provider ids in catalog.synchronization.orphaned.v1
    lost,       \* provider ids whose report threw or whose worker died
    overtaken,  \* a generation in doubt was asked for again by a late write
    runs, asks, changes, faults

atProvider == <<made, removed>>
evidence == <<learned, bound, orphaned, lost>>
callers == <<ask, overtaken>>
bounded == <<runs, asks, changes, faults>>
vars == <<provider, version, row, binding, atProvider, dispatched, work,
          callers, evidence, bounded>>

\* status: absent, requested, processing, succeeded, skipped, failed, retrying
\* or reconciled.
NoRow == [status |-> "absent", state |-> "clear", op |-> "none", version |-> 0,
          remote |-> 0, owner |-> Nobody, lease |-> 0]
\* A frame holds the payload, the claimed providerResourceId and the answer.
Resting == [pc |-> "idle", op |-> "none", version |-> 0, remote |-> 0,
            answer |-> 0, waited |-> 0]
Idle == [r \in Resource |-> Resting]
Silent == [pc |-> "idle", res |-> "product", op |-> "none", version |-> 0,
           remote |-> 0]

\* Nothing has been synchronized, or the product, or the price as well: states
\* that the first runs lead to.
First == [product |-> 1, price |-> 2]
Synchronized(r) == [NoRow EXCEPT !.status = "succeeded", !.op = "create",
                        !.version = 1, !.remote = First[r]]

Init ==
    /\ provider \in Providers
    /\ version = [r \in Resource |-> 1]
    /\ \E done \in {{}, {"product"}, Resource} :
        /\ \A r \in done : "create" \in provider.supports[r]
        /\ row = [r \in Resource |-> IF r \in done THEN Synchronized(r) ELSE NoRow]
        /\ made = [x \in {First[r] : r \in done} |->
                      [res |-> CHOOSE r \in done : First[r] = x, key |-> <<"create", 1>>]]
        /\ dispatched = [r \in Resource |-> IF r \in done THEN {<<"create", 1>>} ELSE {}]
    /\ binding = [r \in Resource |-> row[r].remote]
    /\ learned = DOMAIN made /\ bound = DOMAIN made
    /\ removed = {} /\ orphaned = {} /\ lost = {}
    /\ work = [w \in Worker |-> Idle]
    /\ ask = [c \in Caller |-> Silent]
    /\ overtaken = FALSE
    /\ runs = 0 /\ asks = 0 /\ changes = 0 /\ faults = 0

Generation(x) == <<x.op, x.version>>

At(w, r, label) == work[w][r].pc = label
Goto(w, r, label) == work' = [work EXCEPT ![w][r].pc = label]

\* handle() returns or throws.  A product's handle() that a price runs goes
\* back to the price: into the wait for the binding, or into its catch.
Inner(w, r) == r = "product" /\ work[w]["price"].pc = "ensuring"
Back(w, r, label) ==
    work' = [work EXCEPT ![w] =
        IF Inner(w, r)
        THEN [Idle EXCEPT !["price"] = [work[w]["price"] EXCEPT !.pc = label]]
        ELSE Idle]
Returns(w, r) == Back(w, r, "awaiting")
Throws(w, r) == Back(w, r, "failing")

Fault ==
    /\ faults < MaxFaults
    /\ faults' = faults + 1
    /\ UNCHANGED <<runs, asks, changes>>

\* A storage that has thrown may go on throwing: only its first fault counts.
Outage == Fault \/ (faults > 0 /\ UNCHANGED bounded)

-----------------------------------------------------------------------------
\* The repository: claims and compare-and-swap writes

\* compareAndSet with an owner id: the generation, and the claim on it.
Holds(w, r) ==
    /\ row[r].status = "processing"
    /\ row[r].owner = w
    /\ Generation(row[r]) = Generation(work[w][r])

\* A worker's write of a row it holds gives the claim up.
Written(r, status, state, remote) ==
    row' = [row EXCEPT ![r].status = status, ![r].state = state,
                ![r].remote = remote, ![r].owner = Nobody, ![r].lease = 0]

\* The state of a generation whose fate at the provider is in doubt.
InDoubt == IF provider.native THEN "clear" ELSE "required"

\* requestGeneration: an older version, or a generation that is under way,
\* leaves the row as it is.
Requested(r, op, v, remote) ==
    IF row[r].status # "absent"
       /\ \/ v < row[r].version
          \/ /\ Generation(row[r]) = <<op, v>>
             /\ row[r].status \in {"requested", "processing", "retrying", "succeeded"}
    THEN row[r]
    ELSE [NoRow EXCEPT !.status = "requested", !.op = op, !.version = v,
             !.remote = remote]

\* A write whose guard was tested on an earlier read asks for a generation
\* again that has come to require reconciliation.
Overtakes(r, g) ==
    overtaken' = (overtaken \/ (row[r].state = "required" /\ Generation(row[r]) = g))

-----------------------------------------------------------------------------
\* ProcessCatalogSyncAction

\* A job is handed out, for the first time or again.
Take(w, r) ==
    /\ work[w] = Idle
    /\ runs < MaxRuns
    /\ runs' = runs + 1
    /\ \E g \in dispatched[r] :
           work' = [work EXCEPT ![w][r].pc = "begun", ![w][r].op = g[1],
                        ![w][r].version = g[2]]
    /\ UNCHANGED <<provider, version, row, binding, atProvider, dispatched,
                   callers, evidence, asks, changes, faults>>

\* The reads of the row and of the canonical resource, and their guards.
Check(w, r) ==
    LET wanted ==
            /\ row[r].status \notin {"absent", "succeeded"}
            /\ Generation(row[r]) = Generation(work[w][r])
            /\ version[r] = work[w][r].version
    IN  /\ At(w, r, "begun")
        /\ IF ~wanted THEN Returns(w, r)
           ELSE IF row[r].state = "required" THEN Throws(w, r)
           ELSE Goto(w, r, "claiming")
        /\ UNCHANGED <<provider, version, row, binding, atProvider, dispatched,
                       callers, evidence, bounded>>

MutClaimableAfterFailure(w, r) ==
    /\ Generation(row[r]) = Generation(work[w][r])
    /\ \/ row[r].status \in {"requested", "retrying", "failed"}
       \/ provider.native /\ row[r].status = "processing" /\ row[r].lease = 0
\* allowFailedRetry is what the provider's native idempotency allows.
Claimable(w, r) ==
    /\ Generation(row[r]) = Generation(work[w][r])
    /\ \/ row[r].status \in {"requested", "retrying"}
       \/ provider.native /\ row[r].status = "failed"
       \/ provider.native /\ row[r].status = "processing" /\ row[r].lease = 0

\* claimGeneration, and the test of the operation that follows it.
Claim(w, r) ==
    /\ At(w, r, "claiming")
    /\ Claimable(w, r)
    /\ row' = [row EXCEPT ![r].status = "processing", ![r].owner = w,
                   ![r].lease = LeaseTtl]
    /\ work' = [work EXCEPT ![w][r].remote = row[r].remote,
                    ![w][r].pc =
                        IF work[w][r].op \notin provider.supports[r]
                        THEN "skipping"
                        ELSE IF r = "price" THEN "parent" ELSE "recovering"]
    /\ UNCHANGED <<provider, version, binding, atProvider, dispatched, callers,
                   evidence, bounded>>

\* The claim that finds nothing, and a provider without native idempotency
\* for which an expired claim turns into a failure.
ClaimsNothing(w, r) ==
    /\ At(w, r, "claiming")
    /\ ~Claimable(w, r)
    /\ IF /\ ~provider.native /\ row[r].status = "processing" /\ row[r].lease = 0
          /\ Generation(row[r]) = Generation(work[w][r])
       THEN Written(r, "failed", "required", row[r].remote)
       ELSE UNCHANGED row
    /\ Returns(w, r)
    /\ UNCHANGED <<provider, version, binding, atProvider, dispatched, callers,
                   evidence, bounded>>

\* CATALOG_SYNC_OPERATION_UNSUPPORTED, CATALOG_SYNC_PARENT_UNAVAILABLE.
Skip(w, r) ==
    /\ At(w, r, "skipping") \/ At(w, r, "unavailable")
    /\ IF Holds(w, r) THEN Written(r, "skipped", "clear", row[r].remote)
       ELSE UNCHANGED row
    /\ Returns(w, r)
    /\ UNCHANGED <<provider, version, binding, atProvider, dispatched, callers,
                   evidence, bounded>>

\* The write throws: only the missing parent is inside the price's try.
SkipThrows(w, r) ==
    /\ \/ At(w, r, "skipping") /\ Throws(w, r)
       \/ At(w, r, "unavailable") /\ Goto(w, r, "failing")
    /\ Fault
    /\ UNCHANGED <<provider, version, row, binding, atProvider, dispatched,
                   callers, evidence>>

-----------------------------------------------------------------------------
\* CatalogProductDependency.ensure

\* The reads: a binding is enough; otherwise a create of the product's
\* current version is run, after it was requested unless the row has its key.
Ensure(w) ==
    /\ At(w, "price", "parent")
    /\ IF binding["product"] # 0
       THEN Goto(w, "price", "recovering")
       ELSE work' = [work EXCEPT ![w] =
                [product |-> [Resting EXCEPT !.op = "create",
                     !.version = version["product"],
                     !.pc = IF Generation(row["product"]) = <<"create", version["product"]>>
                            THEN "begun" ELSE "requesting"],
                 price   |-> [@["price"] EXCEPT !.pc = "ensuring"]]]
    /\ UNCHANGED <<provider, version, row, binding, atProvider, dispatched,
                   callers, evidence, bounded>>

\* requestGeneration with no provider id, whatever the row required.
EnsureRequest(w) ==
    /\ At(w, "product", "requesting")
    /\ row' = [row EXCEPT !["product"] =
                   Requested("product", "create", work[w]["product"].version, 0)]
    /\ Overtakes("product", Generation(work[w]["product"]))
    /\ Goto(w, "product", "begun")
    /\ UNCHANGED <<provider, version, binding, atProvider, dispatched, ask,
                   evidence, bounded>>

\* The transaction throws in the price's try.
EnsureThrows(w) ==
    /\ At(w, "product", "requesting")
    /\ Throws(w, "product")
    /\ Fault
    /\ UNCHANGED <<provider, version, row, binding, atProvider, dispatched,
                   callers, evidence>>

\* The wait: the read of the binding.
AwaitBinding(w) ==
    /\ At(w, "price", "awaiting")
    /\ Goto(w, "price", IF binding["product"] # 0 THEN "recovering" ELSE "looking")
    /\ UNCHANGED <<provider, version, row, binding, atProvider, dispatched,
                   callers, evidence, bounded>>

\* The wait: the read of the row, which gives up when nobody is processing the
\* product or the wait has lasted as long as the claim still runs.
AwaitRow(w) ==
    /\ At(w, "price", "looking")
    /\ Goto(w, "price",
            IF /\ row["product"].status = "processing"
               /\ work[w]["price"].waited < row["product"].lease
            THEN "awaiting" ELSE "unavailable")
    /\ UNCHANGED <<provider, version, row, binding, atProvider, dispatched,
                   callers, evidence, bounded>>

-----------------------------------------------------------------------------
\* The provider call and what becomes of its answer

\* recoverProduct and recoverPrice: a provider id that is known and not bound
\* is committed without a call.
Recover(w, r) ==
    /\ At(w, r, "recovering")
    /\ work' = IF work[w][r].remote # 0 /\ binding[r] = 0
               THEN [work EXCEPT ![w][r].pc = "recommitting",
                         ![w][r].answer = work[w][r].remote]
               ELSE [work EXCEPT ![w][r].pc = "calling"]
    /\ UNCHANGED <<provider, version, row, binding, atProvider, dispatched,
                   callers, evidence, bounded>>

\* The answer that the provider keeps under an idempotency key.
KeptUnder(r, g) ==
    IF provider.native
    THEN {x \in DOMAIN made : made[x] = [res |-> r, key |-> g]}
    ELSE {}

\* createProduct and createPrice at the provider.
Made(w, r) == Append(made, [res |-> r, key |-> Generation(work[w][r])])
Answered(w, r, x) ==
    /\ work' = [work EXCEPT ![w][r].pc = "committing", ![w][r].answer = x]
    /\ learned' = learned \cup {x}
    /\ UNCHANGED <<bound, orphaned, lost>>

Create(w, r) ==
    /\ At(w, r, "calling") /\ work[w][r].op = "create"
    /\ LET kept == KeptUnder(r, Generation(work[w][r]))
       IN  IF kept = {}
           THEN made' = Made(w, r) /\ Answered(w, r, Len(made) + 1)
           ELSE made' = made /\ \E x \in kept : Answered(w, r, x)
    /\ UNCHANGED <<provider, version, row, binding, removed, dispatched, callers,
                   bounded>>

\* The create is refused, or done and its answer lost.
CreateThrows(w, r) ==
    /\ At(w, r, "calling") /\ work[w][r].op = "create"
    /\ made' \in {made} \cup
           (IF KeptUnder(r, Generation(work[w][r])) = {} THEN {Made(w, r)} ELSE {})
    /\ Goto(w, r, "failing")
    /\ Fault
    /\ UNCHANGED <<provider, version, row, binding, removed, dispatched, callers,
                   evidence>>

\* updateProduct, updatePrice, setProductActive, setPriceActive.
Update(w, r) ==
    /\ At(w, r, "calling") /\ work[w][r].op = "update"
    /\ IF work[w][r].remote \in removed
       THEN Goto(w, r, "failing") /\ UNCHANGED evidence
       ELSE Answered(w, r, work[w][r].remote)
    /\ UNCHANGED <<provider, version, row, binding, atProvider, dispatched,
                   callers, bounded>>

UpdateThrows(w, r) ==
    /\ At(w, r, "calling") /\ work[w][r].op = "update"
    /\ Goto(w, r, "failing")
    /\ Fault
    /\ UNCHANGED <<provider, version, row, binding, atProvider, dispatched,
                   callers, evidence>>

\* succeed() and the binding, in one transaction.
Committed(w, r) ==
    /\ Written(r, "succeeded", "clear", work[w][r].answer)
    /\ binding' = [binding EXCEPT ![r] = work[w][r].answer]
    /\ bound' = bound \cup {work[w][r].answer}
NothingCommitted == UNCHANGED <<row, binding, bound>>

\* A recovery that throws: the price catches it, the product does not.
RecoveryFails(w, r) ==
    IF r = "price" THEN Goto(w, r, "failing") ELSE Throws(w, r)

MutCommitKeepsBinding(w, r) ==
    /\ At(w, r, "committing") \/ At(w, r, "recommitting")
    /\ IF Holds(w, r)
       THEN /\ Written(r, "succeeded", "clear", work[w][r].answer)
            /\ binding' = [binding EXCEPT ![r] = IF @ = 0 THEN work[w][r].answer ELSE @]
            /\ bound' = bound \cup {work[w][r].answer}
            /\ Returns(w, r)
       ELSE /\ NothingCommitted
            /\ IF At(w, r, "committing") THEN Goto(w, r, "superseded")
               ELSE RecoveryFails(w, r)
    /\ UNCHANGED <<provider, version, atProvider, dispatched, callers, learned,
                   orphaned, lost, bounded>>
\* CATALOG_SYNC_STALE_GENERATION when the claim is not held any more.
Commit(w, r) ==
    /\ At(w, r, "committing") \/ At(w, r, "recommitting")
    /\ IF Holds(w, r)
       THEN Committed(w, r) /\ Returns(w, r)
       ELSE /\ NothingCommitted
            /\ IF At(w, r, "committing") THEN Goto(w, r, "superseded")
               ELSE RecoveryFails(w, r)
    /\ UNCHANGED <<provider, version, atProvider, dispatched, callers, learned,
                   orphaned, lost, bounded>>

\* The transaction throws, or commits and its acknowledgement is lost.
CommitThrows(w, r) ==
    /\ At(w, r, "committing") \/ At(w, r, "recommitting")
    /\ NothingCommitted \/ (Holds(w, r) /\ Committed(w, r))
    /\ IF At(w, r, "committing") THEN Goto(w, r, "remembering")
       ELSE RecoveryFails(w, r)
    /\ Fault
    /\ UNCHANGED <<provider, version, atProvider, dispatched, callers, learned,
                   orphaned, lost>>

\* rememberRemote.
Remember(w, r) ==
    /\ At(w, r, "remembering")
    /\ IF Holds(w, r) THEN Written(r, "failed", InDoubt, work[w][r].answer)
       ELSE UNCHANGED row
    /\ Goto(w, r, "reporting")
    /\ UNCHANGED <<provider, version, binding, atProvider, dispatched, callers,
                   evidence, bounded>>

RememberThrows(w, r) ==
    /\ At(w, r, "remembering")
    /\ Goto(w, r, "reporting")
    /\ Outage
    /\ UNCHANGED <<provider, version, row, binding, atProvider, dispatched,
                   callers, evidence>>

\* After recordOrphan a superseded generation returns; a commit that threw is
\* a failure of the job.
AfterReport(w, r) ==
    \/ At(w, r, "superseded") /\ Returns(w, r)
    \/ At(w, r, "reporting") /\ Goto(w, r, "failing")

MutReportOnlyFailures(w, r) ==
    /\ AfterReport(w, r)
    /\ orphaned' = IF At(w, r, "superseded") THEN orphaned
                   ELSE orphaned \cup {work[w][r].answer}
    /\ UNCHANGED <<provider, version, row, binding, atProvider, dispatched,
                   callers, learned, bound, lost, bounded>>
\* recordOrphan.
Report(w, r) ==
    /\ AfterReport(w, r)
    /\ orphaned' = orphaned \cup {work[w][r].answer}
    /\ UNCHANGED <<provider, version, row, binding, atProvider, dispatched,
                   callers, learned, bound, lost, bounded>>

\* Its failure is swallowed; the error still carries the id of a commit that
\* threw, and nothing carries that of a superseded generation.
ReportThrows(w, r) ==
    /\ AfterReport(w, r)
    /\ lost' = lost \cup {work[w][r].answer}
    /\ Outage
    /\ UNCHANGED <<provider, version, row, binding, atProvider, dispatched,
                   callers, learned, bound, orphaned>>

\* fail(): the catch of the run.
Fail(w, r) ==
    /\ At(w, r, "failing")
    /\ IF Holds(w, r) THEN Written(r, "failed", InDoubt, row[r].remote)
       ELSE UNCHANGED row
    /\ Throws(w, r)
    /\ UNCHANGED <<provider, version, binding, atProvider, dispatched, callers,
                   evidence, bounded>>

\* Its failure is swallowed as well, and the row stays in processing.
FailThrows(w, r) ==
    /\ At(w, r, "failing")
    /\ Throws(w, r)
    /\ Outage
    /\ UNCHANGED <<provider, version, row, binding, atProvider, dispatched,
                   callers, evidence>>

InHand(w) == {work[w][r].answer : r \in Resource} \ {0}

\* The worker's process dies.
Crash(w) ==
    /\ work[w] # Idle
    /\ Fault
    /\ work' = [work EXCEPT ![w] = Idle]
    /\ lost' = lost \cup InHand(w)
    /\ UNCHANGED <<provider, version, row, binding, atProvider, dispatched,
                   callers, learned, bound, orphaned>>

-----------------------------------------------------------------------------
\* CatalogSyncRequester, CatalogSyncRetrier, CatalogReconciler

\* A call reads and takes what it read to its write.
Asked(c, label, r, op, v, remote) ==
    /\ ask[c] = Silent
    /\ asks < MaxAsks
    /\ asks' = asks + 1
    /\ ask' = [ask EXCEPT ![c] = [pc |-> label, res |-> r, op |-> op,
                                  version |-> v, remote |-> remote]]
    /\ UNCHANGED <<provider, version, row, binding, atProvider, dispatched, work,
                   evidence, overtaken, runs, changes, faults>>

\* productOperation and priceOperation.
OperationFor(r) ==
    IF binding[r] = 0 \/ row[r].state = "missing" THEN "create" ELSE "update"

\* The reads of a request, which throws when reconciliation is required and
\* returns a generation that is being processed or done.
ReadToRequest(c, r) ==
    /\ row[r].state # "required"
    /\ ~ /\ Generation(row[r]) = <<OperationFor(r), version[r]>>
         /\ row[r].status \in {"processing", "succeeded"}
    /\ Asked(c, "requesting", r, OperationFor(r), version[r],
             IF binding[r] # 0 THEN binding[r] ELSE row[r].remote)

\* The job of the generation is dispatched; the dispatch may throw.
Dispatched(r, g) ==
    \/ /\ dispatched' = [dispatched EXCEPT ![r] = @ \cup {g}]
       /\ UNCHANGED bounded
    \/ UNCHANGED dispatched /\ Fault

\* The transaction of a request, which does not read the guards again.
Request(c) ==
    LET a == ask[c] IN
    /\ a.pc = "requesting"
    /\ row' = [row EXCEPT ![a.res] = Requested(a.res, a.op, a.version, a.remote)]
    /\ Dispatched(a.res, Generation(a))
    /\ Overtakes(a.res, Generation(a))
    /\ ask' = [ask EXCEPT ![c] = Silent]
    /\ UNCHANGED <<provider, version, binding, atProvider, work, evidence>>

\* The read of a retry.
ReadToRetry(c, r) ==
    /\ row[r].status \notin {"absent", "processing", "retrying"}
    /\ ~ (row[r].state = "required" /\ row[r].remote = 0)
    /\ Asked(c, "retrying", r, row[r].op, row[r].version, 0)

\* Its write takes any failed or skipped row of the generation.
Retry(c) ==
    LET a == ask[c] IN
    /\ a.pc = "retrying"
    /\ IF /\ Generation(row[a.res]) = Generation(a)
          /\ row[a.res].status \in {"failed", "skipped"}
       THEN /\ row' = [row EXCEPT ![a.res].status = "retrying",
                           ![a.res].state = "clear"]
            /\ Dispatched(a.res, Generation(a))
            /\ overtaken' = (overtaken \/ (row[a.res].state = "required" /\ row[a.res].remote = 0))
       ELSE UNCHANGED <<row, dispatched, overtaken, bounded>>
    /\ ask' = [ask EXCEPT ![c] = Silent]
    /\ UNCHANGED <<provider, version, binding, atProvider, work, evidence>>

\* A retry of a row that is retrying only dispatches.
Redispatch(c, r) ==
    /\ ask[c] = Silent
    /\ row[r].status = "retrying"
    /\ dispatched' = [dispatched EXCEPT ![r] = @ \cup {Generation(row[r])}]
    /\ UNCHANGED <<provider, version, row, binding, atProvider, work, callers,
                   evidence, bounded>>

\* The reads of a reconciliation.
ReadToReconcile(c, r) ==
    /\ binding[r] # 0
    /\ r = "price" => binding["product"] # 0
    /\ row[r].status # "absent"
    /\ Asked(c, "reconciling", r, row[r].op, row[r].version, binding[r])

\* The write of a reconciliation names the generation, not the claim on it.
Reconciled(c, status, state) ==
    LET a == ask[c] IN
    /\ a.pc = "reconciling"
    /\ row' = IF Generation(row[a.res]) = Generation(a)
              THEN [row EXCEPT ![a.res].status = status, ![a.res].state = state]
              ELSE row
    /\ ask' = [ask EXCEPT ![c] = Silent]
    /\ UNCHANGED <<provider, version, binding, atProvider, dispatched, work,
                   evidence, overtaken>>

\* The provider is read, when it can be, and the row written.
Reconcile(c) ==
    /\ IF ~provider.reads THEN Reconciled(c, "skipped", "clear")
       ELSE Reconciled(c, "reconciled",
                       IF ask[c].remote \in removed THEN "missing" ELSE "clear")
    /\ UNCHANGED bounded

ReconcileFails(c) ==
    /\ provider.reads
    /\ Reconciled(c, "failed", "required")
    /\ Fault

Change ==
    /\ changes < MaxChanges
    /\ changes' = changes + 1
    /\ UNCHANGED <<runs, asks, faults>>

\* The caller's own changes of the canonical product or price.
Edit(r) ==
    /\ Change
    /\ version' = [version EXCEPT ![r] = @ + 1]
    /\ UNCHANGED <<provider, row, binding, atProvider, dispatched, work, callers,
                   evidence>>

\* Somebody deletes a resource at the provider.
RemoveRemote(x) ==
    /\ x \notin removed
    /\ Change
    /\ removed' = removed \cup {x}
    /\ UNCHANGED <<provider, version, row, binding, made, dispatched, work,
                   callers, evidence>>

Waiting(w) == At(w, "price", "awaiting") \/ At(w, "price", "looking")

\* Time passes: claims run out and waits grow longer.
Tick ==
    /\ \E r \in Resource : row[r].lease > 0
    /\ row' = [r \in Resource |->
                   [row[r] EXCEPT !.lease = IF @ > 0 THEN @ - 1 ELSE 0]]
    /\ work' = [w \in Worker |->
                    IF Waiting(w) /\ work[w]["price"].waited < LeaseTtl
                    THEN [work[w] EXCEPT !["price"].waited = @ + 1] ELSE work[w]]
    /\ UNCHANGED <<provider, version, binding, atProvider, dispatched, callers,
                   evidence, bounded>>

-----------------------------------------------------------------------------
\* What a run does when nothing goes wrong.
Proceed(w) ==
    \/ Ensure(w) \/ EnsureRequest(w) \/ AwaitBinding(w) \/ AwaitRow(w)
    \/ \E r \in Resource :
           \/ Check(w, r) \/ Claim(w, r) \/ ClaimsNothing(w, r) \/ Skip(w, r)
           \/ Recover(w, r) \/ Create(w, r) \/ Update(w, r) \/ Commit(w, r)
           \/ Remember(w, r) \/ Report(w, r) \/ Fail(w, r)

Disturbed(w) ==
    \/ EnsureThrows(w) \/ Crash(w)
    \/ \E r \in Resource :
           \/ SkipThrows(w, r) \/ CreateThrows(w, r) \/ UpdateThrows(w, r)
           \/ CommitThrows(w, r) \/ RememberThrows(w, r) \/ ReportThrows(w, r)
           \/ FailThrows(w, r)

Asks(c) ==
    \/ \E r \in Resource :
           \/ ReadToRequest(c, r) \/ ReadToRetry(c, r) \/ Redispatch(c, r)
           \/ ReadToReconcile(c, r)
    \/ Request(c) \/ Retry(c) \/ Reconcile(c) \/ ReconcileFails(c)

Next ==
    \/ \E w \in Worker :
           (\E r \in Resource : Take(w, r)) \/ Proceed(w) \/ Disturbed(w)
    \/ \E c \in Caller : Asks(c)
    \/ \E r \in Resource : Edit(r)
    \/ \E x \in DOMAIN made : RemoveRemote(x)
    \/ Tick

Spec == Init /\ [][Next]_vars

-----------------------------------------------------------------------------
\* Properties

\* A provider without native idempotency is asked at most once to create a
\* resource for one generation, as long as the resource is not bound: neither a
\* second delivery, an expired claim, a retry nor a price that ensures its
\* product repeats a create whose answer was lost (CatalogProductSynchronizer,
\* claimGeneration, the guards of requester and retrier).  Excepted is a write
\* that asks for the generation again after it has come to require
\* reconciliation, on the strength of an earlier read.
FirstCreateOnce ==
    \A r \in Resource :
        ~provider.native /\ binding[r] = 0 /\ ~overtaken =>
            \A x, y \in DOMAIN made : made[x] = made[y] /\ made[x].res = r => x = y

\* A row that says succeeded names the provider resource that is bound: the
\* commit writes both, and no superseded run, recovery, request or
\* reconciliation moves one of them alone (CatalogSyncCommitter.product, price).
SucceededIsBound ==
    \A r \in Resource :
        row[r].status = "succeeded" => row[r].remote = binding[r] /\ binding[r] # 0

\* Whatever a run learned that the provider has made was bound or is reported
\* as an orphan, unless the run still has it, its report threw or its process
\* died (the catch of the commit, rememberRemote, recordOrphan).
EvidenceKept ==
    learned \subseteq bound \cup orphaned \cup lost \cup UNION {InHand(w) : w \in Worker}

=============================================================================

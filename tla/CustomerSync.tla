---------------------------- MODULE CustomerSync ----------------------------
(***************************************************************************)
(* Synchronization of one logical customer with one provider account: the  *)
(* calls of SyncCustomerWithProviderAction.handle, the row of              *)
(* payable_customer_provider_sync_states that they claim for 30 seconds at *)
(* a time, the binding to the provider's customer, and the customers that  *)
(* exist at the provider.  Remote customers are numbered as they are       *)
(* created; 0 is a providerCustomerId that is null.  row.lease counts down *)
(* to 0, where leaseExpiresAt <= now.                                      *)
(***************************************************************************)
EXTENDS Integers, FiniteSets

CONSTANTS
    Call,           \* calls of handle()
    Nobody,         \* attemptOwnerId null
    Modes,          \* values of native: customerCreateIdempotency = "native"
    LeaseTtl,       \* CUSTOMER_PROVIDER_SYNC_LEASE_MS, in units of the countdown
    MaxStalls,      \* bound: leases that run out under a running call
    MaxForgotten,   \* bound: idempotency keys that the provider forgets
    MaxFaults,      \* bound: answers lost and storage calls that throw
    MaxCrashes      \* bound: processes that die

ASSUME SyncAssumption ==
    /\ Nobody \notin Call
    /\ Modes \subseteq BOOLEAN
    /\ LeaseTtl \in Nat \ {0}
    /\ MaxStalls \in Nat /\ MaxForgotten \in Nat
    /\ MaxFaults \in Nat /\ MaxCrashes \in Nat

VARIABLES
    native,     \* the provider dedupes creations by their key; fixed
    row,        \* the synchronization state of the customer
    binding,    \* providerCustomerId of the binding, 0 without one
    created,    \* the number of customers created at the provider
    keyed,      \* the customer the provider keeps under the idempotency key
    call,       \* where each call is and what it has read
    known,      \* customers that a call learned of and then ended on its own
    orphaned,   \* customers reported by customer.provider.orphaned
    unlooked,   \* customers that found another one bound, unknown to their call
    refused,    \* an update at the provider has failed
    stalls, forgotten, faults, crashes

bounded == <<stalls, forgotten, faults, crashes>>
remote == <<created, keyed>>
vars == <<native, row, binding, remote, call, known, orphaned, unlooked, refused,
          bounded>>

\* status: absent, pending, synchronized, failed or reconciliation_required.
NoRow == [status |-> "absent", remote |-> 0, attempts |-> 0, owner |-> Nobody,
          lease |-> 0]
Resting == [pc |-> "idle", bound |-> 0, seen |-> NoRow, answer |-> 0,
            conflict |-> FALSE]

Init ==
    /\ native \in Modes
    /\ row = NoRow
    /\ binding = 0
    /\ created = 0
    /\ keyed = 0
    /\ call = [c \in Call |-> Resting]
    /\ known = {}
    /\ orphaned = {}
    /\ unlooked = {}
    /\ refused = FALSE
    /\ stalls = 0 /\ forgotten = 0 /\ faults = 0 /\ crashes = 0

At(c, label) == call[c].pc = label
Goto(c, label) == call' = [call EXCEPT ![c].pc = label]
Ended == [Resting EXCEPT !.pc = "ended"]
\* handle() calls itself.
Again == [Resting EXCEPT !.pc = "again"]

Fault ==
    /\ faults < MaxFaults
    /\ faults' = faults + 1
    /\ UNCHANGED <<stalls, forgotten, crashes>>

-----------------------------------------------------------------------------
\* prepareLocalCustomer and beginAttempt

\* bindingBeforeClaim.
ReadBinding(c) ==
    /\ At(c, "idle") \/ At(c, "again")
    /\ call' = [call EXCEPT ![c].pc = "reading", ![c].bound = binding]
    /\ UNCHANGED <<native, row, binding, remote, known, orphaned, unlooked, refused, bounded>>

\* The read at the head of beginAttempt's loop.
ReadState(c) ==
    /\ At(c, "reading")
    /\ call' = [call EXCEPT ![c].pc = "claiming", ![c].seen = row]
    /\ UNCHANGED <<native, row, binding, remote, known, orphaned, unlooked, refused, bounded>>

\* allowReconciliationRepair is false and the customer's id is unknown.
NeedsManual(c) ==
    /\ call[c].seen.status = "reconciliation_required"
    /\ call[c].seen.remote = 0
    /\ call[c].bound = 0

LeaseActive(c) == call[c].seen.status = "pending" /\ call[c].seen.lease > 0

MutMayReclaimAlways(c) == call[c].seen.status = "pending"
\* canReclaimExpiredLease.
MayReclaim(c) == call[c].bound # 0 \/ native

\* The WHERE clause of both updates.
Unmoved(c) ==
    /\ row.attempts = call[c].seen.attempts
    /\ row.status = call[c].seen.status
    /\ row.owner = call[c].seen.owner

\* What an attempt that holds the claim does first: repair a binding whose
\* customer is known, update a bound customer, or create one.
Course(c, bound) ==
    LET previous == call[c].seen
    IN  IF previous.status = "reconciliation_required" /\ previous.remote # 0
           /\ (bound = 0 \/ bound = previous.remote)
        THEN [call[c] EXCEPT !.bound = bound, !.answer = previous.remote,
                 !.pc = IF bound = 0 THEN "persisting" ELSE "synchronizing"]
        ELSE IF bound # 0
        THEN [call[c] EXCEPT !.bound = bound, !.pc = "updating"]
        ELSE [call[c] EXCEPT !.bound = bound, !.pc = "creating"]

\* The claim: an INSERT that loses to the unique key, or an UPDATE that loses
\* to a row that moved, sends the call back to the read.
TakeClaim(c) ==
    /\ At(c, "claiming")
    /\ ~NeedsManual(c) /\ ~LeaseActive(c)
    /\ call[c].seen.status = "pending" => MayReclaim(c)
    /\ IF Unmoved(c)
       THEN /\ row' = [row EXCEPT !.status = "pending", !.attempts = @ + 1,
                                  !.owner = c, !.lease = LeaseTtl]
            /\ call' = [call EXCEPT ![c] =
                   IF call[c].bound = 0 /\ call[c].seen.status = "synchronized"
                   THEN [@ EXCEPT !.pc = "rereading"]
                   ELSE Course(c, call[c].bound)]
       ELSE Goto(c, "reading") /\ UNCHANGED row
    /\ UNCHANGED <<native, binding, remote, known, orphaned, unlooked, refused, bounded>>

\* expirePendingAttempt; its owner stays in the row and may still complete.
ExpireLease(c) ==
    /\ At(c, "claiming")
    /\ call[c].seen.status = "pending"
    /\ ~LeaseActive(c) /\ ~MayReclaim(c)
    /\ IF Unmoved(c)
       THEN /\ row' = [row EXCEPT !.status = "reconciliation_required", !.lease = 0]
            /\ call' = [call EXCEPT ![c] = Again]
       ELSE Goto(c, "reading") /\ UNCHANGED row
    /\ UNCHANGED <<native, binding, remote, known, orphaned, unlooked, refused, bounded>>

\* Another attempt holds a live lease, or a manual reconciliation is due.
StandBack(c) ==
    /\ At(c, "claiming")
    /\ \/ NeedsManual(c) /\ Goto(c, "rereading")
       \/ LeaseActive(c) /\ Goto(c, "following")
    /\ UNCHANGED <<native, row, binding, remote, known, orphaned, unlooked, refused, bounded>>

\* The second read of the binding.  Without one, an unknown customer ends the
\* call; with one, a call without the claim starts over.
Reread(c) ==
    /\ At(c, "rereading")
    /\ call' = [call EXCEPT ![c] =
           IF ~NeedsManual(c) THEN Course(c, binding)
           ELSE IF binding = 0 THEN Ended ELSE Again]
    /\ UNCHANGED <<native, row, binding, remote, known, orphaned, unlooked, refused, bounded>>

MutFollowUntilSettled(c) ==
    /\ At(c, "following")
    /\ row.status # "pending"
    /\ call' = [call EXCEPT ![c] =
           IF row.status = "synchronized" /\ binding # 0 THEN Ended ELSE Again]
    /\ UNCHANGED <<native, row, binding, remote, known, orphaned, unlooked, refused, bounded>>
\* awaitCustomerProviderSync: poll until the attempt settled or its lease ran
\* out.
Follow(c) ==
    /\ At(c, "following")
    /\ row.status # "pending" \/ call[c].seen.lease = 0
    /\ call' = [call EXCEPT ![c] =
           IF row.status = "synchronized" /\ binding # 0 THEN Ended ELSE Again]
    /\ UNCHANGED <<native, row, binding, remote, known, orphaned, unlooked, refused, bounded>>

-----------------------------------------------------------------------------
\* The provider

\* createCustomer takes effect; under a key the provider has kept, none new.
\* executeCreateIdempotently adds nothing: where it refuses to run, the call goes on
\* as in CreateRefused or CreateUncertain; where it replays, as in Crash (the attempt
\* stays pending); where its own write throws at the end, as in SynchronizeThrows.
CreateRemote(c) ==
    /\ At(c, "creating")
    /\ IF native /\ keyed # 0
       THEN /\ call' = [call EXCEPT ![c].pc = "created", ![c].answer = keyed]
            /\ UNCHANGED remote
       ELSE /\ created' = created + 1
            /\ keyed' = created + 1
            /\ call' = [call EXCEPT ![c].pc = "created", ![c].answer = created + 1]
    /\ UNCHANGED <<native, row, binding, known, orphaned, unlooked, refused, bounded>>

CreateAnswered(c) ==
    /\ At(c, "created")
    /\ Goto(c, "persisting")
    /\ UNCHANGED <<native, row, binding, remote, known, orphaned, unlooked, refused, bounded>>

\* requiresManualCreateReconciliation.
AfterUncertain == IF native THEN "failing" ELSE "uncertain"

\* The answer is lost: PROVIDER_REQUEST_TIMEOUT, PROVIDER_ERROR or an error
\* that is not a PayableError, with or without effect at the provider.
CreateUncertain(c) ==
    /\ At(c, "creating") \/ At(c, "created")
    /\ Fault
    /\ call' = [call EXCEPT ![c].pc = AfterUncertain, ![c].answer = 0]
    /\ UNCHANGED <<native, row, binding, remote, known, orphaned, unlooked, refused>>

\* Any other PayableError: the provider did not create a customer.
CreateRefused(c) ==
    /\ At(c, "creating")
    /\ Fault
    /\ Goto(c, "failing")
    /\ UNCHANGED <<native, row, binding, remote, known, orphaned, unlooked, refused>>

UpdateRemote(c) ==
    /\ At(c, "updating")
    /\ call' = [call EXCEPT ![c].pc = "synchronizing", ![c].answer = call[c].bound]
    /\ UNCHANGED <<native, row, binding, remote, known, orphaned, unlooked, refused, bounded>>

UpdateThrows(c) ==
    /\ At(c, "updating")
    /\ Fault
    /\ refused' = TRUE
    /\ call' = [call EXCEPT ![c].pc = "failing", ![c].answer = call[c].bound]
    /\ UNCHANGED <<native, row, binding, remote, known, orphaned, unlooked>>

ForgetKey ==
    /\ native /\ keyed # 0
    /\ forgotten < MaxForgotten
    /\ forgotten' = forgotten + 1
    /\ keyed' = 0
    /\ UNCHANGED <<native, row, binding, created, call, known, orphaned, unlooked, refused,
                   stalls, faults, crashes>>

-----------------------------------------------------------------------------
\* CustomerProviderBindingWriter and CustomerProviderSyncLifecycle

\* persist(): an insert, and on a unique violation a look at the winner.
Persist(c) ==
    /\ At(c, "persisting")
    /\ IF binding \in {0, call[c].answer}
       THEN /\ binding' = call[c].answer
            /\ Goto(c, "synchronizing")
       ELSE /\ call' = [call EXCEPT ![c].pc = "reporting", ![c].conflict = TRUE]
            /\ UNCHANGED binding
    /\ UNCHANGED <<native, row, remote, known, orphaned, unlooked, refused, bounded>>

\* The insert throws for another reason, written or not, and the look at the
\* winner finds none or throws itself.  Its error then hides the conflict: a
\* call that lost to another customer reports as if nobody had won.
PersistThrows(c) ==
    /\ At(c, "persisting")
    /\ Fault
    /\ binding' \in {binding, IF binding = 0 THEN call[c].answer ELSE binding}
    /\ unlooked' = IF binding \in {0, call[c].answer} THEN unlooked
                   ELSE unlooked \cup {call[c].answer}
    /\ Goto(c, "reporting")
    /\ UNCHANGED <<native, row, remote, known, orphaned, refused>>

\* The WHERE clause of completeAttempt.
Holds(c) == row.attempts = call[c].seen.attempts + 1 /\ row.owner = c

Completed(status, id) ==
    [row EXCEPT !.status = status, !.remote = id, !.owner = Nobody, !.lease = 0]

\* The call is over, and so is what only it knew.
End(c) ==
    /\ call' = [call EXCEPT ![c] = Ended]
    /\ known' = known \cup ({call[c].answer} \ {0})

\* synchronized(): an attempt that lost its claim returns without a word.
Synchronize(c) ==
    /\ At(c, "synchronizing")
    /\ row' = IF Holds(c) THEN Completed("synchronized", call[c].answer) ELSE row
    /\ End(c)
    /\ UNCHANGED <<native, binding, remote, orphaned, unlooked, refused, bounded>>

\* Its transaction throws: rolled back, or committed without the answer.
SynchronizeThrows(c) ==
    /\ At(c, "synchronizing")
    /\ Fault
    /\ row' \in {row, IF Holds(c) THEN Completed("synchronized", call[c].answer) ELSE row}
    /\ Goto(c, "reporting")
    /\ UNCHANGED <<native, binding, remote, known, orphaned, unlooked, refused>>

MutReportWithoutId(c) ==
    /\ At(c, "reporting")
    /\ row' = IF Holds(c) THEN Completed("reconciliation_required", 0) ELSE row
    /\ orphaned' = IF ~Holds(c) \/ call[c].conflict
                   THEN orphaned \cup {call[c].answer} ELSE orphaned
    /\ End(c)
    /\ UNCHANGED <<native, binding, remote, unlooked, refused, bounded>>
\* reconciliationRequired() with a known customer, and recordOrphan.
Report(c) ==
    /\ At(c, "reporting")
    /\ row' = IF Holds(c) THEN Completed("reconciliation_required", call[c].answer) ELSE row
    /\ orphaned' = IF ~Holds(c) \/ call[c].conflict
                   THEN orphaned \cup {call[c].answer} ELSE orphaned
    /\ End(c)
    /\ UNCHANGED <<native, binding, remote, unlooked, refused, bounded>>

\* reconciliationRequired() without a customer.
ReportUncertain(c) ==
    /\ At(c, "uncertain")
    /\ row' = IF Holds(c) THEN Completed("reconciliation_required", 0) ELSE row
    /\ End(c)
    /\ UNCHANGED <<native, binding, remote, orphaned, unlooked, refused, bounded>>

\* failed().
ReportFailed(c) ==
    /\ At(c, "failing")
    /\ row' = IF Holds(c) THEN Completed("failed", call[c].answer) ELSE row
    /\ End(c)
    /\ UNCHANGED <<native, binding, remote, orphaned, unlooked, refused, bounded>>

\* A record throws, and handle() with it.
ReportThrows(c) ==
    /\ call[c].pc \in {"reporting", "uncertain", "failing"}
    /\ Fault
    /\ call' = [call EXCEPT ![c] = Ended]
    /\ UNCHANGED <<native, row, binding, remote, known, orphaned, unlooked, refused>>

-----------------------------------------------------------------------------

Crash(c) ==
    /\ call[c].pc \notin {"idle", "ended"}
    /\ crashes < MaxCrashes
    /\ crashes' = crashes + 1
    /\ call' = [call EXCEPT ![c] = Ended]
    /\ UNCHANGED <<native, row, binding, remote, known, orphaned, unlooked, refused,
                   stalls, forgotten, faults>>

Before(time) == IF time = 0 THEN 0 ELSE time - 1

\* Time passes, for the row and for the leases that calls have read.
Tick ==
    /\ row.lease > 0 \/ \E c \in Call : call[c].seen.lease > 0
    /\ IF row.lease > 0 /\ call[row.owner].pc # "ended"
       THEN stalls < MaxStalls /\ stalls' = stalls + 1
       ELSE UNCHANGED stalls
    /\ row' = [row EXCEPT !.lease = Before(@)]
    /\ call' = [c \in Call |-> [call[c] EXCEPT !.seen.lease = Before(@)]]
    /\ UNCHANGED <<native, binding, remote, known, orphaned, unlooked, refused,
                   forgotten, faults, crashes>>

Begin(c) ==
    \/ ReadBinding(c) \/ ReadState(c) \/ TakeClaim(c) \/ ExpireLease(c)
    \/ StandBack(c) \/ Reread(c) \/ Follow(c)

Work(c) ==
    \/ CreateRemote(c) \/ CreateAnswered(c) \/ CreateUncertain(c)
    \/ CreateRefused(c) \/ UpdateRemote(c) \/ UpdateThrows(c)
    \/ Persist(c) \/ PersistThrows(c) \/ Synchronize(c) \/ SynchronizeThrows(c)
    \/ Report(c) \/ ReportUncertain(c) \/ ReportFailed(c) \/ ReportThrows(c)

Next ==
    \/ \E c \in Call : Begin(c) \/ Work(c) \/ Crash(c)
    \/ ForgetKey
    \/ Tick

Spec == Init /\ [][Next]_vars

\* Calls that have begun continue and time passes; failures are free.
FairSpec ==
    /\ Spec
    /\ \A c \in Call : WF_vars((Begin(c) /\ call[c].pc # "idle") \/ Work(c))
    /\ WF_vars(Tick)

-----------------------------------------------------------------------------
\* Properties

\* Without native idempotency a second customer is never created, whatever
\* leases run out, answers are lost and processes die.  The exception: a call
\* that read no binding, and began its attempt after another call had created
\* and bound the customer and a third had failed to update it, takes the
\* failed row for a failed creation and creates another one.
OneRemoteCustomer == ~native /\ ~refused => created <= 1

\* Without native idempotency a customer that a call learned of before it ended
\* is bound, kept in the row for the repair of the binding, or reported as
\* orphaned, whatever claims were lost meanwhile.  (With it the provider
\* returns the customer under its key.)  The exception: a second customer whose
\* binding lost to the first one's while the look at the winner threw.
KnownIsAccounted ==
    ~native => \A id \in known :
        id = binding \/ id \in orphaned \/ id = row.remote \/ id \in unlooked

\* docs/features/08-customers-billable.md:268: "synchronized: the provider
\* result and local binding are durable".  Late attempts, conflicts and lost
\* commits included, the row and the binding then name the same customer.
SynchronizedIsBound ==
    row.status = "synchronized" => binding # 0 /\ row.remote = binding

\* Every call that has begun comes to an end: followers do not wait for, and do
\* not start over with, attempts that can no longer settle.
SyncReturns == <>[](\A c \in Call : call[c].pc \in {"idle", "ended"})

=============================================================================

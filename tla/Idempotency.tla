---------------------------- MODULE Idempotency ----------------------------
(***************************************************************************)
(* IdempotencyService.execute over one scoped key of the idempotency       *)
(* store.  Every execution is a separate call (a first request, a retry, a *)
(* concurrent duplicate), possibly in a separate process, and draws its    *)
(* own random lockToken: the token of an execution is the execution        *)
(* itself, and so is the response its run() produces.  An execution takes  *)
(* one step per awaited store call; time passes between any two steps, a   *)
(* store call may throw before or after it took effect, and a process may  *)
(* die anywhere.                                                           *)
(***************************************************************************)
EXTENDS Integers

CONSTANTS
    Execution,              \* calls of execute() that share the scoped key
    Hash,                   \* request hashes
    RequestHash,            \* RequestHash[e]: hashRequest(execution.request)
    None,                   \* no execution, no hash
    Settings,               \* the settings to consider, see SettingsAssumption
    LockTtl, FailedTtl,
    StoreFaults,            \* store calls may throw
    MaxTime                 \* horizon of the clock

Null == -1                  \* a null timestamp or TTL

ASSUME ExecutionAssumption ==
    /\ None \notin Execution
    /\ None \notin Hash
    /\ RequestHash \in [Execution -> Hash]
\* What the callers of the key and the service are configured with:
\* execution.failurePolicy, retryFailed and reclaimStaleProcessing, whether the
\* provider supplies isFailureOutcomeUncertain, and completedTtlMs.
ASSUME SettingsAssumption ==
    Settings \subseteq
        [failurePolicy : {"default", "reconciliation-required"},
         retryFailed : BOOLEAN, reclaimStaleProcessing : BOOLEAN,
         reportsCertainty : BOOLEAN, completedTtl : Nat]
ASSUME TimeAssumption ==
    /\ LockTtl \in Nat
    /\ FailedTtl \in Nat
    /\ MaxTime \in Nat
    /\ StoreFaults \in BOOLEAN

VARIABLES
    settings,       \* fixed at the start; every call of a key uses the same
    now,            \* the clock
    record,         \* the row of payable_idempotency_keys
    pc,             \* where each execution is
    lease,          \* lockedUntil of the execution's processingRecord
    result,         \* how each execution ended
    answer,         \* the execution whose response was handed to the caller
    effects,        \* executions whose run() had its external effect
    completedUntil  \* expiry that the execution's markCompleted persisted

vars == <<settings, now, record, pc, lease, result, answer, effects, completedUntil>>

Time == Int
Status == {"absent", "processing", "completed", "failed"}
Record == [status: Status, hash: Hash \cup {None}, lockedUntil: Time,
           expiresAt: Time, token: Execution \cup {None},
           response: Execution \cup {None}]
NoRecord == [status |-> "absent", hash |-> None, lockedUntil |-> Null,
             expiresAt |-> Null, token |-> None, response |-> None]
Control == {"idle", "acquiring", "rereading", "taking", "running", "failing",
            "failingCertain", "completing", "verifying", "verifyingNoAck",
            "unverified", "settled", "crashed"}
Result == {"pending", "returned", "conflict", "in_progress",
           "reconciliation_required", "threw", "persistence_error"}

-----------------------------------------------------------------------------
\* Policy and record predicates

MutPolicyFailuresExpire ==
    [retryFailed |-> FALSE, reclaim |-> FALSE, failedTtl |-> FailedTtl]
Policy ==
    IF settings.failurePolicy = "reconciliation-required"
    THEN [retryFailed |-> FALSE, reclaim |-> FALSE, failedTtl |-> Null]
    ELSE [retryFailed |-> settings.retryFailed,
          reclaim |-> settings.reclaimStaleProcessing, failedTtl |-> FailedTtl]

IsLocked(r) == r.lockedUntil # Null /\ r.lockedUntil > now

IsExpired(r) == r.expiresAt # Null /\ r.expiresAt <= now

\* What replay() makes of the record it read; "proceed" is handled = false.
Replay(e, r) ==
    IF r.status = "absent" \/ IsExpired(r)            THEN "proceed"
    ELSE IF r.hash # RequestHash[e]                   THEN "conflict"
    ELSE IF r.status = "completed"                    THEN "returned"
    ELSE IF r.status = "processing" /\ IsLocked(r)    THEN "in_progress"
    ELSE IF r.status # "failed" \/ Policy.retryFailed THEN "proceed"
    ELSE IF settings.failurePolicy = "default"        THEN "conflict"
    ELSE "reconciliation_required"

ProcessingRecord(e) ==
    [status |-> "processing", hash |-> RequestHash[e],
     lockedUntil |-> lease[e], expiresAt |-> Null, token |-> e,
     response |-> None]

\* The WHERE clause of takeOver: it re-tests lock and expiry, not the policy.
MutTakeOverIgnoresLock(r) ==
    r.status \in {"processing", "failed"} \/ IsExpired(r)
TakeOverMatches(r) ==
    \/ /\ r.status \in {"processing", "failed"}
       /\ r.lockedUntil = Null \/ r.lockedUntil <= now
    \/ IsExpired(r)

\* scopedToOwner: completion and failure writes are fenced by the lock token.
MutUnfenced(e) == record.status # "absent"
Owns(e) == record.token = e

FailedRecord(ttl) ==
    [record EXCEPT !.status = "failed", !.lockedUntil = Null,
                   !.expiresAt = IF ttl = Null THEN Null ELSE now + ttl]

CompletedRecord(e) ==
    [record EXCEPT !.status = "completed", !.lockedUntil = Null,
                   !.response = e, !.expiresAt = now + settings.completedTtl]

-----------------------------------------------------------------------------
\* How an execution moves on

Goto(e, where) ==
    /\ pc' = [pc EXCEPT ![e] = where]
    /\ UNCHANGED <<result, answer>>

Settle(e, kind, response) ==
    /\ pc' = [pc EXCEPT ![e] = "settled"]
    /\ result' = [result EXCEPT ![e] = kind]
    /\ answer' = [answer EXCEPT ![e] = response]

Refuse(e, kind) == Settle(e, kind, None)

Init ==
    /\ settings \in Settings
    /\ now = 0
    /\ record = NoRecord
    /\ pc = [e \in Execution |-> "idle"]
    /\ lease = [e \in Execution |-> Null]
    /\ result = [e \in Execution |-> "pending"]
    /\ answer = [e \in Execution |-> None]
    /\ effects = {}
    /\ completedUntil = [e \in Execution |-> Null]

\* execute: find, replay, and otherwise build the processing record, whose
\* lockedUntil is computed here, before the row is acquired.
Execute(e) ==
    /\ pc[e] = "idle"
    /\ \/ /\ Replay(e, record) = "proceed"
          /\ lease' = [lease EXCEPT ![e] = now + LockTtl]
          /\ Goto(e, "acquiring")
       \/ /\ Replay(e, record) = "returned"
          /\ Settle(e, "returned", record.response)
          /\ UNCHANGED lease
       \/ /\ Replay(e, record) \notin {"proceed", "returned"}
          /\ Refuse(e, Replay(e, record))
          /\ UNCHANGED lease
    /\ UNCHANGED <<now, record, effects, completedUntil>>

\* acquire: INSERT that reports a unique violation as false.
Acquire(e) ==
    /\ pc[e] = "acquiring"
    /\ \/ /\ record.status = "absent"
          /\ record' = ProcessingRecord(e)
          /\ Goto(e, "running")
       \/ /\ record.status # "absent"
          /\ Goto(e, "rereading")
          /\ UNCHANGED record
    /\ UNCHANGED <<now, lease, effects, completedUntil>>

\* The second find and replay of run(), after a lost INSERT.
Reread(e) ==
    /\ pc[e] = "rereading"
    /\ \/ /\ Replay(e, record) = "returned"
          /\ Settle(e, "returned", record.response)
       \/ /\ Replay(e, record) \notin {"proceed", "returned"}
          /\ Refuse(e, Replay(e, record))
       \/ /\ Replay(e, record) = "proceed"
          /\ IF record.status = "processing" /\ ~Policy.reclaim
             THEN Refuse(e, "in_progress")
             ELSE Goto(e, "taking")
    /\ UNCHANGED <<now, record, lease, effects, completedUntil>>

\* takeOver: conditional UPDATE; no matching row is InProgress.
TakeOver(e) ==
    /\ pc[e] = "taking"
    /\ \/ /\ TakeOverMatches(record)
          /\ record' = ProcessingRecord(e)
          /\ Goto(e, "running")
       \/ /\ ~TakeOverMatches(record)
          /\ Refuse(e, "in_progress")
          /\ UNCHANGED record
    /\ UNCHANGED <<now, lease, effects, completedUntil>>

\* A store call before run() throws out of execute(), whether or not the row
\* was written: nothing catches it, and nothing undoes the write.
StoreThrows(e) ==
    /\ StoreFaults
    /\ pc[e] \in {"idle", "acquiring", "rereading", "taking"}
    /\ \/ UNCHANGED record
       \/ /\ pc[e] = "acquiring" /\ record.status = "absent"
          /\ record' = ProcessingRecord(e)
       \/ /\ pc[e] = "taking" /\ TakeOverMatches(record)
          /\ record' = ProcessingRecord(e)
    /\ Refuse(e, "threw")
    /\ UNCHANGED <<now, lease, effects, completedUntil>>

\* The external effect of run(), for instance the charge at the provider.
Effect(e) ==
    /\ pc[e] = "running"
    /\ e \notin effects
    /\ effects' = effects \cup {e}
    /\ UNCHANGED <<now, record, pc, lease, result, answer, completedUntil>>

RunReturns(e) ==
    /\ pc[e] = "running"
    /\ e \in effects
    /\ Goto(e, "completing")
    /\ UNCHANGED <<now, record, lease, effects, completedUntil>>

\* run() throws; only a failure known to have had no effect gets TTL 0.
RunThrows(e) ==
    /\ pc[e] = "running"
    /\ \/ Goto(e, "failing")
       \/ /\ settings.reportsCertainty
          /\ e \notin effects
          /\ Goto(e, "failingCertain")
    /\ UNCHANGED <<now, record, lease, effects, completedUntil>>

MarkFailed(e) ==
    /\ pc[e] \in {"failing", "failingCertain"}
    /\ \/ /\ Owns(e)
          /\ record' = FailedRecord(IF pc[e] = "failingCertain" THEN 0
                                    ELSE Policy.failedTtl)
       \/ /\ ~Owns(e) \/ StoreFaults
          /\ UNCHANGED record
    /\ Refuse(e, "threw")
    /\ UNCHANGED <<now, lease, effects, completedUntil>>

\* markCompleted; a thrown error is kept in completionError ("NoAck").
MarkCompleted(e) ==
    /\ pc[e] = "completing"
    /\ \/ /\ Owns(e)
          /\ record' = CompletedRecord(e)
          /\ completedUntil' = [completedUntil EXCEPT ![e] = now + settings.completedTtl]
          /\ \/ Goto(e, "verifying")
             \/ StoreFaults /\ Goto(e, "verifyingNoAck")
       \/ /\ ~Owns(e)
          /\ Goto(e, "verifying")
          /\ UNCHANGED <<record, completedUntil>>
       \/ /\ StoreFaults
          /\ Goto(e, "verifyingNoAck")
          /\ UNCHANGED <<record, completedUntil>>
    /\ UNCHANGED <<now, lease, effects>>

\* The find after markCompleted: the stored completion is authoritative.
CompletedForMe(e) ==
    record.status = "completed" /\ record.hash = RequestHash[e]

MutAnswersOwnResult(e) == e
VerifiedAnswer(e) ==
    IF pc[e] = "verifying" /\ Owns(e) THEN e ELSE record.response

Verify(e) ==
    /\ pc[e] \in {"verifying", "verifyingNoAck"}
    /\ \/ CompletedForMe(e) /\ Settle(e, "returned", VerifiedAnswer(e))
       \/ ~CompletedForMe(e) /\ Goto(e, "unverified")
       \/ StoreFaults /\ Goto(e, "unverified")
    /\ UNCHANGED <<now, record, lease, effects, completedUntil>>

MarkUnverified(e) ==
    /\ pc[e] = "unverified"
    /\ \/ /\ Owns(e)
          /\ record' = FailedRecord(Policy.failedTtl)
       \/ /\ ~Owns(e) \/ StoreFaults
          /\ UNCHANGED record
    /\ Refuse(e, "persistence_error")
    /\ UNCHANGED <<now, lease, effects, completedUntil>>

Crash(e) ==
    /\ pc[e] \notin {"idle", "settled", "crashed"}
    /\ Goto(e, "crashed")
    /\ UNCHANGED <<now, record, lease, effects, completedUntil>>

Tick ==
    /\ now < MaxTime
    /\ now' = now + 1
    /\ UNCHANGED <<record, pc, lease, result, answer, effects, completedUntil>>

Step(e) ==
    \/ Execute(e) \/ Acquire(e) \/ Reread(e) \/ TakeOver(e) \/ StoreThrows(e)
    \/ Effect(e) \/ RunReturns(e) \/ RunThrows(e)
    \/ MarkFailed(e) \/ MarkCompleted(e) \/ Verify(e) \/ MarkUnverified(e)
    \/ Crash(e)

Next ==
    /\ UNCHANGED settings
    /\ Tick \/ \E e \in Execution : Step(e)

Spec == Init /\ [][Next]_vars

-----------------------------------------------------------------------------
\* Properties

\* What each status of the row implies for its other columns: a completed row
\* carries the response of the execution that owns it, and only a processing
\* row is locked.
RecordOK ==
    /\ record \in Record
    /\ record.status = "absent" <=> record.token = None
    /\ record.status # "absent" => record.hash = RequestHash[record.token]
    /\ record.status # "processing" => record.lockedUntil = Null
    /\ record.status = "processing" =>
            record.expiresAt = Null /\ record.lockedUntil \in Nat
    /\ record.status = "completed" =>
            record.response = record.token /\ record.expiresAt \in Nat

\* The variables have their types, and the row is well formed.
TypeOK ==
    /\ settings \in Settings
    /\ now \in 0..MaxTime
    /\ RecordOK
    /\ pc \in [Execution -> Control]
    /\ lease \in [Execution -> Time]
    /\ result \in [Execution -> Result]
    /\ answer \in [Execution -> Execution \cup {None}]
    /\ effects \in SUBSET Execution
    /\ completedUntil \in [Execution -> Time]

\* execute() never hands out a result that the store did not record as
\* completed for the same request: a runner that was displaced, or whose
\* markCompleted was lost, answers with the stored response or throws.
AnswerWasPersisted ==
    \A e \in Execution : result[e] = "returned" =>
        /\ answer[e] \in Execution
        /\ completedUntil[answer[e]] # Null
        /\ RequestHash[answer[e]] = RequestHash[e]

\* An answer handed to one caller stays the recorded answer until it expires,
\* so every later retry of the request replays it; the only way out is the
\* producing run reporting a persistence error to its own caller.
AnswerHoldsUntilExpiry ==
    \A e \in Execution :
        (result[e] = "returned" /\ now < completedUntil[answer[e]]) =>
            \/ record.status = "completed" /\ record.response = answer[e]
            \/ result[answer[e]] = "persistence_error"

\* The lease is a mutual exclusion with a deadline: a runner whose lease has
\* not run out still owns the record, whatever the other executions do.
LeaseProtectsRunner ==
    \A e \in Execution :
        (pc[e] \in {"running", "failing", "failingCertain", "completing"}
            /\ now < lease[e]) =>
        record.token = e /\ record.status = "processing"

\* Under reconciliation-required with uncertain failures, and within one
\* retention period of a completion, the operation takes effect at most once,
\* through crashes, thrown store calls and lost acknowledgements.
AtMostOneEffect ==
    (/\ settings.failurePolicy = "reconciliation-required"
     /\ ~settings.reportsCertainty
     /\ MaxTime < settings.completedTtl) => \A e, f \in effects : e = f

\* A record that completed only ever leaves that status when its retention is
\* over or when its own execution could not verify it.
CompletedIsFinal ==
    [][(record.status = "completed" /\ record' # record) =>
        IsExpired(record) \/ pc[record.token] = "unverified"]_vars

=============================================================================

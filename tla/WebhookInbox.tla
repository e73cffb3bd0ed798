---------------------------- MODULE WebhookInbox ----------------------------
(***************************************************************************)
(* One provider event on its way through the webhook inbox: the requests   *)
(* that deliver it (a provider repeats a delivery until it is answered     *)
(* 2xx), the row of payable_webhook_events, the job in the queue, the      *)
(* workers that process it and the operators that replay it.  The claim    *)
(* token that a run draws is the actor that runs it.  claimLeft counts     *)
(* down to 0, where claimed_until < now.                                   *)
(***************************************************************************)
EXTENDS Integers, FiniteSets, Functions

CONSTANTS
    Request,        \* deliveries by the provider
    Worker,         \* queue workers (none with the inline queue)
    Operator,       \* calls of replayWebhook
    None,
    Pipelines,      \* the pipelines to consider, see InboxAssumption
    Normalized,     \* the event has a normalizedType
    ClaimTtl,       \* CLAIM_TTL_MS, in units of the countdown
    JobAttempts,    \* the attempts option of a job
    MaxRedeliveries,\* bound: deliveries repeated after an error
    MaxFaults,      \* bound: steps of the pipeline or of the queue that throw
    MaxLostAcks,    \* bound: commits that are reported as failed
    MaxLostClaims,  \* bound: claims that are written and never answered
    MaxMarkFaults,  \* bound: markStatus("failed") calls that throw
    MaxDeaths,      \* bound: processes that die
    MaxJobStalls,   \* bound: active jobs that BullMQ takes for stalled
    MaxStalls,      \* bound: ticks while some run is under way
    MaxHappenings   \* bound: all of these together

Runner == Request \cup Worker \cup Operator

ASSUME InboxAssumption ==
    /\ None \notin Runner
    /\ Request \cap Worker = {} /\ Request \cap Operator = {}
    /\ Worker \cap Operator = {}
    \* inline: queue.inline, SyncQueueDriver instead of BullMQ; treasury: the
    \* treasury pipeline, without catalog reconciliation and without replays
    /\ Pipelines \subseteq [inline : BOOLEAN, treasury : BOOLEAN]
    /\ Normalized \in BOOLEAN
    /\ ClaimTtl \in Nat \ {0}
    /\ JobAttempts \in Nat \ {0}
    /\ MaxRedeliveries \in Nat /\ MaxFaults \in Nat /\ MaxLostAcks \in Nat
    /\ MaxLostClaims \in Nat
    /\ MaxMarkFaults \in Nat /\ MaxDeaths \in Nat /\ MaxJobStalls \in Nat
    /\ MaxStalls \in Nat /\ MaxHappenings \in Nat

VARIABLES
    pipeline,   \* the pipeline the event goes through, fixed at the start
    row,        \* the row of payable_webhook_events
    job,        \* the job keyed by the event id
    pc,         \* where each actor is
    response,   \* the answer of each request
    lease,      \* time left of the runner's own claim
    audits,     \* audit entries written for the event
    outbox,     \* outbox rows staged for the event
    count       \* bounded happenings so far, and the replays that claimed

inboxVars == <<pipeline, row, job, pc, response, lease, audits, outbox, count>>

\* status: absent, pending, processing, processed or failed.
NoRow == [status |-> "absent", token |-> None, claimLeft |-> 0]

\* state: none, waiting, active, completed or failed.
NoJob == [state |-> "none", attempts |-> 0, holder |-> None,
          deadLettered |-> FALSE]

\* lostClaim, lostReplay: the unanswered claim of a job or an inline run, and
\* that of a replay.
Happening == {"redelivery", "fault", "lostAck", "lostClaim", "lostReplay",
              "markFault", "crash", "jobStall", "stall", "replay"}
Limit == [redelivery |-> MaxRedeliveries, fault |-> MaxFaults,
          lostAck |-> MaxLostAcks, lostClaim |-> MaxLostClaims,
          lostReplay |-> MaxLostClaims, markFault |-> MaxMarkFaults,
          crash |-> MaxDeaths, jobStall |-> MaxJobStalls, stall |-> MaxStalls,
          replay |-> Cardinality(Operator)]

Happens(what) ==
    /\ count[what] < Limit[what]
    /\ SumFunction(count) < MaxHappenings
    /\ count' = [count EXCEPT ![what] = @ + 1]

Goto(r, label) == pc' = [pc EXCEPT ![r] = label]
Respond(r, answer) ==
    /\ Goto(r, "done")
    /\ response' = [response EXCEPT ![r] = answer]

InboxInit ==
    /\ pipeline \in Pipelines
    /\ row = NoRow
    /\ job = NoJob
    /\ pc = [r \in Runner |-> "idle"]
    /\ response = [r \in Request |-> "none"]
    /\ lease = [r \in Runner |-> 0]
    /\ audits = 0
    /\ outbox = 0
    /\ count = [what \in Happening |-> 0]

-----------------------------------------------------------------------------
\* ReceiveWebhookAction

Reprocessable ==
    row.status \in {"pending", "failed"}

MutDuplicateAcks(r) ==
    Respond(r, "accepted")
\* A stored duplicate: processed and processing events are acknowledged.
Duplicate(r) ==
    IF Reprocessable
    THEN Goto(r, "dispatching") /\ UNCHANGED response
    ELSE Respond(r, "accepted")

\* StoreWebhookEventAction: the pre-check by provider event id.
Receive(r) ==
    /\ pc[r] = "idle"
    /\ IF row.status = "absent"
       THEN Goto(r, "creating") /\ UNCHANGED response
       ELSE Duplicate(r)
    /\ UNCHANGED <<row, job, lease, audits, outbox, count>>

\* The insert, which the unique key refuses when another request was faster.
CreateEvent(r) ==
    /\ pc[r] = "creating"
    /\ IF row.status = "absent"
       THEN /\ row' = [row EXCEPT !.status = "pending"]
            /\ Goto(r, "dispatching")
       ELSE Goto(r, "raced") /\ UNCHANGED row
    /\ UNCHANGED <<job, response, lease, audits, outbox, count>>

\* The insert throws for another reason, its row written or not.
CreateThrows(r) ==
    /\ pc[r] = "creating"
    /\ Happens("fault")
    /\ \/ UNCHANGED row
       \/ row.status = "absent" /\ row' = [row EXCEPT !.status = "pending"]
    /\ Goto(r, "raced")
    /\ UNCHANGED <<job, response, lease, audits, outbox>>

\* The catch block looks for the row of a faster request.
LookUpRaced(r) ==
    /\ pc[r] = "raced"
    /\ IF row.status = "absent" THEN Respond(r, "error") ELSE Duplicate(r)
    /\ UNCHANGED <<row, job, lease, audits, outbox, count>>

\* BullMQ ignores a job whose id it still keeps, finished or not.
Enqueued ==
    IF job.state = "none"
    THEN [job EXCEPT !.state = "waiting"]
    ELSE job

Dispatch(r) ==
    /\ ~pipeline.inline
    /\ pc[r] = "dispatching"
    /\ job' = Enqueued
    /\ Respond(r, "accepted")
    /\ UNCHANGED <<row, lease, audits, outbox, count>>

\* The job may have been added all the same.
DispatchThrows(r) ==
    /\ ~pipeline.inline
    /\ pc[r] = "dispatching"
    /\ Happens("fault")
    /\ job' \in {job, Enqueued}
    /\ Respond(r, "error")
    /\ UNCHANGED <<row, lease, audits, outbox>>

\* SyncQueueDriver runs the handler inside the request.
DispatchInline(r) ==
    /\ pipeline.inline
    /\ pc[r] = "dispatching"
    /\ Goto(r, "reading")
    /\ UNCHANGED <<row, job, response, lease, audits, outbox, count>>

\* The status is read again and an event that failed is answered 5xx.
Settle(r) ==
    /\ pc[r] = "settling"
    /\ Respond(r, IF row.status = "failed" THEN "error" ELSE "accepted")
    /\ UNCHANGED <<row, job, lease, audits, outbox, count>>

\* The catch block's lookup or the read of the settled event throws.  A request
\* that throws before is one that comes later.
ServeThrows(r) ==
    /\ pc[r] \in {"raced", "settling"}
    /\ Happens("fault")
    /\ Respond(r, "error")
    /\ UNCHANGED <<row, job, lease, audits, outbox>>

\* The provider repeats a delivery that was not accepted.
Redeliver(r) ==
    /\ pc[r] = "done"
    /\ response[r] = "error"
    /\ Happens("redelivery")
    /\ Goto(r, "idle")
    /\ response' = [response EXCEPT ![r] = "none"]
    /\ UNCHANGED <<row, job, lease, audits, outbox>>

-----------------------------------------------------------------------------
\* The queue

\* A worker takes the waiting job.
TakeJob(w) ==
    /\ pc[w] = "idle"
    /\ job.state = "waiting"
    /\ job' = [job EXCEPT !.state = "active", !.holder = w]
    /\ Goto(w, "reading")
    /\ UNCHANGED <<row, response, lease, audits, outbox, count>>

\* The lock of an active job runs out; its worker may still be running.
StallJob ==
    /\ job.state = "active"
    /\ Happens("jobStall")
    /\ job' = [job EXCEPT !.state = "waiting", !.holder = None]
    /\ UNCHANGED <<row, pc, response, lease, audits, outbox>>

\* The job of a worker that died is put back.
RecoverJob ==
    /\ job.state = "active"
    /\ pc[job.holder] = "idle"
    /\ job' = [job EXCEPT !.state = "waiting", !.holder = None]
    /\ UNCHANGED <<row, pc, response, lease, audits, outbox, count>>

\* removeOnComplete and removeOnFail forget finished jobs, but for the history
\* of the dead letter.
ForgetJob ==
    /\ job.state \in {"completed", "failed"}
    /\ job' = [NoJob EXCEPT !.deadLettered = job.deadLettered]
    /\ UNCHANGED <<row, pc, response, lease, audits, outbox, count>>

\* What the handler of worker w did to the job, if w still holds it.
JobAfter(w, ok) ==
    IF job.state # "active" \/ job.holder # w THEN job
    ELSE IF ok THEN [job EXCEPT !.state = "completed", !.holder = None]
    ELSE IF job.attempts + 1 >= JobAttempts
         THEN [job EXCEPT !.state = "failed", !.attempts = @ + 1,
                          !.holder = None, !.deadLettered = TRUE]
         ELSE [job EXCEPT !.state = "waiting", !.attempts = @ + 1, !.holder = None]

\* A run ends: a worker reports to the queue, a request goes on to answer.
Finish(r, ok) ==
    /\ lease' = [lease EXCEPT ![r] = 0]
    /\ IF r \in Worker
       THEN Goto(r, "idle") /\ job' = JobAfter(r, ok) /\ UNCHANGED response
       ELSE IF r \in Operator
       THEN Goto(r, "done") /\ UNCHANGED <<job, response>>
       ELSE IF ok
       THEN Goto(r, "settling") /\ UNCHANGED <<job, response>>
       ELSE Respond(r, "error") /\ UNCHANGED job

-----------------------------------------------------------------------------
\* ProcessWebhookAction, ReplayWebhookAction and the pipeline

\* findById; a processed event needs no run.
ReadEvent(r) ==
    /\ pc[r] = "reading"
    /\ IF row.status = "processed"
       THEN Finish(r, TRUE)
       ELSE Goto(r, "claiming") /\ UNCHANGED <<job, response, lease>>
    /\ UNCHANGED <<row, audits, outbox, count>>

\* findById throws, outside the try: nothing is marked.
ReadThrows(r) ==
    /\ pc[r] = "reading"
    /\ Happens("fault")
    /\ Finish(r, FALSE)
    /\ UNCHANGED <<row, audits, outbox>>

\* ReplayWebhookAction: findById, the tenant check and verify() pass.
Replay(p) ==
    /\ ~pipeline.treasury
    /\ pc[p] = "idle"
    /\ row.status # "absent"
    /\ Goto(p, "claiming")
    /\ UNCHANGED <<row, job, response, lease, audits, outbox, count>>

MutClaimableNoTtl(r) ==
    \/ row.status \in {"pending", "failed", "processing"}
    \/ row.status = "processed" /\ r \in Operator
MutClaimableProcessed(r) ==
    \/ row.status \in {"pending", "failed", "processed"}
    \/ row.status = "processing" /\ row.claimLeft = 0
\* claim(): a replay may also take a processed event.
Claimable(r) ==
    \/ row.status \in {"pending", "failed"}
    \/ row.status = "processed" /\ r \in Operator
    \/ row.status = "processing" /\ row.claimLeft = 0

Claimed(r) == [status |-> "processing", token |-> r, claimLeft |-> ClaimTtl]

\* claim(): a conditional UPDATE; without a token the run ends quietly.
TakeClaim(r, next) ==
    /\ pc[r] = "claiming"
    /\ IF Claimable(r)
       THEN /\ row' = Claimed(r)
            /\ lease' = [lease EXCEPT ![r] = ClaimTtl]
            /\ Goto(r, next)
            /\ IF r \in Operator THEN Happens("replay") ELSE UNCHANGED count
            /\ UNCHANGED <<job, response>>
       ELSE Finish(r, TRUE) /\ UNCHANGED <<row, count>>
    /\ UNCHANGED <<audits, outbox>>

\* ProcessWebhookAction and ReplayWebhookAction.
ClaimEvent(r) == ~pipeline.treasury /\ TakeClaim(r, "catalog")

\* ProcessTreasuryWebhookAction: nothing precedes the transaction.
ClaimTreasuryEvent(r) == pipeline.treasury /\ TakeClaim(r, "committing")

\* claim() throws, outside the try: nothing is marked.  Its UPDATE may have
\* been committed, with a token that no run was given.
ClaimThrows(r) ==
    /\ pc[r] = "claiming"
    /\ \/ Happens("fault") /\ UNCHANGED row
       \/ /\ Claimable(r)
          /\ Happens(IF r \in Operator THEN "lostReplay" ELSE "lostClaim")
          /\ row' = Claimed(r)
    /\ Finish(r, FALSE)
    /\ UNCHANGED <<audits, outbox>>

\* reconcileCatalog, outside the transaction: it retrieves the provider's
\* resource and may throw.
ReconcileCatalog(r) ==
    /\ pc[r] = "catalog"
    /\ \/ Goto(r, "committing") /\ UNCHANGED count
       \/ Happens("fault") /\ Goto(r, "failing")
    /\ UNCHANGED <<row, job, response, lease, audits, outbox>>

MutStagedNoDedupe ==
    IF Normalized THEN outbox + 1 ELSE outbox
\* outboxEvents.create with the event's dedupe key returns an existing row.
Staged ==
    IF Normalized /\ outbox = 0 THEN 1 ELSE outbox

\* markStatus: WHERE claim_token = the run's token.
Owns(r) == row.token = r

\* What the transaction writes beside the reconciled resources.
Persist(r) ==
    /\ row' = [row EXCEPT !.status = "processed"]
    /\ audits' = audits + 1
    /\ outbox' = Staged

\* Reconcile, audit entry, outbox row and the mark commit together.  A lost
\* claim rolls them back and ends the run quietly.  A commit whose
\* acknowledgement is lost looks like a failure.
CommitAll(r) ==
    /\ pc[r] = "committing"
    /\ IF Owns(r)
       THEN /\ Persist(r)
            /\ \/ Finish(r, TRUE) /\ UNCHANGED count
               \/ /\ Happens("lostAck")
                  /\ Goto(r, "failing")
                  /\ UNCHANGED <<job, response, lease>>
       ELSE Finish(r, TRUE) /\ UNCHANGED <<row, audits, outbox, count>>

Commit(r) == ~pipeline.treasury /\ CommitAll(r)
CommitTreasury(r) == pipeline.treasury /\ CommitAll(r)

\* The transaction throws and is rolled back.
CommitThrows(r) ==
    /\ pc[r] = "committing"
    /\ Happens("fault")
    /\ Goto(r, "failing")
    /\ UNCHANGED <<row, job, response, lease, audits, outbox>>

MutMarkFailedSkipped(r) ==
    /\ pc[r] = "failing"
    /\ row' = row
    /\ Finish(r, FALSE)
    /\ UNCHANGED <<audits, outbox, count>>
\* markStatus("failed") under the token, then the error is rethrown.
MarkFailed(r) ==
    /\ pc[r] = "failing"
    /\ row' = IF Owns(r) THEN [row EXCEPT !.status = "failed"] ELSE row
    /\ Finish(r, FALSE)
    /\ UNCHANGED <<audits, outbox, count>>

\* It throws itself: swallowed, the event stays as it is.
MarkFailedThrows(r) ==
    /\ pc[r] = "failing"
    /\ Happens("markFault")
    /\ Finish(r, FALSE)
    /\ UNCHANGED <<row, audits, outbox>>

Running == {"creating", "raced", "dispatching", "reading", "claiming",
            "catalog", "committing", "failing", "settling"}

\* The process of r dies; a request it was serving gets no answer.
ProcessDies(r) ==
    /\ pc[r] \in Running
    /\ Happens("crash")
    /\ lease' = [lease EXCEPT ![r] = 0]
    /\ IF r \in Request
       THEN Respond(r, "error")
       ELSE Goto(r, IF r \in Worker THEN "idle" ELSE "done") /\ UNCHANGED response
    /\ UNCHANGED <<row, job, audits, outbox>>

Busy == \E r \in Runner : pc[r] \in Running
OneLess(time) == IF time = 0 THEN 0 ELSE time - 1

Tick ==
    /\ row.claimLeft > 0
    /\ IF Busy THEN Happens("stall") ELSE UNCHANGED count
    /\ row' = [row EXCEPT !.claimLeft = OneLess(@)]
    /\ lease' = [r \in Runner |-> OneLess(lease[r])]
    /\ UNCHANGED <<job, pc, response, audits, outbox>>

Serve(r) ==
    \/ Receive(r) \/ CreateEvent(r) \/ CreateThrows(r) \/ LookUpRaced(r)
    \/ Dispatch(r) \/ DispatchThrows(r) \/ DispatchInline(r) \/ Settle(r)
    \/ ServeThrows(r)

Run(r) ==
    \/ ReadEvent(r) \/ ReadThrows(r)
    \/ ClaimEvent(r) \/ ClaimTreasuryEvent(r) \/ ClaimThrows(r)
    \/ ReconcileCatalog(r) \/ Commit(r) \/ CommitTreasury(r) \/ CommitThrows(r)
    \/ MarkFailed(r) \/ MarkFailedThrows(r)

InboxNext ==
    /\ UNCHANGED pipeline
    /\ \/ \E r \in Request : Serve(r) \/ Redeliver(r)
       \/ \E w \in Worker : TakeJob(w)
       \/ StallJob \/ RecoverJob \/ ForgetJob
       \/ \E p \in Operator : Replay(p)
       \/ \E r \in Runner : Run(r) \/ ProcessDies(r)
       \/ Tick

InboxSpec == InboxInit /\ [][InboxNext]_inboxVars

\* Started runs continue, workers take jobs, the queue recovers jobs and time
\* passes; deliveries, replays and failures are free.
FairInboxSpec ==
    /\ InboxSpec
    /\ \A r \in Request : WF_inboxVars(UNCHANGED pipeline /\ Serve(r) /\ pc[r] # "idle")
    /\ \A w \in Worker : WF_inboxVars(UNCHANGED pipeline /\ TakeJob(w))
    /\ \A r \in Runner : WF_inboxVars(UNCHANGED pipeline /\ Run(r))
    /\ WF_inboxVars(UNCHANGED pipeline /\ RecoverJob)
    /\ WF_inboxVars(UNCHANGED pipeline /\ Tick)

-----------------------------------------------------------------------------
\* Properties

\* Every audit entry beyond the first comes from an operator's replay, its
\* claim answered or not, or from a commit whose acknowledgement was lost:
\* redeliveries, job retries, stalled jobs, unanswered claims and expired ones
\* never process the event again.  However often it is processed, one outbox
\* row is staged for it.
EffectsAccounted ==
    /\ audits <= 1 + count["replay"] + count["lostReplay"] + count["lostAck"]
    /\ outbox <= 1

\* Two runs never work in the pipeline under live claims.
ClaimIsExclusive ==
    LET working(r) == pc[r] \in {"catalog", "committing"} /\ lease[r] > 0
    IN  \A r, s \in Runner : working(r) /\ working(s) => r = s

\* Where nobody may be left to settle an event: its job used up the attempts
\* before a run could claim it, because the read or the claim threw each time;
\* or it is claimed for a run that is not there: the claim was never answered,
\* the run died or its mark threw.  A job that comes back before the claim runs
\* out is then completed by it.
NeverClaimed == job.deadLettered /\ row.status = "pending"
ClaimStranded ==
    /\ row.status = "processing"
    /\ \A r \in Runner :
          row.token = r => pc[r] \notin {"catalog", "committing", "failing"}
    /\ count["lostClaim"] + count["lostReplay"] + count["crash"] + count["markFault"] > 0

\* An acknowledged event is eventually processed or marked failed, unless it
\* is left in one of those two ways.
AcceptedIsSettled ==
    (\E r \in Request : response[r] = "accepted")
        ~> row.status \in {"processed", "failed"} \/ NeverClaimed \/ ClaimStranded

=============================================================================

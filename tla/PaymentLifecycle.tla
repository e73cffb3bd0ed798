-------------------------- MODULE PaymentLifecycle --------------------------
(***************************************************************************)
(* The life of one payment row: it is created by a charge, an              *)
(* authorization, a redirect checkout or a local record, captured or       *)
(* voided by SettleAuthorizationAction, moved by webhook events and by     *)
(* redirect callbacks, closed by ReconcileUnsettledCheckoutAction, and     *)
(* expires.                                                                *)
(*                                                                         *)
(* In a checkout the row carries the id of the session until a callback    *)
(* rebinds it to the transaction of one of the customer's attempts to pay. *)
(* The providers that report through callbacks send no webhooks.           *)
(*                                                                         *)
(* A webhook transaction reads the row without a lock and later updates it *)
(* without a condition; a callback reads it FOR UPDATE; a settlement       *)
(* compares and swaps on the status.  How these meet depends on the store: *)
(* "serial" runs one transaction at a time (SQLite), "locking" locks rows  *)
(* read FOR UPDATE (Knex on PostgreSQL and MySQL), "plain" locks none      *)
(* (Prisma).                                                               *)
(*                                                                         *)
(* Capture and void share one idempotency claim per payment.  The claim is *)
(* what Idempotency shows of it: one runner, kept by a process that died   *)
(* (this execution never reclaims a processing record).  It makes the      *)
(* distributed lock, which has the same identity, uncontended.             *)
(***************************************************************************)
EXTENDS Integers, FiniteSets, PaymentMachine, PaymentReports

CONSTANTS
    Call,       \* calls of capture(), void(), and of the local succeed(), void()
    Amount,     \* payment.amount
    Modes,      \* stores, providers and kinds of payment to consider
    MaxReports, \* bound on the statuses reported while the payment is pending
    MaxAttempts,\* bound on the transactions the customer tries in one checkout
    MaxFaults   \* bound on processes that die and writes that throw

ASSUME LifecycleAssumption ==
    /\ Amount \in Nat \ {0}
    /\ MaxReports \in Nat /\ MaxFaults \in Nat /\ MaxAttempts \in Nat \ {0}
    /\ Modes \subseteq [store : {"serial", "locking", "plain"},
                        native : BOOLEAN,
                        kind : {"charge", "authorize", "checkout", "local"}]

VARIABLES
    payment,    \* the row, and the transaction its id names: 0 is the session
    provider,   \* the payment at the provider, its last transaction, what it
                \* captured, on which request
    emitted,    \* events the provider has sent
    event,      \* where the processing of each of these events is
    callback,   \* the redirect callback of each transaction: its place and status
    opener,     \* the charge, authorization or checkout: its place, and the answer
    sweep,      \* the place of the reconciliation of the unsettled checkout
    call,       \* where each call is, and its local variables
    claim,      \* the idempotency record of capture and void
    expired,    \* authorizationExpiresAt has passed
    asked,      \* captures and voids sent to the provider
    mode,       \* the member of Modes the system runs in, never changed
    faults

others == <<callback, opener, sweep, expired, faults>>
paymentVars == <<payment, provider, emitted, event, callback, opener, sweep, call, claim,
          expired, asked, mode, faults>>

Transaction == 1..MaxAttempts

\* No status leads back to "pending", so that such a report says nothing
Reported == {"processing", "authorized", "succeeded", "failed", "canceled"}

\* The events, one for each status, and the success of a charge that is not captured
Event == Reported \cup {"uncaptured"}
StatusIn(e) == IF e = "uncaptured" THEN "succeeded" ELSE e

Operation == {"capture", "void", "succeed", "cancel", "none"}

\* A request of capture() or void(), or of a local transition
Request == [op : Operation, amount : 0..Amount]
Nothing == [op |-> "none", amount |-> 0]
Requests ==
    IF mode.kind = "local"
    THEN [op : {"succeed", "cancel"}, amount : {0}]
    ELSE [op : {"capture"}, amount : 1..Amount] \cup [op : {"void"}, amount : {0}]

Idle == [pc |-> "idle", request |-> Nothing, amount |-> 0]
Ended == [Idle EXCEPT !.pc = "ended"]

OpenerDone == [pc |-> "done", answer |-> "none"]
CallbackDone == [pc |-> "done", result |-> "none"]

PaymentInit ==
    /\ payment = [status |-> "absent", id |-> 0, authorizedAt |-> FALSE, captured |-> 0]
    /\ provider = [state |-> "none", transaction |-> 0, captured |-> 0, settledBy |-> Nothing]
    /\ emitted = {}
    /\ event = [e \in Event |-> "waiting"]
    /\ callback = [t \in Transaction |-> [pc |-> "idle", result |-> "none"]]
    /\ opener = [pc |-> "idle", answer |-> "none"]
    /\ sweep = "idle"
    /\ call = [c \in Call |-> Idle]
    /\ claim = [status |-> "free", request |-> Nothing]
    /\ expired = FALSE
    /\ asked = 0
    /\ mode \in Modes
    /\ faults = 0

-----------------------------------------------------------------------------
\* Transactions

\* Transactions that read the row FOR UPDATE and have not committed
HoldsRow ==
    \/ \E t \in Transaction : callback[t].pc = "writing"
    \/ \E c \in Call : call[c].pc = "local_writing"

\* A serial store lets nothing in while a transaction is open
CanRead ==
    mode.store = "serial" =>
        ~HoldsRow /\ \A e \in Event : event[e] # "writing"

\* A write, or a read FOR UPDATE, also waits for the lock of the row
CanLock == CanRead /\ (mode.store = "locking" => ~HoldsRow)

-----------------------------------------------------------------------------
\* The provider

\* What the events say that a happening causes
Tells(e, happening) ==
    \E type \in EventsOf(happening) :
        /\ StatusIn(e) \in ReportOf(type)
        /\ e = "uncaptured" <=> type = "charge.succeeded" /\ happening = "authorized"

\* All of them are sent; one that never reaches the inbox is like one that is never
\* processed
Sends(happening) == emitted' = emitted \cup {e \in Event : Tells(e, happening)}

\* The provider moves on its own: a customer confirms or fails, a bank answers,
\* an authorization lapses
ProviderMoves ==
    /\ mode.kind \in {"charge", "authorize"}
    /\ \/ /\ provider.state = "pending" /\ mode.kind = "authorize"
          /\ provider' = [provider EXCEPT !.state = "authorized"]
          /\ Sends("authorized")
       \/ /\ provider.state = "pending" /\ mode.kind = "charge"
          /\ provider' = [provider EXCEPT !.state = "captured", !.captured = Amount]
          /\ Sends("captured")
       \/ /\ provider.state = "pending" /\ Cardinality(emitted) < MaxReports
          /\ Sends("attempted") \/ Sends("declined")
          /\ UNCHANGED provider
       \/ /\ provider.state \in {"pending", "authorized"}
          /\ provider' = [provider EXCEPT !.state = "closed"]
          /\ Sends("closed")
    /\ UNCHANGED <<payment, event, call, claim, asked, others>>

\* A customer tries to pay in a checkout, again after a transaction was declined,
\* or gives up; a bank answers at once or later
CustomerPays ==
    /\ mode.kind = "checkout"
    /\ \E state \in {"pending", "captured", "declined", "closed"} :
          provider' =
              [provider EXCEPT
                  !.state = state,
                  !.captured = IF state = "captured" THEN Amount ELSE 0,
                  !.transaction = @ + (IF provider.state = "pending" THEN 0 ELSE 1)]
    /\ \/ provider.state = "pending" /\ provider'.state # "pending"
       \/ provider.state \in {"open", "declined"} /\ provider.transaction < MaxAttempts
    /\ UNCHANGED <<payment, emitted, event, call, claim, asked, others>>

\* What became of a transaction: a checkout goes on only after it was declined
StateOf(t) == IF t < provider.transaction THEN "declined" ELSE provider.state

-----------------------------------------------------------------------------
\* ChargeAction, AuthorizePaymentAction, LocalPaymentActions.record

\* provider.charge() or provider.authorize(); asked again with the same
\* idempotency key, a provider that honours it gives its first answer
AskProvider ==
    LET Answers(state, answers, happening) ==
            /\ \E answer \in answers : opener' = [pc |-> "answered", answer |-> answer]
            /\ provider' = [provider EXCEPT !.state = state, !.transaction = 1,
                            !.captured = IF state = "captured" THEN Amount ELSE 0]
            /\ Sends(happening) \/ (state = "pending" /\ UNCHANGED emitted)
    IN  /\ opener.pc = "idle" /\ mode.kind \in {"charge", "authorize"}
        /\ \/ /\ opener.answer = "none" /\ mode.kind = "charge"
              /\ \/ Answers("captured", ChargeAnswers("captured"), "captured")
                 \/ Answers("pending", ChargeAnswers("pending"), "none")
           \/ /\ opener.answer = "none" /\ mode.kind = "authorize"
              /\ \/ Answers("authorized", AuthorizeAnswers("authorized"), "authorized")
                 \/ Answers("pending", AuthorizeAnswers("pending"), "none")
           \/ /\ opener.answer # "none"
              /\ opener' = [opener EXCEPT !.pc = "answered"]
              /\ UNCHANGED <<provider, emitted>>
        /\ UNCHANGED <<payment, event, callback, sweep, call, claim, expired, asked, faults>>

Created(status) ==
    [status |-> status, id |-> IF mode.kind = "checkout" THEN 0 ELSE 1,
     authorizedAt |-> status = "authorized", captured |-> 0]

\* findByProviderId, and create unless the row is found: an earlier run may
\* have written it and lost the acknowledgement
CreatePayment ==
    /\ opener.pc = "answered" /\ mode.kind # "checkout" /\ CanRead
    /\ payment' = IF payment.status = "absent" THEN Created(opener.answer) ELSE payment
    /\ opener' = OpenerDone
    /\ UNCHANGED <<provider, emitted, event, callback, sweep, call, claim, expired, asked, faults>>

\* create throws, before or after it took effect, or the answer of the provider
\* was lost; the failed execution is run again when the provider honours its
\* idempotency key, and a checkout replays the session its execution recorded
CreateThrows ==
    /\ opener.pc = "answered" /\ CanRead /\ faults < MaxFaults
    /\ payment' \in {payment,
                      IF payment.status = "absent" THEN Created(opener.answer) ELSE payment}
    /\ opener' = IF mode.native \/ mode.kind = "checkout"
                 THEN [opener EXCEPT !.pc = "idle"] ELSE OpenerDone
    /\ faults' = faults + 1
    /\ UNCHANGED <<provider, emitted, event, callback, sweep, call, claim, expired, asked>>

\* A local payment is recorded with the status its collector gives
RecordLocal ==
    /\ opener.pc = "idle" /\ mode.kind = "local"
    /\ \E status \in {"pending", "succeeded"} : payment' = Created(status)
    /\ opener' = OpenerDone
    /\ UNCHANGED <<provider, emitted, event, callback, sweep, call, claim, expired, asked, faults>>

-----------------------------------------------------------------------------
\* RedirectCheckoutBuilder

\* CreateCheckoutSessionAction: the session is opened once, then replayed
OpenSession ==
    /\ opener.pc = "idle" /\ mode.kind = "checkout"
    /\ opener' = [pc |-> "answered", answer |-> "pending"]
    /\ provider' = IF opener.answer = "none" THEN [provider EXCEPT !.state = "open"] ELSE provider
    /\ UNCHANGED <<payment, emitted, event, callback, sweep, call, claim, expired, asked, faults>>

\* recordPendingPayment: create, unless a row carries the session.  A row that a
\* callback has rebound no longer does: a second one is then created, which is
\* not modelled
RecordSession ==
    /\ opener.pc = "answered" /\ mode.kind = "checkout" /\ CanRead
    /\ payment' = IF payment.status = "absent" THEN Created("pending") ELSE payment
    /\ opener' = OpenerDone
    /\ UNCHANGED <<provider, emitted, event, callback, sweep, call, claim, expired, asked, faults>>

-----------------------------------------------------------------------------
\* ProcessWebhookPipeline, reconcileWebhookPayment

\* isSupersededAuthorization: a late authorization does not revive a failed one.  It
\* compares the ids too: the row was found by this one, unless it carries a session,
\* and then it was never authorized
MutSupersededNever(p, s) == FALSE
Superseded(p, s) == s = "authorized" /\ p.status = "failed" /\ p.authorizedAt

\* tryTransitionTo accepts the status that comes in
MutAcceptsAny(p, s) == p.status # "absent" /\ p.status # s
Accepts(p, s) == p.status # "absent" /\ ~Superseded(p, s) /\ MovesTo(p.status, s)

Moved(p, s) ==
    [p EXCEPT !.status = s, !.authorizedAt = @ \/ s = "authorized"]

\* findByProviderId in the transaction of the pipeline, and the decision; an event
\* that is not accepted changes nothing, as one that is processed later or never
ReadEvent(e) ==
    /\ event[e] # "writing" /\ e \in emitted /\ CanRead
    /\ Accepts(payment, StatusIn(e))
    /\ event' = [event EXCEPT ![e] = "writing"]
    /\ UNCHANGED <<payment, provider, emitted, call, claim, asked, others>>

\* payments.update, without a condition, and the commit.  The event may be processed
\* again: after a commit that was not acknowledged, or when it is replayed.  One
\* of them is remembered, see UncapturedCounted.
WriteEvent(e) ==
    /\ event[e] = "writing"
    /\ mode.store = "locking" => ~HoldsRow
    /\ payment' = Moved(payment, StatusIn(e))
    /\ event' = [event EXCEPT ![e] = IF e = "uncaptured" THEN "written" ELSE "waiting"]
    /\ UNCHANGED <<provider, emitted, call, claim, asked, others>>

-----------------------------------------------------------------------------
\* ReconcileRedirectPaymentAction

\* handleRedirectCallback: the provider is asked about the transaction; a callback
\* that throws or reports "pending" is like none
HandleRedirect(t) ==
    /\ callback[t].pc = "idle" /\ t <= provider.transaction
    /\ \E status \in CallbackReport(StateOf(t)) \cap Reported :
           callback' = [callback EXCEPT ![t] = [pc |-> "answered", result |-> status]]
    /\ UNCHANGED <<payment, provider, emitted, event, opener, sweep, call, claim, expired,
                   asked, faults>>

\* findByProviderId with the transaction, then with the session
FindRedirect(t) ==
    /\ callback[t].pc = "answered" /\ CanRead
    /\ callback' = [callback EXCEPT ![t] =
           IF payment.status # "absent" /\ payment.id \in {0, t}
           THEN [@ EXCEPT !.pc = "found"] ELSE CallbackDone]
    /\ UNCHANGED <<payment, provider, emitted, event, opener, sweep, call, claim, expired,
                   asked, faults>>

\* findByIdForUpdate in a transaction, and the decision
ReadRedirect(t) ==
    /\ callback[t].pc = "found" /\ CanLock
    /\ callback' = [callback EXCEPT ![t] =
           IF Accepts(payment, @.result) THEN [@ EXCEPT !.pc = "writing"] ELSE CallbackDone]
    /\ UNCHANGED <<payment, provider, emitted, event, opener, sweep, call, claim, expired,
                   asked, faults>>

\* The update rebinds the row to the transaction
MutRebindNever(t) == payment.id
Rebind(t) == t

WriteRedirect(t) ==
    /\ callback[t].pc = "writing"
    /\ payment' = [Moved(payment, callback[t].result) EXCEPT !.id = Rebind(t)]
    /\ callback' = [callback EXCEPT ![t] = CallbackDone]
    /\ UNCHANGED <<provider, emitted, event, opener, sweep, call, claim, expired, asked, faults>>

-----------------------------------------------------------------------------
\* ReconcileUnsettledCheckoutAction

\* owned: the row that carries the session
FindSession ==
    /\ sweep = "idle" /\ mode.kind = "checkout" /\ CanRead
    /\ payment.status # "absent"
    /\ sweep' = IF payment.id = 0 THEN "asking" ELSE "done"
    /\ UNCHANGED <<payment, provider, emitted, event, callback, opener, call, claim, expired,
                   asked, faults>>

\* The booking has no transaction, and all of it is unpaid
SettledNothing == provider.transaction = 0

\* provider.reconcileCheckoutSession
AskSession ==
    /\ sweep = "asking"
    /\ sweep' = IF SettledNothing THEN "closing" ELSE "done"
    /\ UNCHANGED <<payment, provider, emitted, event, callback, opener, call, claim, expired,
                   asked, faults>>

\* close: the row that was read again, and its compare and swap
MutStillUnsettledAlways == TRUE
StillUnsettled == payment.id = 0 /\ payment.status = "pending"

CloseUnsettled ==
    /\ sweep = "closing" /\ CanLock
    /\ payment' = IF StillUnsettled THEN [payment EXCEPT !.status = "failed"] ELSE payment
    /\ sweep' = "done"
    /\ UNCHANGED <<provider, emitted, event, callback, opener, call, claim, expired, asked, faults>>

-----------------------------------------------------------------------------
\* SettleAuthorizationAction

GoTo(c, pc) ==
    call' = [call EXCEPT ![c] = IF pc = "ended" THEN Ended ELSE [@ EXCEPT !.pc = pc]]

\* The claim is free, or failed in a run of the same request that a provider
\* with native idempotency lets the service repeat
MutGrantedOnFailure(request) ==
    claim.status = "free" \/ (claim.status = "failed" /\ claim.request = request)
Granted(request) ==
    \/ claim.status = "free"
    \/ claim.status = "failed" /\ claim.request = request /\ mode.native

\* handle: findById, the checks that do not look at the status, and
\* idempotency.execute: run, or else replay, conflict, in progress, reconcile
SettleAuthorization(c) ==
    /\ call[c].pc = "idle" /\ mode.kind \in {"charge", "authorize"}
    /\ payment.status # "absent" /\ CanRead
    /\ \E request \in Requests :
           \/ /\ Granted(request)
              /\ claim' = [status |-> "processing", request |-> request]
              /\ call' = [call EXCEPT ![c] = [pc |-> "checking", request |-> request,
                                             amount |-> 0]]
           \/ /\ ~Granted(request)
              /\ UNCHANGED claim /\ GoTo(c, "ended")
    /\ UNCHANGED <<payment, provider, emitted, event, asked, others>>

\* mutate: findById and validate, inside the lock
CheckAuthorized(c) ==
    /\ call[c].pc = "checking" /\ CanRead
    /\ GoTo(c, IF payment.status # "authorized" THEN "failing"
               ELSE IF expired THEN "expiring" ELSE "asking")
    /\ UNCHANGED <<payment, provider, emitted, event, claim, asked, others>>

\* updateStatusIfUnchanged finds the status it expects
MutStillAuthorizedAlways == TRUE
StillAuthorized == payment.status = "authorized"

\* validate: the authorization window has passed
ExpireAuthorization(c) ==
    /\ call[c].pc = "expiring" /\ CanLock
    /\ payment' = IF StillAuthorized THEN [payment EXCEPT !.status = "failed"] ELSE payment
    /\ GoTo(c, "failing")
    /\ UNCHANGED <<provider, emitted, event, claim, asked, others>>

\* provider.capture or provider.void take effect on a live authorization
TakesEffect(c) ==
    LET request == call[c].request
    IN  /\ provider.state = "authorized"
        /\ IF request.op = "capture"
           THEN /\ \E amount \in 1..request.amount :
                       provider' = [provider EXCEPT !.state = "captured",
                                        !.captured = amount, !.settledBy = request]
                /\ Sends("captured")
           ELSE /\ provider' = [provider EXCEPT !.state = "closed", !.settledBy = request]
                /\ Sends("closed")

\* ... and a provider with native idempotency repeats its answer
Repeats(c) ==
    /\ mode.native /\ provider.settledBy = call[c].request
    /\ UNCHANGED <<provider, emitted>>

\* Where a run goes whose answer is not the status it expects
MutUnknownOutcomeTrusted(c) == "settling"
UnknownOutcome(c) == "failing"

\* The answer is the expected one, with the amount captured, or another or an
\* error, whether or not the provider acted
AskSettlement(c) ==
    /\ call[c].pc = "asking"
    /\ asked' = asked + 1
    /\ \/ /\ TakesEffect(c) \/ Repeats(c)
          /\ call' = [call EXCEPT ![c].pc = "settling", ![c].amount = provider'.captured]
       \/ /\ TakesEffect(c) \/ UNCHANGED <<provider, emitted>>
          /\ GoTo(c, UnknownOutcome(c))
    /\ UNCHANGED <<payment, event, claim, others>>

\* The transaction of mutate: compare and swap, audit entry
MutSettledAmountRequested(c) == call[c].request.amount
SettledAmount(c) ==
    IF call[c].request.op = "capture" THEN call[c].amount ELSE payment.captured

Settled(c) ==
    [payment EXCEPT
        !.status = IF call[c].request.op = "capture" THEN "succeeded" ELSE "canceled",
        !.captured = SettledAmount(c)]

SettlePayment(c) ==
    /\ call[c].pc = "settling" /\ CanLock
    /\ IF StillAuthorized
       THEN payment' = Settled(c) /\ GoTo(c, "completing")
       ELSE UNCHANGED payment /\ GoTo(c, "failing")
    /\ UNCHANGED <<provider, emitted, event, claim, asked, others>>

\* The transaction throws, before or after it committed
SettleThrows(c) ==
    /\ call[c].pc = "settling" /\ CanLock /\ faults < MaxFaults
    /\ payment' \in {payment, IF StillAuthorized THEN Settled(c) ELSE payment}
    /\ GoTo(c, "failing")
    /\ faults' = faults + 1
    /\ UNCHANGED <<provider, emitted, event, callback, opener, sweep, claim, expired, asked>>

\* markCompleted or markFailed closes the claim
CloseClaim(c) ==
    /\ call[c].pc \in {"completing", "failing"} /\ CanRead
    /\ claim' = [claim EXCEPT
           !.status = IF call[c].pc = "completing" THEN "completed" ELSE "failed"]
    /\ GoTo(c, "ended")
    /\ UNCHANGED <<payment, provider, emitted, event, asked, others>>

\* The record of a failure that may be retried lasts failedTtlMs; the others
\* outlast what is modelled here
ForgetFailure ==
    /\ claim.status = "failed" /\ mode.native
    /\ claim' = [status |-> "free", request |-> Nothing]
    /\ UNCHANGED <<payment, provider, emitted, event, call, asked, others>>

-----------------------------------------------------------------------------
\* LocalPaymentActions.transition

\* findByIdForUpdate in a transaction, and the status check
ReadLocal(c) ==
    /\ call[c].pc = "idle" /\ mode.kind = "local"
    /\ payment.status # "absent" /\ CanLock
    /\ \E request \in Requests :
           call' = [call EXCEPT ![c] =
               IF payment.status = "pending"
               THEN [Idle EXCEPT !.pc = "local_writing", !.request = request]
               ELSE Ended]
    /\ UNCHANGED <<payment, provider, emitted, event, claim, asked, others>>

\* payments.update, the outbox row and the commit
WriteLocal(c) ==
    /\ call[c].pc = "local_writing"
    /\ payment' = [payment EXCEPT
           !.status = IF call[c].request.op = "succeed" THEN "succeeded" ELSE "canceled"]
    /\ GoTo(c, "ended")
    /\ UNCHANGED <<provider, emitted, event, callback, opener, sweep, claim, expired, asked, faults>>

-----------------------------------------------------------------------------
\* Time and failures

AuthorizationExpires ==
    /\ mode.kind = "authorize" /\ payment.status # "absent" /\ ~expired
    /\ expired' = TRUE
    /\ UNCHANGED <<payment, provider, emitted, event, callback, opener, sweep, call,
                   claim, asked, faults>>

\* A process dies, and its open transaction is rolled back: a settlement keeps
\* the claim, an event is taken from the queue again, a callback is lost
ProcessDies ==
    /\ faults < MaxFaults
    /\ faults' = faults + 1
    /\ \/ /\ \E c \in Call : call[c].pc \notin {"idle", "ended"} /\ GoTo(c, "ended")
          /\ UNCHANGED <<event, callback, opener>>
       \/ /\ \E e \in Event : event[e] = "writing" /\ event' = [event EXCEPT ![e] = "waiting"]
          /\ UNCHANGED <<call, callback, opener>>
       \/ /\ \E t \in Transaction :
                 /\ callback[t].pc \in {"answered", "found", "writing"}
                 /\ callback' = [callback EXCEPT ![t] = CallbackDone]
          /\ UNCHANGED <<call, event, opener>>
       \/ /\ opener.pc = "answered"
          /\ opener' = OpenerDone
          /\ UNCHANGED <<call, event, callback>>
    /\ UNCHANGED <<payment, provider, emitted, sweep, claim, expired, asked>>

PaymentNext ==
    /\ UNCHANGED mode
    /\ \/ ProviderMoves \/ CustomerPays
       \/ AskProvider \/ CreatePayment \/ CreateThrows \/ RecordLocal
       \/ OpenSession \/ RecordSession
       \/ \E e \in Event : ReadEvent(e) \/ WriteEvent(e)
       \/ \E t \in Transaction :
              HandleRedirect(t) \/ FindRedirect(t) \/ ReadRedirect(t) \/ WriteRedirect(t)
       \/ FindSession \/ AskSession \/ CloseUnsettled
       \/ \E c \in Call :
              \/ SettleAuthorization(c) \/ CheckAuthorized(c)
              \/ ExpireAuthorization(c) \/ AskSettlement(c) \/ SettlePayment(c)
              \/ SettleThrows(c) \/ CloseClaim(c)
              \/ ReadLocal(c) \/ WriteLocal(c)
       \/ ForgetFailure \/ AuthorizationExpires \/ ProcessDies

PaymentSpec == PaymentInit /\ [][PaymentNext]_paymentVars

-----------------------------------------------------------------------------
\* The one exception to what follows: the event of a charge that is authorized and not
\* captured, which Stripe and its adapter call succeeded, was written to the row
UncapturedCounted == event["uncaptured"] = "written"

\* The row is never ahead of the provider: it is collected only if the provider
\* collected, or said so of a charge it had only authorized, and then names the
\* transaction that did; it is voided only if the provider gave up, and its
\* capturedAmount is zero or what the provider captured, also when that is less than
\* a call asked for; whatever answers get lost and whichever of the writers comes last.
RowFollowsProvider ==
    /\ mode.kind # "local" =>
           /\ payment.status = "succeeded" =>
                  /\ payment.id = provider.transaction
                  /\ provider.state = "captured" \/ UncapturedCounted
           /\ payment.status = "canceled" => provider.state = "closed"
    /\ payment.captured \in {0, provider.captured}

\* A provider without idempotency keys is asked to capture or void at most once,
\* whatever threw, died or was tried again under another reference.
UncertainIsAskedOnce == ~mode.native => asked <= 1

\* Whatever calls, events and callbacks meet, the row moves along the table only
\* and a failed authorization is not revived by a late event: on a store that
\* runs one transaction at a time, and, on one that locks the row they read, for
\* local payments, which are then succeeded or voided but not both, and for
\* checkouts, whose attempts and sweep do not undo one another.
MovesAlongTable ==
    [][(/\ \/ mode.store = "serial"
           \/ mode.store = "locking" /\ mode.kind \in {"local", "checkout"}
        /\ payment.status # "absent" /\ payment' # payment) =>
          /\ MovesTo(payment.status, payment'.status)
          /\ payment.status = "failed" /\ payment.authorizedAt
                => payment'.status # "authorized"]_paymentVars

=============================================================================

------------------------------ MODULE Refunds ------------------------------
(***************************************************************************)
(* Refunds of one recorded payment.  Provider refunds (RefundPaymentAction)*)
(* reserve capacity on the payment row, call the provider, then settle or  *)
(* release the reservation; local refunds (LocalRefundActions) record a    *)
(* return that already happened elsewhere.  Both change the payment by     *)
(* compare-and-swap on refundedAmount inside a transaction.                *)
(*                                                                         *)
(* Every call owns at most one refund row, so a row is named by its call.  *)
(* A call takes one step per awaited statement.  In a locking mode a       *)
(* transaction holds the payment row from its read to its commit (Knex on  *)
(* PostgreSQL and MySQL), otherwise two transactions may read the same row *)
(* (Prisma reads without a lock).                                          *)
(***************************************************************************)
EXTENDS Integers, FiniteSetsExt, PaymentMachine

CONSTANTS
    Call,                   \* calls of refund() on the payment
    LocalCall,              \* calls of refundLocal()
    Amount,                 \* payment.amount, in minor units
    Requests,               \* values of input.amount; Omitted for none
    Omitted,
    MaxReservationAttempts, \* MAX_RESERVATION_ATTEMPTS
    MaxReleaseAttempts,     \* MAX_RELEASE_ATTEMPTS
    Modes,                  \* stores and providers to consider
    MaxCrashes              \* bound on the processes that die

ASSUME CallAssumption ==
    /\ Call \cap LocalCall = {}
    /\ IsFiniteSet(Call) /\ IsFiniteSet(LocalCall)
ASSUME AmountAssumption ==
    /\ Amount \in Nat \ {0}
    /\ Omitted \notin Nat
    /\ Requests \subseteq (Nat \ {0}) \cup {Omitted}
ASSUME AttemptAssumption ==
    /\ MaxReservationAttempts \in Nat \ {0}
    /\ MaxReleaseAttempts \in Nat \ {0}
    /\ MaxCrashes \in Nat
\* locking: findByIdForUpdate locks the row
\* unknownOutcomes: the provider may refund and still throw
ASSUME ModesAssumption ==
    Modes \subseteq [locking : BOOLEAN, unknownOutcomes : BOOLEAN]

Caller == Call \cup LocalCall

VARIABLES
    payment,    \* the row's status and refundedAmount
    refund,     \* the refund row of each call
    call,       \* where each call is, and its local variables
    returned,   \* what the customer got back through each call
    mode,       \* the member of Modes the system runs in, never changed
    crashes

vars == <<payment, refund, call, returned, mode, crashes>>

RefundStatus == {"pending", "succeeded", "failed", "canceled"}
Payment == [status : {"succeeded", "partially_refunded", "refunded"},
            refundedAmount : Nat]
Refund == [status : RefundStatus \cup {"none"}, amount : Nat,
           providerKnown : BOOLEAN]
Control == {"idle", "checking", "reserving", "reserve_txn", "calling", "answered",
            "releasing", "release_txn", "recording", "record_txn", "ended"}
\* answer: the provider's reply, "threw" and "mismatch" besides the statuses
Answer == RefundStatus \cup {"none", "threw", "mismatch", "unrecognised"}
CallState == [pc : Control, wanted : Requests \cup {Omitted}, seen : Payment,
              attempts : Nat, answer : Answer]

NoRefund == [status |-> "none", amount |-> 0, providerKnown |-> FALSE]

Remaining(p) == Amount - p.refundedAmount

\* input.amount?.amount() ?? remaining
Asked(c, p) == IF call[c].wanted = Omitted THEN Remaining(p) ELSE call[c].wanted

\* PaymentStatus once a refund brought refundedAmount to n
StatusAfterRefund(n) == IF n >= Amount THEN "refunded" ELSE "partially_refunded"

\* ... and the event that takes the payment there
EventAfterRefund(n) == IF n >= Amount THEN "refund" ELSE "partially_refund"

\* PaymentStatus once a released reservation left n refunded
StatusAfterRelease(n) == IF n <= 0 THEN "succeeded" ELSE "partially_refunded"

Init ==
    /\ payment = [status |-> "succeeded", refundedAmount |-> 0]
    /\ refund = [c \in Caller |-> NoRefund]
    /\ call = [c \in Caller |->
                  [pc |-> "idle", wanted |-> Omitted, seen |-> payment,
                   attempts |-> 0, answer |-> "none"]]
    /\ returned = [c \in Caller |-> 0]
    /\ mode \in Modes
    /\ crashes = 0

GoTo(c, pc) == call' = [call EXCEPT ![c].pc = pc]

InTransaction(c) == call[c].pc \in {"reserve_txn", "release_txn", "record_txn"}

\* findByIdForUpdate: the transaction opens with a read of the row
ReadForUpdate(c, pc) ==
    /\ mode.locking => ~ \E d \in Caller : InTransaction(d)
    /\ call' = [call EXCEPT ![c].pc = pc, ![c].seen = payment]

\* updateRefundedAmountIfUnchanged: the row it writes, if it still matches
MutUnchangedStatus(c) == payment.status = call[c].seen.status
Unchanged(c) == payment.refundedAmount = call[c].seen.refundedAmount

-----------------------------------------------------------------------------
\* RefundPaymentAction

Refundable(p) == p.status \in {"succeeded", "partially_refunded"}

\* handle: findById, and the status check
RefundPayment(c) ==
    \E wanted \in Requests :
        /\ call[c].pc = "idle"
        /\ call' = [call EXCEPT ![c].pc = IF Refundable(payment) THEN "checking" ELSE "ended",
                                ![c].wanted = wanted,
                                ![c].seen = payment]
        /\ UNCHANGED <<payment, refund, returned, crashes>>

\* handle: listByPayment and the checks before the reservation, which use the
\* payment read before
CheckPending(c) ==
    LET accepted == /\ \A d \in Caller : refund[d].status # "pending"
                    /\ Remaining(call[c].seen) > 0
                    /\ Asked(c, call[c].seen) <= Remaining(call[c].seen)
    IN  /\ call[c].pc = "checking"
        /\ GoTo(c, IF accepted THEN "reserving" ELSE "ended")
        /\ UNCHANGED <<payment, refund, returned, crashes>>

\* tryReserve, first statement
StartReserve(c) ==
    /\ call[c].pc = "reserving"
    /\ ReadForUpdate(c, "reserve_txn")
    /\ UNCHANGED <<payment, refund, returned, crashes>>

\* tryReserve, the rest of the transaction: refuse, lose the race and try
\* again while attempts last, or hold the amount and create the pending row
Reserve(c) ==
    LET p == call[c].seen
        requested == Asked(c, p)
        total == p.refundedAmount + requested
        accepted == /\ Remaining(p) > 0
                    /\ requested <= Remaining(p)
                    /\ Can(p.status, EventAfterRefund(total))
    IN  /\ call[c].pc = "reserve_txn"
        /\ UNCHANGED <<returned, crashes>>
        /\ \/ /\ ~accepted
              /\ GoTo(c, "ended")
              /\ UNCHANGED <<payment, refund>>
           \/ /\ accepted /\ Unchanged(c)
              /\ payment' = [status |-> StatusAfterRefund(total), refundedAmount |-> total]
              /\ refund' = [refund EXCEPT ![c] =
                     [status |-> "pending", amount |-> requested, providerKnown |-> FALSE]]
              /\ call' = [call EXCEPT ![c].pc = "calling", ![c].attempts = 0]
           \/ /\ accepted /\ ~Unchanged(c)
              /\ call' = [call EXCEPT
                     ![c].pc = IF call[c].attempts + 1 < MaxReservationAttempts
                               THEN "reserving" ELSE "ended",
                     ![c].attempts = @ + 1]
              /\ UNCHANGED <<payment, refund>>

\* provider.refund: it refunds at once, accepts for later, or refuses; it may
\* answer for another amount or with a status the library does not know; it
\* may throw, before or (UnknownOutcomes) after it took effect
ProviderRefund(c) ==
    LET Answers(answer, amount) ==
            /\ call' = [call EXCEPT ![c].pc = "answered", ![c].answer = answer]
            /\ returned' = [returned EXCEPT ![c] = amount]
    IN  /\ call[c].pc = "calling"
        /\ \/ \E answer \in {"succeeded", "pending", "unrecognised"} :
                  Answers(answer, refund[c].amount)
           \/ \E answer \in {"failed", "canceled", "threw"} : Answers(answer, 0)
           \/ \E amount \in 1..Amount :
                  amount # refund[c].amount /\ Answers("mismatch", amount)
           \/ mode.unknownOutcomes /\ Answers("threw", refund[c].amount)
        /\ UNCHANGED <<payment, refund, crashes>>

\* assertRefundResponse fails: the row keeps the provider's id and waits; a
\* status resolveInitialRefundStatus rejects leaves it untouched
RejectResponse(c) ==
    /\ call[c].pc = "answered"
    /\ call[c].answer \in {"mismatch", "unrecognised"}
    /\ refund' = [refund EXCEPT ![c].providerKnown = @ \/ call[c].answer = "mismatch"]
    /\ GoTo(c, "ended")
    /\ UNCHANGED <<payment, returned, crashes>>

\* The closing transaction: the status the provider gave, and the audit entry
Finalize(c) ==
    /\ call[c].pc = "answered"
    /\ call[c].answer \in {"pending", "succeeded"}
    /\ refund' = [refund EXCEPT ![c].status = call[c].answer, ![c].providerKnown = TRUE]
    /\ GoTo(c, "ended")
    /\ UNCHANGED <<payment, returned, crashes>>

\* releaseRefundReservation, entered on a throw or a refusal
MutBeginReleaseUnlessSucceeded(c) ==
    /\ call[c].pc = "answered"
    /\ call[c].answer \in {"threw", "failed", "canceled", "pending"}
    /\ GoTo(c, "releasing")
    /\ UNCHANGED <<payment, refund, returned, crashes>>
BeginRelease(c) ==
    /\ call[c].pc = "answered"
    /\ call[c].answer \in {"threw", "failed", "canceled"}
    /\ GoTo(c, "releasing")
    /\ UNCHANGED <<payment, refund, returned, crashes>>

StartRelease(c) ==
    /\ call[c].pc = "releasing"
    /\ ReadForUpdate(c, "release_txn")
    /\ UNCHANGED <<payment, refund, returned, crashes>>

\* refundPatch.status
ReleasedStatus(c) == IF call[c].answer = "canceled" THEN "canceled" ELSE "failed"

\* One attempt: give the amount back and close the row in one transaction;
\* a lost race is tried again, and the last one leaves the row pending
GivenBack(c) ==
    LET left == call[c].seen.refundedAmount - refund[c].amount
    IN  IF left > 0 THEN left ELSE 0

Patched(c, status) ==
    [refund EXCEPT ![c].status = status, ![c].providerKnown = @ \/ call[c].answer # "threw"]

Release(c) ==
    /\ call[c].pc = "release_txn"
    /\ UNCHANGED <<returned, crashes>>
    /\ \/ /\ Unchanged(c)
          /\ payment' = [status |-> StatusAfterRelease(GivenBack(c)),
                         refundedAmount |-> GivenBack(c)]
          /\ refund' = Patched(c, ReleasedStatus(c))
          /\ GoTo(c, "ended")
       \/ /\ ~Unchanged(c) /\ call[c].attempts + 1 < MaxReleaseAttempts
          /\ call' = [call EXCEPT ![c].pc = "releasing", ![c].attempts = @ + 1]
          /\ UNCHANGED <<payment, refund>>
       \/ /\ ~Unchanged(c) /\ call[c].attempts + 1 >= MaxReleaseAttempts
          /\ GoTo(c, "ended")
          /\ refund' = Patched(c, "pending")
          /\ UNCHANGED payment

-----------------------------------------------------------------------------
\* LocalRefundActions

\* record -> persist
RefundLocal(c) ==
    \E wanted \in Requests :
        /\ call[c].pc = "idle"
        /\ call' = [call EXCEPT ![c].pc = "recording", ![c].wanted = wanted]
        /\ UNCHANGED <<payment, refund, returned, crashes>>

StartRecord(c) ==
    /\ call[c].pc = "recording"
    /\ ReadForUpdate(c, "record_txn")
    /\ UNCHANGED <<payment, refund, returned, crashes>>

\* tryPersist: the row is born succeeded, with its audit entry and event
Record(c) ==
    LET p == call[c].seen
        amount == Asked(c, p)
        total == p.refundedAmount + amount
        accepted == /\ Refundable(p)
                    /\ amount > 0
                    /\ amount <= Remaining(p)
                    /\ Can(p.status, EventAfterRefund(total))
    IN  /\ call[c].pc = "record_txn"
        /\ UNCHANGED crashes
        /\ \/ /\ ~accepted
              /\ GoTo(c, "ended")
              /\ UNCHANGED <<payment, refund, returned>>
           \/ /\ accepted /\ Unchanged(c)
              /\ payment' = [status |-> StatusAfterRefund(total), refundedAmount |-> total]
              /\ refund' = [refund EXCEPT ![c] =
                     [status |-> "succeeded", amount |-> amount, providerKnown |-> FALSE]]
              /\ returned' = [returned EXCEPT ![c] = amount]
              /\ GoTo(c, "ended")
           \/ /\ accepted /\ ~Unchanged(c)
              /\ call' = [call EXCEPT
                     ![c].pc = IF call[c].attempts + 1 < MaxReservationAttempts
                               THEN "recording" ELSE "ended",
                     ![c].attempts = @ + 1]
              /\ UNCHANGED <<payment, refund, returned>>

-----------------------------------------------------------------------------
\* A process dies; its open transaction, if any, is rolled back
Crash(c) ==
    /\ crashes < MaxCrashes
    /\ call[c].pc \notin {"idle", "ended"}
    /\ GoTo(c, "ended")
    /\ crashes' = crashes + 1
    /\ UNCHANGED <<payment, refund, returned>>

Next ==
    /\ UNCHANGED mode
    /\ \/ \E c \in Call :
              \/ RefundPayment(c) \/ CheckPending(c)
              \/ StartReserve(c) \/ Reserve(c)
              \/ ProviderRefund(c) \/ RejectResponse(c) \/ Finalize(c)
              \/ BeginRelease(c) \/ StartRelease(c) \/ Release(c)
       \/ \E c \in LocalCall : RefundLocal(c) \/ StartRecord(c) \/ Record(c)
       \/ \E c \in Caller : Crash(c)

Spec == Init /\ [][Next]_vars

-----------------------------------------------------------------------------
Held(c) == IF refund[c].status \in {"pending", "succeeded"} THEN refund[c].amount ELSE 0

Consistent(p) ==
    /\ p.refundedAmount <= Amount
    /\ p.status = IF p.refundedAmount = 0 THEN "succeeded"
                  ELSE IF p.refundedAmount = Amount THEN "refunded"
                  ELSE "partially_refunded"

\* Types: the payment, the refund rows and the calls are well formed.
TypeOK ==
    /\ payment \in Payment
    /\ refund \in [Caller -> Refund]
    /\ call \in [Caller -> CallState]
    /\ returned \in [Caller -> Nat]
    /\ mode \in Modes
    /\ crashes \in 0..MaxCrashes

\* payments.refundedAmount is what the pending and succeeded refund rows hold:
\* whatever races, retries and dies between reserve, release and record, no
\* amount is held twice, given back twice or leaked.
LedgerIsSum ==
    payment.refundedAmount = MapThenSumSet(Held, Caller)

\* Refunds never hold more than the payment, and its status is the one that
\* belongs to what is held, also after a compare-and-swap that tests only the
\* amount wrote a status computed from an earlier read.
StatusFollowsLedger == Consistent(payment)

\* If a provider that throws has not refunded, the refunds recorded or awaiting
\* reconciliation cover what the customer got back, so that no more than the
\* payment is returned; only an answer for another amount escapes the ledger.
RefundsWithinPayment ==
    ~mode.unknownOutcomes =>
        /\ \A c \in Caller : call[c].answer # "mismatch" => returned[c] <= Held(c)
        /\ \A c \in Caller : refund[c].status = "succeeded" => returned[c] = refund[c].amount

\* A settled refund row is final: no retry of the release, late answer or other
\* call changes it.
SettledIsFinal ==
    [][\A c \in Caller :
          refund[c].status \in {"succeeded", "failed", "canceled"} =>
              refund'[c] = refund[c]]_vars

\* Once the payment is fully refunded by settled rows nothing changes it: no
\* release takes back money that has been returned.
FullRefundIsFinal ==
    [][(/\ payment.status = "refunded"
        /\ \A c \in Caller : refund[c].status # "pending")
           => payment' = payment]_vars

=============================================================================

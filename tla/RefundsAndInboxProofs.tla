----------------------- MODULE RefundsAndInboxProofs -----------------------
(***************************************************************************)
(* Proofs about Refunds: types, the agreement of status and amount, what   *)
(* the refund rows say about the money, and that settled rows are final,   *)
(* for any calls, amount, numbers of attempts, stores and providers.       *)
(*                                                                         *)
(* Then proofs about WebhookInbox: how often an event is processed, and    *)
(* who may work on it, for any requests, workers, operators, lengths of a  *)
(* claim and numbers of failures.                                          *)
(***************************************************************************)
EXTENDS Refunds, WebhookInbox, FiniteSetTheorems, WellFoundedInduction, TLAPS

Before == {"idle", "checking", "reserving", "reserve_txn", "recording", "record_txn"}
During == {"calling", "answered", "releasing", "release_txn"}
Refused == {"threw", "failed", "canceled"}
Granted == {"succeeded", "pending", "unrecognised"}

\* Where a call is tells the state of its row: none before the reservation,
\* pending until the call settles or releases it.
Place(c) ==
    /\ call[c].pc \in Before => refund[c].status = "none" /\ call[c].answer = "none"
    /\ call[c].pc \in During => refund[c].status = "pending"
    /\ call[c].pc = "calling" => call[c].answer = "none"
    /\ call[c].pc \in {"releasing", "release_txn"} => call[c].answer \in Refused
    /\ refund[c].status # "none" => refund[c].amount > 0

\* What the provider answered tells what the customer got back, and the row
\* is closed as failed or canceled only after a refusal.
Truth(c) ==
    /\ refund[c].status = "none" => returned[c] = 0
    /\ call[c].answer = "none" /\ refund[c].status # "succeeded" => returned[c] = 0
    /\ call[c].answer \in Refused => returned[c] = 0
    /\ call[c].answer \in Granted => returned[c] = refund[c].amount
    /\ refund[c].status = "succeeded" => returned[c] = refund[c].amount
    /\ refund[c].status \in {"failed", "canceled"} => call[c].answer \in Refused

RefundsInv ==
    /\ TypeOK
    /\ Consistent(payment)
    /\ \A c \in Caller : Consistent(call[c].seen) /\ Place(c)
    /\ ~mode.unknownOutcomes => \A c \in Caller : Truth(c)

-----------------------------------------------------------------------------
LEMMA InitRefunds == Init => RefundsInv
<1> SUFFICES ASSUME Init PROVE RefundsInv
  OBVIOUS
<1>1. payment \in Payment /\ Consistent(payment)
  BY AmountAssumption DEF Init, Payment, Consistent
<1>2. refund \in [Caller -> Refund]
  BY DEF Init, NoRefund, Refund, RefundStatus
<1>3. call \in [Caller -> CallState]
  BY <1>1 DEF Init, CallState, Control, Answer
<1>4. TypeOK
  BY <1>1, <1>2, <1>3, AttemptAssumption DEF Init, TypeOK
<1>5. ASSUME NEW c \in Caller
      PROVE  Consistent(call[c].seen) /\ Place(c) /\ Truth(c)
  BY <1>1 DEF Init, Place, Truth, NoRefund, Before, During, Refused, Granted
<1>6. QED
  BY <1>1, <1>4, <1>5 DEF RefundsInv

-----------------------------------------------------------------------------
\* A step of one call leaves what is said of the others alone.
LEMMA OneCall ==
    ASSUME RefundsInv, TypeOK', mode' = mode, Consistent(payment)', NEW c \in Caller,
           \A d \in Caller \ {c} :
               /\ call'[d] = call[d]
               /\ refund'[d] = refund[d]
               /\ returned'[d] = returned[d],
           Consistent(call[c].seen)', Place(c)', ~mode.unknownOutcomes => Truth(c)'
    PROVE  RefundsInv'
<1>1. ASSUME NEW d \in Caller
      PROVE  /\ Consistent(call[d].seen)' /\ Place(d)'
             /\ ~mode.unknownOutcomes => Truth(d)'
  <2>1. CASE d = c
    BY <2>1
  <2>2. CASE d # c
    BY <2>2 DEF RefundsInv, Place, Truth, Consistent
  <2>3. QED
    BY <2>1, <2>2
<1>2. QED
  BY <1>1 DEF RefundsInv

\* Only the place and the answer of a call are looked at, beside its last read.
LEMMA CallType ==
    ASSUME TypeOK, NEW c \in Caller
    PROVE  /\ call[c] \in CallState
           /\ refund[c] \in Refund
           /\ returned[c] \in Nat
           /\ payment.refundedAmount \in Nat
           /\ call[c].seen.refundedAmount \in Nat
           /\ mode.unknownOutcomes \in BOOLEAN
  BY ModesAssumption DEF TypeOK, CallState, Payment

\* What a call asks for is positive, and more than nothing remains.
LEMMA AskedType ==
    ASSUME TypeOK, NEW c \in Caller, NEW p \in Payment,
           Remaining(p) > 0, Asked(c, p) <= Remaining(p)
    PROVE  /\ Asked(c, p) \in Nat /\ Asked(c, p) > 0
           /\ p.refundedAmount + Asked(c, p) \in 1..Amount
<1>1. call[c].wanted \in (Nat \ {0}) \cup {Omitted} /\ p.refundedAmount \in Nat
  BY AmountAssumption DEF TypeOK, CallState, Payment
<1>2. QED
  BY <1>1, AmountAssumption DEF Asked, Remaining

\* The payment that a reservation, a record or a release writes.
LEMMA WrittenByRefund ==
    ASSUME NEW n \in 1..Amount
    PROVE  LET p == [status |-> StatusAfterRefund(n), refundedAmount |-> n]
           IN  p \in Payment /\ Consistent(p)
  BY AmountAssumption DEF StatusAfterRefund, Payment, Consistent

LEMMA WrittenByRelease ==
    ASSUME NEW n \in Nat, n < Amount
    PROVE  LET p == [status |-> StatusAfterRelease(n), refundedAmount |-> n]
           IN  p \in Payment /\ Consistent(p)
  BY AmountAssumption DEF StatusAfterRelease, Payment, Consistent

-----------------------------------------------------------------------------
\* The steps of a call that touch neither the payment nor the refund rows.
LEMMA MovesOn ==
    ASSUME RefundsInv, mode' = mode, NEW c \in Caller,
           UNCHANGED <<payment, refund, returned>>, crashes' \in 0..MaxCrashes,
           NEW s \in CallState, call' = [call EXCEPT ![c] = s],
           Consistent(s.seen),
           \/ call[c].pc \in Before /\ s.pc \in Before \cup {"ended"} /\ s.answer = call[c].answer
           \/ s.pc = "ended" /\ s.answer = call[c].answer
           \/ /\ call[c].pc \in {"answered", "releasing", "release_txn"}
              /\ s.pc \in {"releasing", "release_txn"}
              /\ s.answer = call[c].answer /\ s.answer \in Refused
    PROVE  RefundsInv'
<1>1. TypeOK'
  BY DEF RefundsInv, TypeOK
<1>2. call'[c] = s /\ \A d \in Caller \ {c} : call'[d] = call[d]
  BY DEF RefundsInv, TypeOK
<1>3. Consistent(payment)' /\ Consistent(call[c].seen)'
  BY <1>2 DEF RefundsInv, Consistent
<1>4. Place(c)'
  BY <1>2 DEF RefundsInv, Place, Before, During
<1>5. ~mode.unknownOutcomes => Truth(c)'
  BY <1>2 DEF RefundsInv, Truth
<1>6. QED
  BY <1>1, <1>2, <1>3, <1>4, <1>5, OneCall

\* GoTo to the end, from anywhere: an early return, a rejection or a crash.
LEMMA GoesTo ==
    ASSUME RefundsInv, mode' = mode, NEW c \in Caller,
           UNCHANGED <<payment, refund, returned>>, crashes' \in 0..MaxCrashes,
           NEW next \in Control, GoTo(c, next),
           \/ call[c].pc \in Before /\ next \in Before
           \/ next = "ended"
           \/ call[c].pc = "answered" /\ next = "releasing" /\ call[c].answer \in Refused
    PROVE  RefundsInv'
<1> DEFINE s == [call[c] EXCEPT !.pc = next]
<1>1. call[c] \in CallState /\ Consistent(call[c].seen)
  BY CallType DEF RefundsInv
<1>2. s \in CallState /\ s.pc = next /\ s.answer = call[c].answer /\ s.seen = call[c].seen
  BY <1>1 DEF CallState
<1>3. call' = [call EXCEPT ![c] = s]
  BY DEF GoTo
<1> HIDE DEF s
<1>4. QED
  BY <1>1, <1>2, <1>3, MovesOn

\* The read that opens a transaction.
LEMMA ReadsRow ==
    ASSUME RefundsInv, mode' = mode, NEW c \in Caller,
           UNCHANGED <<payment, refund, returned, crashes>>,
           NEW next \in Control, ReadForUpdate(c, next),
           \/ call[c].pc \in Before /\ next \in Before
           \/ call[c].pc = "releasing" /\ next = "release_txn"
    PROVE  RefundsInv'
<1> DEFINE s == [call[c] EXCEPT !.pc = next, !.seen = payment]
<1>1. /\ call[c] \in CallState /\ payment \in Payment /\ Consistent(payment)
      /\ crashes \in 0..MaxCrashes
      /\ call[c].pc = "releasing" => call[c].answer \in Refused
  BY CallType DEF RefundsInv, TypeOK, Place
<1>2. s \in CallState /\ s.pc = next /\ s.answer = call[c].answer /\ s.seen = payment
  BY <1>1 DEF CallState
<1>3. call' = [call EXCEPT ![c] = s]
  BY DEF ReadForUpdate
<1> HIDE DEF s
<1>4. QED
  BY <1>1, <1>2, <1>3, MovesOn

\* A lost race: the attempt is counted, and the call tries again or gives up.
LEMMA TriesAgain ==
    ASSUME RefundsInv, mode' = mode, NEW c \in Caller,
           UNCHANGED <<payment, refund, returned, crashes>>, NEW next \in Control,
           call' = [call EXCEPT ![c].pc = next, ![c].attempts = @ + 1],
           \/ call[c].pc \in Before /\ next \in Before \cup {"ended"}
           \/ call[c].pc = "release_txn" /\ next = "releasing"
    PROVE  RefundsInv'
<1> DEFINE n == call[c].attempts + 1
           s == [call[c] EXCEPT !.pc = next, !.attempts = n]
<1>1. /\ call[c] \in CallState /\ Consistent(call[c].seen)
      /\ crashes \in 0..MaxCrashes
      /\ call[c].pc = "release_txn" => call[c].answer \in Refused
  BY CallType DEF RefundsInv, TypeOK, Place
<1>2. \A m \in Nat : m + 1 \in Nat
  OBVIOUS
<1>3. n \in Nat
  BY <1>1, <1>2 DEF CallState
<1> HIDE DEF n
<1>4. s \in CallState /\ s.pc = next /\ s.answer = call[c].answer /\ s.seen = call[c].seen
  BY <1>1, <1>3 DEF CallState
<1>5. call' = [call EXCEPT ![c] = s]
  BY DEF n
<1> HIDE DEF s
<1>6. QED
  BY <1>1, <1>4, <1>5, MovesOn

-----------------------------------------------------------------------------
\* A step that ends the call, or has it wait for its provider, and writes its
\* row: what the writer must show of the payment, the row and the answer.
LEMMA Writes ==
    ASSUME RefundsInv, mode' = mode, crashes' = crashes, NEW c \in Caller,
           payment' \in Payment, Consistent(payment'),
           NEW s \in CallState, call' = [call EXCEPT ![c] = s], s.seen = call[c].seen,
           NEW r \in Refund, refund' = [refund EXCEPT ![c] = r],
           NEW n \in Nat, returned' = [returned EXCEPT ![c] = n],
           Place(c)', ~mode.unknownOutcomes => Truth(c)'
    PROVE  RefundsInv'
<1>1. TypeOK'
  BY DEF RefundsInv, TypeOK
<1>2. call'[c] = s /\ \A d \in Caller \ {c} :
          call'[d] = call[d] /\ refund'[d] = refund[d] /\ returned'[d] = returned[d]
  BY DEF RefundsInv, TypeOK
<1>3. Consistent(payment)' /\ Consistent(call[c].seen)'
  BY <1>2 DEF RefundsInv, Consistent
<1>4. QED
  BY <1>1, <1>2, <1>3, OneCall

LEMMA ReserveStep ==
    ASSUME RefundsInv, mode' = mode, NEW c \in Caller, Reserve(c)
    PROVE  RefundsInv'
<1> DEFINE p == call[c].seen
           requested == Asked(c, p)
           total == p.refundedAmount + requested
           accepted == /\ Remaining(p) > 0
                       /\ requested <= Remaining(p)
                       /\ Can(p.status, EventAfterRefund(total))
<1>1. /\ call[c] \in CallState /\ p \in Payment /\ TypeOK
      /\ call[c].pc = "reserve_txn" /\ UNCHANGED <<returned, crashes>>
      /\ crashes \in 0..MaxCrashes /\ returned[c] \in Nat
  BY CallType DEF RefundsInv, TypeOK, CallState, Reserve
<1>2. CASE ~accepted /\ GoTo(c, "ended") /\ UNCHANGED <<payment, refund>>
  BY <1>1, <1>2, GoesTo DEF Control
<1>3. CASE /\ accepted
           /\ payment' = [status |-> StatusAfterRefund(total), refundedAmount |-> total]
           /\ refund' = [refund EXCEPT ![c] =
                  [status |-> "pending", amount |-> requested, providerKnown |-> FALSE]]
           /\ call' = [call EXCEPT ![c].pc = "calling", ![c].attempts = 0]
  <2> DEFINE s == [call[c] EXCEPT !.pc = "calling", !.attempts = 0]
             r == [status |-> "pending", amount |-> requested, providerKnown |-> FALSE]
  <2>1. requested \in Nat /\ requested > 0 /\ total \in 1..Amount
    BY <1>1, <1>3, AskedType
  <2>2. payment' \in Payment /\ Consistent(payment')
    BY <1>3, <2>1, WrittenByRefund
  <2>3. r \in Refund
    BY <2>1 DEF Refund, RefundStatus
  <2>4. s \in CallState /\ s.pc = "calling" /\ s.answer = call[c].answer /\ s.seen = p
    BY <1>1 DEF CallState, Control
  <2>5. /\ call[c].answer = "none"
        /\ ~mode.unknownOutcomes => returned[c] = 0
    BY <1>1 DEF RefundsInv, Place, Truth, Before
  <2>6. /\ call' = [call EXCEPT ![c] = s] /\ call'[c] = s
        /\ refund' = [refund EXCEPT ![c] = r] /\ refund'[c] = r
        /\ returned' = [returned EXCEPT ![c] = returned[c]] /\ returned'[c] = returned[c]
    BY <1>1, <1>3 DEF TypeOK
  <2> HIDE DEF s
  <2>7. Place(c)'
    BY <2>1, <2>4, <2>5, <2>6 DEF Place, Before, During
  <2>8. ~mode.unknownOutcomes => Truth(c)'
    BY <2>4, <2>5, <2>6 DEF Truth, Refused, Granted
  <2> HIDE DEF r
  <2>9. QED
    BY <1>1, <2>2, <2>3, <2>4, <2>6, <2>7, <2>8, Writes
<1>4. CASE /\ call' = [call EXCEPT
                  ![c].pc = IF call[c].attempts + 1 < MaxReservationAttempts
                            THEN "reserving" ELSE "ended",
                  ![c].attempts = @ + 1]
           /\ UNCHANGED <<payment, refund>>
  BY <1>1, <1>4, TriesAgain DEF Control, Before
<1>5. QED
  BY <1>2, <1>3, <1>4 DEF Reserve


LEMMA ProviderRefundStep ==
    ASSUME RefundsInv, mode' = mode, NEW c \in Caller, ProviderRefund(c)
    PROVE  RefundsInv'
<1>1. /\ call[c] \in CallState /\ call[c].pc = "calling" /\ refund[c].status = "pending"
      /\ refund[c].amount > 0 /\ refund[c] \in Refund /\ refund[c].amount \in Nat
      /\ payment' \in Payment /\ Consistent(payment') /\ UNCHANGED <<payment, refund, crashes>>
      /\ mode.unknownOutcomes \in BOOLEAN
  BY CallType DEF RefundsInv, TypeOK, Place, During, ProviderRefund, Refund, Consistent
<1>2. ASSUME NEW answer \in Answer, NEW amount \in Nat,
             call' = [call EXCEPT ![c].pc = "answered", ![c].answer = answer],
             returned' = [returned EXCEPT ![c] = amount],
             \/ answer \in Granted /\ amount = refund[c].amount
             \/ answer \in Refused /\ amount = 0
             \/ answer = "mismatch"
             \/ mode.unknownOutcomes
      PROVE  RefundsInv'
  <2> DEFINE s == [call[c] EXCEPT !.pc = "answered", !.answer = answer]
  <2>1. s \in CallState /\ s.pc = "answered" /\ s.answer = answer /\ s.seen = call[c].seen
    BY <1>1 DEF CallState, Control
  <2>2. /\ call' = [call EXCEPT ![c] = s] /\ call'[c] = s
        /\ refund' = [refund EXCEPT ![c] = refund[c]] /\ refund'[c] = refund[c]
        /\ returned'[c] = amount
    BY <1>1, <1>2 DEF RefundsInv, TypeOK
  <2> HIDE DEF s
  <2>3. Place(c)'
    BY <1>1, <2>1, <2>2 DEF Place, Before, During
  <2>4. answer # "none" \/ mode.unknownOutcomes
    BY <1>2 DEF Granted, Refused
  <2>5. ~mode.unknownOutcomes => Truth(c)'
    BY <1>1, <1>2, <2>1, <2>2, <2>4 DEF Truth, Refused, Granted
  <2>6. QED
    BY <1>1, <1>2, <2>1, <2>2, <2>3, <2>5, Writes
<1>3. "threw" \in Answer /\ "mismatch" \in Answer /\ "failed" \in Answer
      /\ "canceled" \in Answer /\ Granted \subseteq Answer /\ 0 \in Nat
  BY DEF Answer, Granted, RefundStatus
<1>4. \A amount \in 1..Amount : amount \in Nat
  BY AmountAssumption
<1>5. CASE \E answer \in {"succeeded", "pending", "unrecognised"} :
              /\ call' = [call EXCEPT ![c].pc = "answered", ![c].answer = answer]
              /\ returned' = [returned EXCEPT ![c] = refund[c].amount]
  BY <1>1, <1>2, <1>3, <1>5 DEF Granted
<1>6. CASE \E answer \in {"failed", "canceled", "threw"} :
              /\ call' = [call EXCEPT ![c].pc = "answered", ![c].answer = answer]
              /\ returned' = [returned EXCEPT ![c] = 0]
  BY <1>2, <1>3, <1>6 DEF Refused
<1>7. CASE \E amount \in 1..Amount :
              /\ call' = [call EXCEPT ![c].pc = "answered", ![c].answer = "mismatch"]
              /\ returned' = [returned EXCEPT ![c] = amount]
  BY <1>2, <1>3, <1>4, <1>7
<1>8. CASE /\ mode.unknownOutcomes
           /\ call' = [call EXCEPT ![c].pc = "answered", ![c].answer = "threw"]
           /\ returned' = [returned EXCEPT ![c] = refund[c].amount]
  BY <1>1, <1>2, <1>3, <1>8
<1>9. QED
  BY <1>5, <1>6, <1>7, <1>8 DEF ProviderRefund

LEMMA RejectResponseStep ==
    ASSUME RefundsInv, mode' = mode, NEW c \in Caller, RejectResponse(c)
    PROVE  RefundsInv'
<1> DEFINE s == [call[c] EXCEPT !.pc = "ended"]
           r == [refund[c] EXCEPT !.providerKnown = @ \/ call[c].answer = "mismatch"]
<1>1. /\ call[c] \in CallState /\ call[c].pc = "answered" /\ refund[c] \in Refund
      /\ call[c].answer \in {"mismatch", "unrecognised"}
      /\ payment' \in Payment /\ Consistent(payment') /\ UNCHANGED <<payment, returned, crashes>>
      /\ returned[c] \in Nat
  BY CallType DEF RefundsInv, TypeOK, RejectResponse, Consistent
<1>2. s \in CallState /\ s.pc = "ended" /\ s.answer = call[c].answer /\ s.seen = call[c].seen
  BY <1>1 DEF CallState, Control
<1>3. r \in Refund /\ r.status = refund[c].status /\ r.amount = refund[c].amount
  BY <1>1 DEF Refund
<1>4. /\ call' = [call EXCEPT ![c] = s] /\ call'[c] = s
      /\ refund' = [refund EXCEPT ![c] = r] /\ refund'[c] = r
      /\ returned' = [returned EXCEPT ![c] = returned[c]] /\ returned'[c] = returned[c]
  BY <1>1 DEF RefundsInv, TypeOK, RejectResponse, GoTo
<1> HIDE DEF s, r
<1>5. Place(c)'
  BY <1>1, <1>2, <1>3, <1>4 DEF RefundsInv, Place, Before, During
<1>6. ~mode.unknownOutcomes => Truth(c)'
  BY <1>1, <1>2, <1>3, <1>4 DEF RefundsInv, Truth, Granted, Refused
<1>7. QED
  BY <1>1, <1>2, <1>3, <1>4, <1>5, <1>6, Writes

LEMMA FinalizeStep ==
    ASSUME RefundsInv, mode' = mode, NEW c \in Caller, Finalize(c)
    PROVE  RefundsInv'
<1> DEFINE s == [call[c] EXCEPT !.pc = "ended"]
           r == [refund[c] EXCEPT !.status = call[c].answer, !.providerKnown = TRUE]
<1>1. /\ call[c] \in CallState /\ call[c].pc = "answered" /\ refund[c] \in Refund
      /\ call[c].answer \in {"pending", "succeeded"}
      /\ payment' \in Payment /\ Consistent(payment') /\ UNCHANGED <<payment, returned, crashes>>
      /\ returned[c] \in Nat
  BY CallType DEF RefundsInv, TypeOK, Finalize, Consistent
<1>2. s \in CallState /\ s.pc = "ended" /\ s.answer = call[c].answer /\ s.seen = call[c].seen
  BY <1>1 DEF CallState, Control
<1>3. r \in Refund /\ r.status = call[c].answer /\ r.amount = refund[c].amount
  BY <1>1 DEF Refund, RefundStatus
<1>4. /\ call' = [call EXCEPT ![c] = s] /\ call'[c] = s
      /\ refund' = [refund EXCEPT ![c] = r] /\ refund'[c] = r
      /\ returned' = [returned EXCEPT ![c] = returned[c]] /\ returned'[c] = returned[c]
  BY <1>1 DEF RefundsInv, TypeOK, Finalize, GoTo
<1> HIDE DEF s, r
<1>5. Place(c)'
  BY <1>1, <1>2, <1>3, <1>4 DEF RefundsInv, Place, Before, During
<1>6. ~mode.unknownOutcomes => Truth(c)'
  BY <1>1, <1>2, <1>3, <1>4 DEF RefundsInv, Truth, Granted, Refused
<1>7. QED
  BY <1>1, <1>2, <1>3, <1>4, <1>5, <1>6, Writes


LEMMA ReleaseStep ==
    ASSUME RefundsInv, mode' = mode, NEW c \in Caller, Release(c)
    PROVE  RefundsInv'
<1>1. /\ call[c] \in CallState /\ call[c].pc = "release_txn" /\ refund[c] \in Refund
      /\ call[c].answer \in Refused /\ refund[c].status = "pending" /\ refund[c].amount > 0
      /\ refund[c].amount \in Nat /\ returned[c] \in Nat
      /\ payment \in Payment /\ Consistent(payment) /\ UNCHANGED <<returned, crashes>>
      /\ payment.refundedAmount \in Nat
      /\ call[c].seen.refundedAmount \in Nat /\ call[c].seen.refundedAmount <= Amount
  BY CallType DEF RefundsInv, TypeOK, Release, Place, During, Consistent, Refund
\* The call ends, whatever it wrote.
<1>2. ASSUME NEW status \in {"failed", "canceled", "pending"},
             payment' \in Payment, Consistent(payment'),
             refund' = Patched(c, status), GoTo(c, "ended")
      PROVE  RefundsInv'
  <2> DEFINE s == [call[c] EXCEPT !.pc = "ended"]
             r == [refund[c] EXCEPT !.status = status,
                                    !.providerKnown = @ \/ call[c].answer # "threw"]
  <2>1. s \in CallState /\ s.pc = "ended" /\ s.answer = call[c].answer /\ s.seen = call[c].seen
    BY <1>1 DEF CallState, Control
  <2>2. r \in Refund /\ r.status = status /\ r.amount = refund[c].amount
    BY <1>1 DEF Refund, RefundStatus
  <2>3. /\ call' = [call EXCEPT ![c] = s] /\ call'[c] = s
        /\ refund' = [refund EXCEPT ![c] = r] /\ refund'[c] = r
        /\ returned' = [returned EXCEPT ![c] = returned[c]] /\ returned'[c] = returned[c]
    BY <1>1, <1>2 DEF RefundsInv, TypeOK, Patched, GoTo
  <2> HIDE DEF s, r
  <2>4. Place(c)'
    BY <1>1, <2>1, <2>2, <2>3 DEF Place, Before, During
  <2>5. ~mode.unknownOutcomes => Truth(c)'
    BY <1>1, <2>1, <2>2, <2>3 DEF RefundsInv, Truth, Granted, Refused
  <2>6. QED
    BY <1>1, <1>2, <2>1, <2>2, <2>3, <2>4, <2>5, Writes
<1>3. CASE /\ payment' = [status |-> StatusAfterRelease(GivenBack(c)),
                          refundedAmount |-> GivenBack(c)]
           /\ refund' = Patched(c, ReleasedStatus(c))
           /\ GoTo(c, "ended")
  <2>1. GivenBack(c) \in Nat /\ GivenBack(c) < Amount
    BY <1>1, AmountAssumption DEF GivenBack
  <2>2. payment' \in Payment /\ Consistent(payment')
    BY <1>3, <2>1, WrittenByRelease
  <2>3. ReleasedStatus(c) \in {"failed", "canceled", "pending"}
    BY DEF ReleasedStatus
  <2>4. QED
    BY <1>2, <1>3, <2>2, <2>3
<1>4. CASE /\ call' = [call EXCEPT ![c].pc = "releasing", ![c].attempts = @ + 1]
           /\ UNCHANGED <<payment, refund>>
  BY <1>1, <1>4, TriesAgain DEF Control
<1>5. CASE /\ GoTo(c, "ended")
           /\ refund' = Patched(c, "pending")
           /\ UNCHANGED payment
  BY <1>1, <1>2, <1>5
<1>6. QED
  BY <1>3, <1>4, <1>5 DEF Release

LEMMA RecordStep ==
    ASSUME RefundsInv, mode' = mode, NEW c \in Caller, Record(c)
    PROVE  RefundsInv'
<1> DEFINE p == call[c].seen
           amount == Asked(c, p)
           total == p.refundedAmount + amount
           accepted == /\ Refundable(p)
                       /\ amount > 0
                       /\ amount <= Remaining(p)
                       /\ Can(p.status, EventAfterRefund(total))
<1>1. /\ call[c] \in CallState /\ p \in Payment /\ TypeOK /\ p.refundedAmount \in Nat
      /\ call[c].pc = "record_txn" /\ UNCHANGED crashes
      /\ crashes \in 0..MaxCrashes
  BY CallType DEF RefundsInv, TypeOK, CallState, Record
<1>2. CASE ~accepted /\ GoTo(c, "ended") /\ UNCHANGED <<payment, refund, returned>>
  BY <1>1, <1>2, GoesTo DEF Control
<1>3. CASE /\ accepted
           /\ payment' = [status |-> StatusAfterRefund(total), refundedAmount |-> total]
           /\ refund' = [refund EXCEPT ![c] =
                  [status |-> "succeeded", amount |-> amount, providerKnown |-> FALSE]]
           /\ returned' = [returned EXCEPT ![c] = amount]
           /\ GoTo(c, "ended")
  <2> DEFINE s == [call[c] EXCEPT !.pc = "ended"]
             r == [status |-> "succeeded", amount |-> amount, providerKnown |-> FALSE]
  <2>1. amount \in Nat /\ amount > 0 /\ total \in 1..Amount
    <3>1. call[c].wanted \in (Nat \ {0}) \cup {Omitted}
      BY <1>1, AmountAssumption DEF CallState
    <3>2. QED
      BY <1>1, <1>3, <3>1, AmountAssumption DEF Asked, Remaining
  <2>2. payment' \in Payment /\ Consistent(payment')
    BY <1>3, <2>1, WrittenByRefund
  <2>3. r \in Refund
    BY <2>1 DEF Refund, RefundStatus
  <2>4. s \in CallState /\ s.pc = "ended" /\ s.answer = call[c].answer /\ s.seen = p
    BY <1>1 DEF CallState, Control
  <2>5. call[c].answer = "none"
    BY <1>1 DEF RefundsInv, Place, Before
  <2>6. /\ call' = [call EXCEPT ![c] = s] /\ call'[c] = s
        /\ refund' = [refund EXCEPT ![c] = r] /\ refund'[c] = r
        /\ returned'[c] = amount
    BY <1>1, <1>3 DEF TypeOK, GoTo
  <2> HIDE DEF s
  <2>7. Place(c)'
    BY <2>1, <2>4, <2>5, <2>6 DEF Place, Before, During
  <2>8. ~mode.unknownOutcomes => Truth(c)'
    BY <2>4, <2>5, <2>6 DEF Truth, Refused, Granted
  <2> HIDE DEF r
  <2>9. QED
    BY <1>1, <1>3, <2>1, <2>2, <2>3, <2>4, <2>6, <2>7, <2>8, Writes
<1>4. CASE /\ call' = [call EXCEPT
                  ![c].pc = IF call[c].attempts + 1 < MaxReservationAttempts
                            THEN "recording" ELSE "ended",
                  ![c].attempts = @ + 1]
           /\ UNCHANGED <<payment, refund, returned>>
  BY <1>1, <1>4, TriesAgain DEF Control, Before
<1>5. QED
  BY <1>2, <1>3, <1>4 DEF Record


LEMMA RefundPaymentStep ==
    ASSUME RefundsInv, mode' = mode, NEW c \in Caller, RefundPayment(c)
    PROVE  RefundsInv'
<1>1. PICK wanted \in Requests :
          call' = [call EXCEPT ![c].pc = IF Refundable(payment) THEN "checking" ELSE "ended",
                               ![c].wanted = wanted,
                               ![c].seen = payment]
  BY DEF RefundPayment
<1> DEFINE s == [call[c] EXCEPT !.pc = IF Refundable(payment) THEN "checking" ELSE "ended",
                                !.wanted = wanted, !.seen = payment]
<1>2. /\ call[c] \in CallState /\ call[c].pc = "idle" /\ payment \in Payment
      /\ Consistent(payment) /\ UNCHANGED <<payment, refund, returned, crashes>>
      /\ crashes \in 0..MaxCrashes
  BY CallType DEF RefundsInv, TypeOK, RefundPayment
<1>3. s \in CallState /\ s.pc \in {"checking", "ended"} /\ s.answer = call[c].answer
      /\ s.seen = payment
  BY <1>2 DEF CallState, Control
<1>4. call' = [call EXCEPT ![c] = s]
  BY <1>1
<1> HIDE DEF s
<1>5. QED
  BY <1>2, <1>3, <1>4, MovesOn DEF Before

LEMMA RefundLocalStep ==
    ASSUME RefundsInv, mode' = mode, NEW c \in Caller, RefundLocal(c)
    PROVE  RefundsInv'
<1>1. PICK wanted \in Requests :
          call' = [call EXCEPT ![c].pc = "recording", ![c].wanted = wanted]
  BY DEF RefundLocal
<1> DEFINE s == [call[c] EXCEPT !.pc = "recording", !.wanted = wanted]
<1>2. /\ call[c] \in CallState /\ call[c].pc = "idle" /\ Consistent(call[c].seen)
      /\ UNCHANGED <<payment, refund, returned, crashes>> /\ crashes \in 0..MaxCrashes
  BY CallType DEF RefundsInv, TypeOK, RefundLocal
<1>3. s \in CallState /\ s.pc = "recording" /\ s.answer = call[c].answer
      /\ s.seen = call[c].seen
  BY <1>2 DEF CallState, Control
<1>4. call' = [call EXCEPT ![c] = s]
  BY <1>1
<1> HIDE DEF s
<1>5. QED
  BY <1>2, <1>3, <1>4, MovesOn DEF Before

\* Every step keeps the invariant.
LEMMA NextRefunds == RefundsInv /\ [Next]_vars => RefundsInv'
<1> SUFFICES ASSUME RefundsInv, [Next]_vars PROVE RefundsInv'
  OBVIOUS
<1>1. CASE UNCHANGED vars
  <2>1. TypeOK' /\ Consistent(payment)'
    BY <1>1 DEF vars, RefundsInv, TypeOK, Consistent
  <2>2. \A c \in Caller : Consistent(call[c].seen)' /\ Place(c)'
    BY <1>1 DEF vars, RefundsInv, Consistent, Place
  <2>3. ~mode.unknownOutcomes => \A c \in Caller : Truth(c)'
    BY <1>1 DEF vars, RefundsInv, Truth
  <2>4. QED
    BY <1>1, <2>1, <2>2, <2>3 DEF RefundsInv, vars
<1>2. ASSUME mode' = mode, NEW c \in Call,
             \/ RefundPayment(c) \/ CheckPending(c)
             \/ StartReserve(c) \/ Reserve(c)
             \/ ProviderRefund(c) \/ RejectResponse(c) \/ Finalize(c)
             \/ BeginRelease(c) \/ StartRelease(c) \/ Release(c)
      PROVE  RefundsInv'
  <2> c \in Caller /\ crashes \in 0..MaxCrashes
    BY DEF Caller, RefundsInv, TypeOK
  <2>1. CASE RefundPayment(c)
    BY <1>2, <2>1, RefundPaymentStep
  <2>2. CASE CheckPending(c)
    BY <1>2, <2>2, GoesTo DEF CheckPending, Control, Before
  <2>3. CASE StartReserve(c)
    BY <1>2, <2>3, ReadsRow DEF StartReserve, Control, Before
  <2>4. CASE Reserve(c)
    BY <1>2, <2>4, ReserveStep
  <2>5. CASE ProviderRefund(c)
    BY <1>2, <2>5, ProviderRefundStep
  <2>6. CASE RejectResponse(c)
    BY <1>2, <2>6, RejectResponseStep
  <2>7. CASE Finalize(c)
    BY <1>2, <2>7, FinalizeStep
  <2>8. CASE BeginRelease(c)
    BY <1>2, <2>8, GoesTo DEF BeginRelease, Control, Refused
  <2>9. CASE StartRelease(c)
    BY <1>2, <2>9, ReadsRow DEF StartRelease, Control
  <2>10. CASE Release(c)
    BY <1>2, <2>10, ReleaseStep
  <2>11. QED
    BY <1>2, <2>1, <2>2, <2>3, <2>4, <2>5, <2>6, <2>7, <2>8, <2>9, <2>10
<1>3. ASSUME mode' = mode, NEW c \in LocalCall,
             RefundLocal(c) \/ StartRecord(c) \/ Record(c)
      PROVE  RefundsInv'
  <2> c \in Caller
    BY DEF Caller
  <2>1. CASE RefundLocal(c)
    BY <1>3, <2>1, RefundLocalStep
  <2>2. CASE StartRecord(c)
    BY <1>3, <2>2, ReadsRow DEF StartRecord, Control, Before
  <2>3. CASE Record(c)
    BY <1>3, <2>3, RecordStep
  <2>4. QED
    BY <1>3, <2>1, <2>2, <2>3
<1>4. ASSUME mode' = mode, NEW c \in Caller, Crash(c)
      PROVE  RefundsInv'
  <2>1. crashes' \in 0..MaxCrashes
    BY <1>4, AttemptAssumption DEF Crash, RefundsInv, TypeOK
  <2>2. QED
    BY <1>4, <2>1, GoesTo DEF Crash, Control
<1>5. QED
  BY <1>1, <1>2, <1>3, <1>4 DEF Next

\* The invariant holds in every state the two refund paths can reach.
THEOREM RefundsInvariant == Spec => []RefundsInv
<1>1. QED
  BY InitRefunds, NextRefunds, PTL DEF Spec

-----------------------------------------------------------------------------
\* The payment, the refund rows and the calls stay well formed, the
\* refundedAmount never below zero, for any amount and requests.
THEOREM TypeCorrect == Spec => []TypeOK
<1>1. RefundsInv => TypeOK
  BY DEF RefundsInv
<1>2. QED
  BY <1>1, RefundsInvariant, PTL

\* tryReserve, tryPersist and the release attempt each write the status that
\* belongs to the amount they write, from whatever read they computed it.
THEOREM StatusFollows == Spec => []StatusFollowsLedger
<1>1. RefundsInv => StatusFollowsLedger
  BY DEF RefundsInv, StatusFollowsLedger
<1>2. QED
  BY <1>1, RefundsInvariant, PTL

\* The rows left pending or succeeded by every path of RefundPaymentAction and
\* LocalRefundActions cover what the customer got back, and a succeeded row
\* says exactly that.
THEOREM ReturnedWithin == Spec => []RefundsWithinPayment
<1>1. RefundsInv => RefundsWithinPayment
  <2> SUFFICES ASSUME RefundsInv, ~mode.unknownOutcomes, NEW c \in Caller
               PROVE  /\ call[c].answer # "mismatch" => returned[c] <= Held(c)
                      /\ refund[c].status = "succeeded" => returned[c] = refund[c].amount
    BY DEF RefundsWithinPayment
  <2>1. /\ Truth(c) /\ call[c].answer \in Answer /\ refund[c] \in Refund
        /\ refund[c].amount \in Nat /\ returned[c] \in Nat
    BY CallType DEF RefundsInv, CallState, Refund
  <2>2. CASE refund[c].status \in {"pending", "succeeded"}
    BY <2>1, <2>2 DEF Truth, Held, Answer, RefundStatus, Refused, Granted
  <2>3. CASE refund[c].status \in {"none", "failed", "canceled"}
    BY <2>1, <2>3 DEF Truth, Held
  <2>4. QED
    BY <2>1, <2>2, <2>3 DEF Refund, RefundStatus
<1>2. QED
  BY <1>1, RefundsInvariant, PTL

-----------------------------------------------------------------------------
\* Only the call's own row is written, and never once it is settled.
LEMMA WritesOpenRow ==
    ASSUME RefundsInv, Next, NEW d \in Caller,
           refund[d].status \in {"succeeded", "failed", "canceled"}
    PROVE  refund'[d] = refund[d]
<1> USE DEF RefundsInv, TypeOK, Place, Before, During
<1>1. ASSUME NEW c \in Caller, Reserve(c) \/ Record(c)
      PROVE  refund'[d] = refund[d]
  BY <1>1 DEF Reserve, Record
<1>2. ASSUME NEW c \in Caller, Finalize(c) \/ RejectResponse(c)
      PROVE  refund'[d] = refund[d]
  BY <1>2 DEF Finalize, RejectResponse
<1>3. ASSUME NEW c \in Caller, Release(c)
      PROVE  refund'[d] = refund[d]
  BY <1>3 DEF Release, Patched
<1>4. QED
  BY <1>1, <1>2, <1>3
     DEF Next, Caller, RefundPayment, CheckPending, StartReserve, ProviderRefund,
         BeginRelease, StartRelease, RefundLocal, StartRecord, Crash

\* A settled refund row is final: a row is written only by its own call, which
\* stops at the answer or the release that settles it.
THEOREM SettledFinal == Spec => SettledIsFinal
<1>1. RefundsInv /\ [Next]_vars =>
        [\A c \in Caller :
            refund[c].status \in {"succeeded", "failed", "canceled"} =>
                refund'[c] = refund[c]]_vars
  BY WritesOpenRow
<1>2. QED
  BY <1>1, RefundsInvariant, PTL DEF Spec, SettledIsFinal

\* A payment fully refunded by settled rows has no room for a reservation or a
\* record, and no pending row to release.
LEMMA KeepsFullRefund ==
    ASSUME RefundsInv, Next, payment.status = "refunded",
           \A c \in Caller : refund[c].status # "pending"
    PROVE  payment' = payment
<1>1. payment.refundedAmount = Amount
  BY AmountAssumption DEF RefundsInv, Consistent
<1>2. ASSUME NEW c \in Caller, Reserve(c)
      PROVE  payment' = payment
  BY <1>1, <1>2, AmountAssumption DEF Reserve, Remaining, Unchanged
<1>3. ASSUME NEW c \in Caller, Record(c)
      PROVE  payment' = payment
  <2>1. CASE Unchanged(c)
    <3>1. Remaining(call[c].seen) = 0
      BY <1>1, <2>1, AmountAssumption DEF Unchanged, Remaining
    <3>2. call[c].wanted \in (Nat \ {0}) \cup {Omitted}
      BY AmountAssumption, CallType DEF RefundsInv, CallState
    <3>3. Asked(c, call[c].seen) \in Nat
      BY <3>1, <3>2 DEF Asked
    <3>4. ~ (Asked(c, call[c].seen) > 0 /\ Asked(c, call[c].seen) <= Remaining(call[c].seen))
      BY <3>1, <3>3
    <3>5. QED
      BY <1>3, <3>4 DEF Record
  <2>2. CASE ~Unchanged(c)
    BY <1>3, <2>2 DEF Record
  <2>3. QED
    BY <2>1, <2>2
<1>4. ASSUME NEW c \in Caller, Release(c)
      PROVE  payment' = payment
  BY <1>4 DEF RefundsInv, Place, During, Release
<1>5. QED
  BY <1>2, <1>3, <1>4
     DEF Next, Caller, RefundPayment, CheckPending, StartReserve, ProviderRefund,
         RejectResponse, Finalize, BeginRelease, StartRelease, RefundLocal,
         StartRecord, Crash

\* Nothing changes a payment that settled rows refund in full.
THEOREM FullFinal == Spec => FullRefundIsFinal
<1>1. RefundsInv /\ [Next]_vars =>
        [(/\ payment.status = "refunded"
          /\ \A c \in Caller : refund[c].status # "pending")
             => payment' = payment]_vars
  BY KeepsFullRefund
<1>2. QED
  BY <1>1, RefundsInvariant, PTL DEF Spec, FullRefundIsFinal

-----------------------------------------------------------------------------
(* Sums over the calls, and the ledger.                                    *)

\* The library's principles of induction are stated of operators; these two
\* say the same of sets, and follow from the least element theorem.
LEMMA NatInductive ==
    ASSUME NEW T \in SUBSET Nat, 0 \in T, \A n \in T : n + 1 \in T
    PROVE  T = Nat
<1> SUFFICES ASSUME Nat \ T # {} PROVE FALSE
  OBVIOUS
<1> DEFINE R == OpToRel(<, Nat)
<1>1. IsWellFoundedOn(R, Nat)
  BY NatLessThanWellFounded
<1>2. \A m, n \in Nat : m < n => <<m, n>> \in R
  BY DEF OpToRel
<1> HIDE DEF R
<1>3. PICK n \in Nat \ T : \A m \in Nat \ T : ~ (<<m, n>> \in R)
  BY <1>1, WFMin
<1>4. n - 1 \in Nat /\ n - 1 < n /\ (n - 1) + 1 = n
  BY <1>3
<1>5. n - 1 \in T
  BY <1>2, <1>3, <1>4
<1>6. QED
  BY <1>3, <1>4, <1>5

LEMMA SmallestSubset ==
    ASSUME IsFiniteSet(Caller), NEW B \in SUBSET (SUBSET Caller), B # {}
    PROVE  \E s \in B : \A x \in s : s \ {x} \notin B
<1> DEFINE R == OpToRel(<, Nat)
           T == {Cardinality(s) : s \in B}
<1>1. IsWellFoundedOn(R, Nat)
  BY NatLessThanWellFounded
<1>2. \A m, n \in Nat : m < n => <<m, n>> \in R
  BY DEF OpToRel
<1>3. \A s \in SUBSET Caller : IsFiniteSet(s) /\ Cardinality(s) \in Nat
  BY FS_Subset, FS_CardinalityType
<1>4. T \subseteq Nat /\ T # {}
  BY <1>3
<1>5. \A s \in B : Cardinality(s) \in T
  OBVIOUS
<1> HIDE DEF R, T
<1>6. PICK n \in T : \A m \in T : ~ (<<m, n>> \in R)
  BY <1>1, <1>4, WFMin
<1>7. PICK s \in B : Cardinality(s) = n
  BY <1>6 DEF T
<1>8. ASSUME NEW x \in s, s \ {x} \in B PROVE FALSE
  <2>1. Cardinality(s \ {x}) = Cardinality(s) - 1
    BY <1>3, <1>8, FS_RemoveElement
  <2>2. Cardinality(s \ {x}) \in T /\ Cardinality(s \ {x}) \in Nat /\ n \in Nat
    BY <1>3, <1>4, <1>5, <1>6, <1>8
  <2>3. Cardinality(s \ {x}) < n
    BY <1>7, <2>1, <2>2
  <2>4. QED
    BY <1>2, <1>6, <2>2, <2>3
<1>9. QED
  BY <1>7, <1>8

-----------------------------------------------------------------------------
\* The element that a fold takes out first, and a function of the sets of
\* calls that adds up g in that order.
Pick(s) == CHOOSE c \in s : TRUE

Sums(g, h) ==
    h = [s \in SUBSET Caller |->
            IF s = {} THEN 0 ELSE g[Pick(s)] + h[s \ {Pick(s)}]]

\* It exists: the sets of up to n calls have one, for every n.
LEMMA SumsExist ==
    ASSUME IsFiniteSet(Caller), NEW g \in [Caller -> Nat]
    PROVE  \E h \in [SUBSET Caller -> Nat] : Sums(g, h)
<1> DEFINE UpTo(n) == {s \in SUBSET Caller : Cardinality(s) <= n}
           Good(h, n) == \A s \in UpTo(n) :
                             h[s] = IF s = {} THEN 0 ELSE g[Pick(s)] + h[s \ {Pick(s)}]
           T == {n \in Nat : \E h \in [UpTo(n) -> Nat] : Good(h, n)}
<1>1. \A s \in SUBSET Caller : IsFiniteSet(s) /\ Cardinality(s) \in Nat
  BY FS_Subset, FS_CardinalityType
<1>2. \A s \in SUBSET Caller : s # {} => Pick(s) \in s /\ g[Pick(s)] \in Nat
  BY DEF Pick
<1>3. ASSUME NEW n \in Nat, NEW s \in UpTo(n + 1), s # {}
      PROVE  s \ {Pick(s)} \in UpTo(n)
  <2>1. Cardinality(s \ {Pick(s)}) = Cardinality(s) - 1
    BY <1>1, <1>2, <1>3, FS_RemoveElement
  <2>2. Cardinality(s) \in Nat /\ Cardinality(s) <= n + 1
    BY <1>1
  <2>3. QED
    BY <2>1, <2>2
<1>4. 0 \in T
  <2>1. \A s \in UpTo(0) : s = {}
    <3>1. ASSUME NEW s \in UpTo(0) PROVE Cardinality(s) = 0
      BY <1>1
    <3>2. QED
      BY <1>1, <3>1, FS_EmptySet
  <2>2. [s \in UpTo(0) |-> 0] \in [UpTo(0) -> Nat] /\ Good([s \in UpTo(0) |-> 0], 0)
    BY <2>1
  <2>3. QED
    BY <2>2
<1>5. ASSUME NEW n \in T PROVE n + 1 \in T
  <2>1. PICK h \in [UpTo(n) -> Nat] : Good(h, n)
    OBVIOUS
  <2> DEFINE k == [s \in UpTo(n + 1) |->
                      IF s = {} THEN 0 ELSE g[Pick(s)] + h[s \ {Pick(s)}]]
  <2>2. n \in Nat /\ n + 1 \in Nat
    OBVIOUS
  <2>3. UpTo(n) \subseteq UpTo(n + 1)
    BY <1>1, <2>2
  <2>4. \A s \in UpTo(n) : k[s] = h[s]
    BY <2>1, <2>3
  <2>5. \A s \in UpTo(n + 1) : s # {} => s \ {Pick(s)} \in UpTo(n)
    BY <1>3, <2>2
  <2>6. k \in [UpTo(n + 1) -> Nat]
    <3>1. ASSUME NEW s \in UpTo(n + 1) PROVE k[s] \in Nat
      <4>1. s # {} => g[Pick(s)] \in Nat /\ h[s \ {Pick(s)}] \in Nat
        BY <1>2, <2>1, <2>5
      <4>2. QED
        BY <4>1
    <3>2. QED
      BY <3>1
  <2>7. Good(k, n + 1)
    BY <2>4, <2>5
  <2>8. QED
    BY <2>2, <2>6, <2>7
<1> HIDE DEF T
<1>6. T = Nat
  <2>1. T \in SUBSET Nat
    BY DEF T
  <2>2. QED
    BY <1>4, <1>5, <2>1, NatInductive
<1> DEFINE N == Cardinality(Caller)
<1>7. N \in Nat /\ UpTo(N) = SUBSET Caller
  BY <1>1, FS_Subset, FS_CardinalityType
<1>8. PICK h \in [UpTo(N) -> Nat] : Good(h, N)
  BY <1>6, <1>7 DEF T
<1>9. QED
  BY <1>7, <1>8 DEF Sums

\* Any element may be taken out first.
LEMMA SumsTakeOut ==
    ASSUME IsFiniteSet(Caller), NEW g \in [Caller -> Nat],
           NEW h \in [SUBSET Caller -> Nat], Sums(g, h),
           NEW s \in SUBSET Caller, NEW y \in s
    PROVE  h[s] = g[y] + h[s \ {y}]
<1> DEFINE B == {t \in SUBSET Caller : \E z \in t : h[t] # g[z] + h[t \ {z}]}
<1> SUFFICES ASSUME B # {} PROVE FALSE
  OBVIOUS
<1>1. PICK t \in B : \A x \in t : t \ {x} \notin B
  BY SmallestSubset
<1>2. PICK z \in t : h[t] # g[z] + h[t \ {z}]
  BY <1>1
<1> DEFINE x == Pick(t)
<1>3. x \in t /\ t \in SUBSET Caller /\ h[t] = g[x] + h[t \ {x}]
  BY <1>1, <1>2 DEF Sums, Pick
<1> HIDE DEF x
<1>4. x # z
  BY <1>2, <1>3
<1>5. t \ {x} \notin B /\ t \ {z} \notin B /\ t \ {x} \in SUBSET Caller /\ t \ {z} \in SUBSET Caller
  BY <1>1, <1>2, <1>3
<1>6. h[t \ {x}] = g[z] + h[(t \ {x}) \ {z}]
  BY <1>2, <1>4, <1>5
<1>7. h[t \ {z}] = g[x] + h[(t \ {z}) \ {x}]
  BY <1>3, <1>4, <1>5
<1>8. (t \ {x}) \ {z} = (t \ {z}) \ {x} /\ (t \ {x}) \ {z} \in SUBSET Caller
  BY <1>3
<1>9. g[x] \in Nat /\ g[z] \in Nat /\ h[(t \ {x}) \ {z}] \in Nat
  BY <1>2, <1>3, <1>8
<1>10. \A a, b, p \in Nat : a + (b + p) = b + (a + p)
  OBVIOUS
<1>11. h[t] = g[z] + (g[x] + h[(t \ {x}) \ {z}])
  BY <1>3, <1>6, <1>9, <1>10
<1>12. QED
  BY <1>2, <1>7, <1>8, <1>11

\* Sums over calls at which two functions agree are the same.
LEMMA SumsAgree ==
    ASSUME IsFiniteSet(Caller), NEW g, NEW h, Sums(g, h), NEW k, NEW l, Sums(k, l),
           NEW s \in SUBSET Caller, \A c \in s : g[c] = k[c]
    PROVE  h[s] = l[s]
<1> DEFINE B == {t \in SUBSET s : h[t] # l[t]}
<1> SUFFICES ASSUME B # {} PROVE FALSE
  OBVIOUS
<1>1. PICK t \in B : \A x \in t : t \ {x} \notin B
  BY SmallestSubset
<1>2. t \in SUBSET s /\ t \in SUBSET Caller /\ h[t] # l[t]
  BY <1>1
<1>3. t # {}
  BY <1>2 DEF Sums
<1>4. Pick(t) \in t
  BY <1>3 DEF Pick
<1>5. h[t \ {Pick(t)}] = l[t \ {Pick(t)}]
  BY <1>1, <1>2, <1>4
<1>6. g[Pick(t)] = k[Pick(t)]
  BY <1>2, <1>4
<1>7. h[t] = g[Pick(t)] + h[t \ {Pick(t)}] /\ l[t] = k[Pick(t)] + l[t \ {Pick(t)}]
  BY <1>2, <1>3 DEF Sums
<1>8. QED
  BY <1>2, <1>5, <1>6, <1>7

SameButAt(c, g, k) == \A d \in Caller \ {c} : g[d] = k[d]

\* When one call changes, the sum changes by as much.
LEMMA SumsMove ==
    ASSUME IsFiniteSet(Caller), NEW g \in [Caller -> Nat], NEW k \in [Caller -> Nat],
           NEW h \in [SUBSET Caller -> Nat], Sums(g, h),
           NEW l \in [SUBSET Caller -> Nat], Sums(k, l),
           NEW c \in Caller, SameButAt(c, g, k)
    PROVE  /\ l[Caller] = h[Caller] - g[c] + k[c]
           /\ g[c] <= h[Caller]
<1> Caller \in SUBSET Caller
  OBVIOUS
<1>1. h[Caller] = g[c] + h[Caller \ {c}] /\ l[Caller] = k[c] + l[Caller \ {c}]
  <2>1. \A s \in SUBSET Caller : \A y \in s : h[s] = g[y] + h[s \ {y}]
    BY SumsTakeOut
  <2>2. \A s \in SUBSET Caller : \A y \in s : l[s] = k[y] + l[s \ {y}]
    BY SumsTakeOut
  <2>3. QED
    BY <2>1, <2>2
<1>2. h[Caller \ {c}] = l[Caller \ {c}]
  BY SumsAgree DEF SameButAt
<1>3. g[c] \in Nat /\ k[c] \in Nat /\ h[Caller \ {c}] \in Nat
  OBVIOUS
<1>4. QED
  BY <1>1, <1>2, <1>3

\* No call holds anything: the sum is zero.
LEMMA SumsOfNothing ==
    ASSUME IsFiniteSet(Caller), NEW g, NEW h \in [SUBSET Caller -> Nat], Sums(g, h),
           \A c \in Caller : g[c] = 0
    PROVE  h[Caller] = 0
<1> DEFINE B == {t \in SUBSET Caller : h[t] # 0}
<1> SUFFICES ASSUME B # {} PROVE FALSE
  OBVIOUS
<1>1. PICK t \in B : \A x \in t : t \ {x} \notin B
  BY SmallestSubset
<1>2. t \in SUBSET Caller /\ h[t] # 0
  BY <1>1
<1>3. t # {}
  BY <1>2 DEF Sums
<1>4. Pick(t) \in t
  BY <1>3 DEF Pick
<1>5. h[t \ {Pick(t)}] = 0 /\ g[Pick(t)] = 0
  BY <1>1, <1>2, <1>4
<1>6. h[t] = g[Pick(t)] + h[t \ {Pick(t)}]
  BY <1>2, <1>3 DEF Sums
<1>7. QED
  BY <1>2, <1>5, <1>6

\* What adds up anything adds up to a natural number.
LEMMA SumsType ==
    ASSUME IsFiniteSet(Caller), NEW g \in [Caller -> Nat], NEW h, Sums(g, h)
    PROVE  h \in [SUBSET Caller -> Nat]
<1>1. PICK l \in [SUBSET Caller -> Nat] : Sums(g, l)
  BY SumsExist
<1>2. \A s \in SUBSET Caller : h[s] = l[s]
  BY <1>1, SumsAgree
<1>3. h = [s \in SUBSET Caller |-> h[s]]
  BY DEF Sums
<1>4. QED
  BY <1>1, <1>2, <1>3

-----------------------------------------------------------------------------
\* The fold of the model, over what the calls hold, is such a sum.
Hold == [c \in Caller |-> Held(c)]
HeldInAll == MapThenSumSet(Held, Caller)

LEMMA HoldType ==
    ASSUME TypeOK
    PROVE  Hold \in [Caller -> Nat]
  BY DEF TypeOK, Refund, Hold, Held

LEMMA FiniteCaller == IsFiniteSet(Caller)
  BY CallAssumption, FS_Union DEF Caller

LEMMA HeldInAllSums ==
    ASSUME TypeOK
    PROVE  \E h \in [SUBSET Caller -> Nat] : Sums(Hold, h) /\ HeldInAll = h[Caller]
<1> DEFINE W(h) == h = [s \in SUBSET Caller |->
                IF s = {} THEN 0 ELSE Held(Pick(s)) + h[s \ {Pick(s)}]]
           iter == CHOOSE h : W(h)
<1>1. HeldInAll = iter[Caller]
  BY DEF HeldInAll, MapThenSumSet, MapThenFoldSet, Pick
<1>2. ASSUME NEW h PROVE Sums(Hold, h) <=> W(h)
  <2>1. ASSUME NEW s \in SUBSET Caller, s # {} PROVE Hold[Pick(s)] = Held(Pick(s))
    BY <2>1 DEF Hold, Pick
  <2>2. QED
    BY <2>1 DEF Sums
<1>3. \E h : W(h)
  BY <1>2, FiniteCaller, HoldType, SumsExist
<1>4. W(iter)
  BY <1>3
<1>5. Sums(Hold, iter)
  BY <1>2, <1>4
<1> HIDE DEF iter
<1>6. iter \in [SUBSET Caller -> Nat]
  BY <1>5, FiniteCaller, HoldType, SumsType
<1>7. QED
  BY <1>1, <1>5, <1>6

\* The same of the next state.
LEMMA HeldInAllSumsNext ==
    ASSUME TypeOK'
    PROVE  \E h \in [SUBSET Caller -> Nat] : Sums(Hold', h) /\ HeldInAll' = h[Caller]
<1> DEFINE W(h) == h = [s \in SUBSET Caller |->
                IF s = {} THEN 0 ELSE Held(Pick(s))' + h[s \ {Pick(s)}]]
           iter == CHOOSE h : W(h)
<1>0. Hold' \in [Caller -> Nat]
  BY DEF TypeOK, Refund, Hold, Held
<1>1. HeldInAll' = iter[Caller]
  BY DEF HeldInAll, MapThenSumSet, MapThenFoldSet, Pick
<1>2. ASSUME NEW h PROVE Sums(Hold', h) <=> W(h)
  <2>1. ASSUME NEW s \in SUBSET Caller, s # {} PROVE Hold'[Pick(s)] = Held(Pick(s))'
    BY <2>1 DEF Hold, Pick
  <2>2. QED
    BY <2>1 DEF Sums
<1>3. \E h : W(h)
  BY <1>0, <1>2, FiniteCaller, SumsExist
<1>4. W(iter)
  BY <1>3
<1>5. Sums(Hold', iter)
  BY <1>2, <1>4
<1> HIDE DEF iter
<1>6. iter \in [SUBSET Caller -> Nat]
  BY <1>0, <1>5, FiniteCaller, SumsType
<1>7. QED
  BY <1>1, <1>5, <1>6

\* One call's row is written: the sum moves by what the row held and holds.
LEMMA HeldInAllMoves ==
    ASSUME TypeOK, TypeOK', NEW c \in Caller,
           \A d \in Caller \ {c} : refund'[d] = refund[d]
    PROVE  /\ HeldInAll \in Nat /\ Held(c) \in Nat /\ Held(c)' \in Nat
           /\ HeldInAll' = HeldInAll - Held(c) + Held(c)'
           /\ Held(c) <= HeldInAll
<1>1. PICK h \in [SUBSET Caller -> Nat] : Sums(Hold, h) /\ HeldInAll = h[Caller]
  BY HeldInAllSums
<1>2. PICK l \in [SUBSET Caller -> Nat] : Sums(Hold', l) /\ HeldInAll' = l[Caller]
  BY HeldInAllSumsNext
<1>3. Hold \in [Caller -> Nat] /\ Hold[c] = Held(c)
  BY HoldType DEF Hold
<1>4. Hold' \in [Caller -> Nat] /\ Hold'[c] = Held(c)'
  BY DEF TypeOK, Refund, Hold, Held
<1>5. SameButAt(c, Hold, Hold')
  BY DEF SameButAt, Hold, Held
<1>6. /\ l[Caller] = h[Caller] - Hold[c] + Hold'[c]
      /\ Hold[c] <= h[Caller]
  BY <1>1, <1>2, <1>3, <1>4, <1>5, FiniteCaller, SumsMove
<1>7. h[Caller] \in Nat
  OBVIOUS
<1>8. QED
  BY <1>1, <1>2, <1>3, <1>4, <1>6, <1>7

-----------------------------------------------------------------------------
\* The amount moves with the row of the call that writes both.
LEMMA LedgerMoves ==
    ASSUME RefundsInv, RefundsInv', LedgerIsSum, NEW c \in Caller, NEW r \in Refund,
           refund' = [refund EXCEPT ![c] = r],
           payment'.refundedAmount = payment.refundedAmount - Held(c)
               + (IF r.status \in {"pending", "succeeded"} THEN r.amount ELSE 0)
    PROVE  LedgerIsSum'
<1>1. TypeOK /\ TypeOK'
  BY DEF RefundsInv
<1>2. refund'[c] = r /\ \A d \in Caller \ {c} : refund'[d] = refund[d]
  BY <1>1 DEF TypeOK
<1>3. Held(c)' = IF r.status \in {"pending", "succeeded"} THEN r.amount ELSE 0
  BY <1>2 DEF Held
<1>4. HeldInAll' = HeldInAll - Held(c) + Held(c)'
  BY <1>1, <1>2, HeldInAllMoves
<1>5. payment.refundedAmount = HeldInAll
  BY DEF LedgerIsSum, HeldInAll
<1>6. payment'.refundedAmount = HeldInAll'
  BY <1>3, <1>4, <1>5
<1>7. QED
  BY <1>6 DEF LedgerIsSum, HeldInAll

\* Neither is written.
LEMMA LedgerStays ==
    ASSUME LedgerIsSum, UNCHANGED <<payment, refund>>
    PROVE  LedgerIsSum'
  BY DEF LedgerIsSum, MapThenSumSet, MapThenFoldSet, Held

\* A reservation and a local record hold what they add; the row they write
\* held nothing before.
LEMMA HoldingKeepsLedger ==
    ASSUME RefundsInv, RefundsInv', LedgerIsSum, NEW c \in Caller, Reserve(c) \/ Record(c)
    PROVE  LedgerIsSum'
<1> DEFINE p == call[c].seen
           amount == Asked(c, p)
           total == p.refundedAmount + amount
<1>1. call[c].pc \in Before /\ refund[c].status = "none"
  BY DEF RefundsInv, Place, Before, Reserve, Record
<1>2. Held(c) = 0
  BY <1>1 DEF Held
<1>3. CASE UNCHANGED <<payment, refund>>
  BY <1>3, LedgerStays
<1>4. ASSUME NEW status \in {"pending", "succeeded"}, Unchanged(c),
             payment' = [status |-> StatusAfterRefund(total), refundedAmount |-> total],
             refund' = [refund EXCEPT ![c] =
                  [status |-> status, amount |-> amount, providerKnown |-> FALSE]]
      PROVE  LedgerIsSum'
  <2> DEFINE r == [status |-> status, amount |-> amount, providerKnown |-> FALSE]
  <2>1. refund'[c] = r
    BY <1>4 DEF RefundsInv, TypeOK
  <2>2. r \in Refund /\ r.status \in {"pending", "succeeded"} /\ r.amount = amount
    BY <2>1 DEF RefundsInv, TypeOK
  <2>3. amount \in Nat
    BY <2>2 DEF Refund
  <2>4. payment'.refundedAmount = payment.refundedAmount + amount
    BY <1>4 DEF Unchanged
  <2>5. payment.refundedAmount \in Nat
    BY CallType DEF RefundsInv
  <2> HIDE DEF r, amount
  <2>6. payment'.refundedAmount = payment.refundedAmount - Held(c)
            + (IF r.status \in {"pending", "succeeded"} THEN r.amount ELSE 0)
    BY <1>2, <2>2, <2>3, <2>4, <2>5
  <2>7. refund' = [refund EXCEPT ![c] = r]
    BY <1>4 DEF r, amount
  <2>8. QED
    BY <2>2, <2>6, <2>7, LedgerMoves
<1>5. QED
  BY <1>3, <1>4 DEF Reserve, Record

\* A release gives back what the row held, which the amount still covers.
LEMMA ReleaseKeepsLedger ==
    ASSUME RefundsInv, RefundsInv', LedgerIsSum, NEW c \in Caller, Release(c)
    PROVE  LedgerIsSum'
<1>1. /\ refund[c].status = "pending" /\ refund[c] \in Refund /\ refund[c].amount \in Nat
      /\ payment.refundedAmount \in Nat /\ TypeOK
  BY CallType DEF RefundsInv, Place, During, Release, Refund
<1>2. Held(c) = refund[c].amount
  BY <1>1 DEF Held
<1>3. Held(c) <= payment.refundedAmount
  <2>1. \A d \in Caller \ {c} : refund'[d] = refund[d]
    BY DEF Release, Patched, RefundsInv, TypeOK
  <2>2. Held(c) <= HeldInAll
    BY <2>1, HeldInAllMoves DEF RefundsInv
  <2>3. QED
    BY <2>2 DEF LedgerIsSum, HeldInAll
<1>4. ASSUME NEW status \in {"failed", "canceled", "pending"}, refund' = Patched(c, status),
             payment'.refundedAmount =
                 IF status = "pending" THEN payment.refundedAmount
                 ELSE payment.refundedAmount - refund[c].amount
      PROVE  LedgerIsSum'
  <2> DEFINE r == [refund[c] EXCEPT !.status = status,
                                    !.providerKnown = @ \/ call[c].answer # "threw"]
  <2>1. r \in Refund /\ r.status = status /\ r.amount = refund[c].amount
    BY <1>1 DEF Refund, RefundStatus
  <2>2. refund' = [refund EXCEPT ![c] = r]
    BY <1>1, <1>4 DEF TypeOK, Patched
  <2> HIDE DEF r
  <2>3. payment'.refundedAmount = payment.refundedAmount - Held(c)
            + (IF r.status \in {"pending", "succeeded"} THEN r.amount ELSE 0)
    BY <1>1, <1>2, <1>4, <2>1
  <2>4. QED
    BY <2>1, <2>2, <2>3, LedgerMoves
<1>5. CASE /\ Unchanged(c)
           /\ payment' = [status |-> StatusAfterRelease(GivenBack(c)),
                          refundedAmount |-> GivenBack(c)]
           /\ refund' = Patched(c, ReleasedStatus(c))
  <2>1. GivenBack(c) = payment.refundedAmount - refund[c].amount
    BY <1>1, <1>2, <1>3, <1>5 DEF GivenBack, Unchanged
  <2>2. ReleasedStatus(c) \in {"failed", "canceled"}
    BY DEF ReleasedStatus
  <2>3. QED
    BY <1>4, <1>5, <2>1, <2>2
<1>6. CASE UNCHANGED <<payment, refund>>
  BY <1>6, LedgerStays
<1>7. CASE refund' = Patched(c, "pending") /\ UNCHANGED payment
  BY <1>4, <1>7
<1>8. QED
  BY <1>5, <1>6, <1>7 DEF Release

\* What the provider answered changes the row, and nothing it holds.
LEMMA AnswerKeepsLedger ==
    ASSUME RefundsInv, RefundsInv', LedgerIsSum, NEW c \in Caller,
           RejectResponse(c) \/ Finalize(c)
    PROVE  LedgerIsSum'
<1>1. /\ refund[c].status = "pending" /\ refund[c] \in Refund /\ refund[c].amount \in Nat
      /\ payment.refundedAmount \in Nat /\ TypeOK /\ UNCHANGED payment
  BY CallType DEF RefundsInv, Place, During, RejectResponse, Finalize, Refund
<1>2. Held(c) = refund[c].amount
  BY <1>1 DEF Held
<1>3. ASSUME NEW r \in Refund, refund' = [refund EXCEPT ![c] = r],
             r.status \in {"pending", "succeeded"}, r.amount = refund[c].amount
      PROVE  LedgerIsSum'
  <2>1. payment'.refundedAmount = payment.refundedAmount - Held(c)
            + (IF r.status \in {"pending", "succeeded"} THEN r.amount ELSE 0)
    BY <1>1, <1>2, <1>3
  <2>2. QED
    BY <1>3, <2>1, LedgerMoves
<1>4. CASE RejectResponse(c)
  <2> DEFINE r == [refund[c] EXCEPT !.providerKnown = @ \/ call[c].answer = "mismatch"]
  <2>1. r \in Refund /\ r.status = "pending" /\ r.amount = refund[c].amount
    BY <1>1 DEF Refund
  <2>2. refund' = [refund EXCEPT ![c] = r]
    BY <1>1, <1>4 DEF TypeOK, RejectResponse
  <2> HIDE DEF r
  <2>3. QED
    BY <1>3, <2>1, <2>2
<1>5. CASE Finalize(c)
  <2> DEFINE r == [refund[c] EXCEPT !.status = call[c].answer, !.providerKnown = TRUE]
  <2>1. r \in Refund /\ r.status \in {"pending", "succeeded"} /\ r.amount = refund[c].amount
    BY <1>1, <1>5 DEF Refund, RefundStatus, Finalize
  <2>2. refund' = [refund EXCEPT ![c] = r]
    BY <1>1, <1>5 DEF TypeOK, Finalize
  <2> HIDE DEF r
  <2>3. QED
    BY <1>3, <2>1, <2>2
<1>6. QED
  BY <1>4, <1>5

LEMMA NextKeepsLedger ==
    ASSUME RefundsInv, RefundsInv', LedgerIsSum, [Next]_vars
    PROVE  LedgerIsSum'
<1>1. ASSUME NEW c \in Caller, Reserve(c) \/ Record(c) PROVE LedgerIsSum'
  BY <1>1, HoldingKeepsLedger
<1>2. ASSUME NEW c \in Caller, Release(c) PROVE LedgerIsSum'
  BY <1>2, ReleaseKeepsLedger
<1>3. ASSUME NEW c \in Caller, RejectResponse(c) \/ Finalize(c) PROVE LedgerIsSum'
  BY <1>3, AnswerKeepsLedger
<1>4. ASSUME NEW c \in Caller,
             \/ RefundPayment(c) \/ CheckPending(c) \/ StartReserve(c) \/ ProviderRefund(c)
             \/ BeginRelease(c) \/ StartRelease(c) \/ RefundLocal(c) \/ StartRecord(c)
             \/ Crash(c)
      PROVE  LedgerIsSum'
  <2>1. UNCHANGED <<payment, refund>>
    BY <1>4 DEF RefundPayment, CheckPending, StartReserve, ProviderRefund, BeginRelease,
                StartRelease, RefundLocal, StartRecord, Crash
  <2>2. QED
    BY <2>1, LedgerStays
<1>5. CASE UNCHANGED vars
  BY <1>5, LedgerStays DEF vars
<1>6. QED
  BY <1>1, <1>2, <1>3, <1>4, <1>5 DEF Next, Caller

LEMMA InitLedger == Init => LedgerIsSum
<1> SUFFICES ASSUME Init PROVE LedgerIsSum
  OBVIOUS
<1>1. TypeOK
  BY InitRefunds DEF RefundsInv
<1>2. PICK h \in [SUBSET Caller -> Nat] : Sums(Hold, h) /\ HeldInAll = h[Caller]
  BY <1>1, HeldInAllSums
<1>3. \A c \in Caller : Hold[c] = 0
  BY DEF Init, Hold, Held, NoRefund
<1>4. h[Caller] = 0
  BY <1>2, <1>3, FiniteCaller, SumsOfNothing
<1>5. payment.refundedAmount = 0
  BY DEF Init
<1>6. QED
  BY <1>2, <1>4, <1>5 DEF LedgerIsSum, HeldInAll

\* payments.refundedAmount is the sum of the amounts of the pending and the
\* succeeded refund rows: tryReserve, tryPersist and the release attempt each
\* write both in one transaction, from a read that the swap has just tested,
\* and no path drops or repeats an amount.
THEOREM LedgerAddsUp == Spec => []LedgerIsSum
<1>1. RefundsInv /\ RefundsInv' /\ LedgerIsSum /\ [Next]_vars => LedgerIsSum'
  BY NextKeepsLedger
<1>2. QED
  BY <1>1, InitLedger, RefundsInvariant, PTL DEF Spec

-----------------------------------------------------------------------------
(* The inbox.                                                              *)

\* The inbox, without what its properties do not depend on: the job and the
\* answers are left to the provider and the queue.
InboxTypeOK ==
    /\ row \in [status : {"absent", "pending", "processing", "processed", "failed"},
               token : Runner \cup {None}, claimLeft : Nat]
    /\ pc \in [Runner -> Running \cup {"idle", "done"}]
    /\ lease \in [Runner -> Nat]
    /\ audits \in Nat
    /\ outbox \in {0, 1}
    /\ count \in [Happening -> Nat]

\* What may have been written twice for a reason.
Excused == count["replay"] + count["lostReplay"] + count["lostAck"]

InPipeline == {"catalog", "committing"}

\* While an event is not processed its next processing is still to be paid
\* for, so that there is room for one entry more.
AuditsAccounted ==
    /\ audits <= 1 + Excused
    /\ row.status # "processed" => audits <= Excused

\* A run that still owns the row works on a claimed event; when it fails over
\* a processed one, its own commit was not acknowledged.
OwnerAccounted(r) ==
    Owns(r) =>
        /\ pc[r] \in InPipeline => row.status = "processing"
        /\ pc[r] = "failing" => audits <= Excused

\* A run inside its lease owns the row, whose claim lasts at least as long.
LeaseHeld(r) ==
    pc[r] \in InPipeline /\ lease[r] > 0 =>
        Owns(r) /\ row.status = "processing" /\ lease[r] <= row.claimLeft

InboxInv ==
    /\ InboxTypeOK
    /\ AuditsAccounted
    /\ \A r \in Runner : OwnerAccounted(r) /\ LeaseHeld(r)

LEMMA InitInbox == InboxInit => InboxInv
<1> SUFFICES ASSUME InboxInit PROVE InboxInv
  OBVIOUS
<1>1. InboxTypeOK
  BY DEF InboxInit, InboxTypeOK, NoRow
<1>2. AuditsAccounted
  BY DEF InboxInit, AuditsAccounted, Excused, Happening
<1>3. ASSUME NEW r \in Runner PROVE OwnerAccounted(r) /\ LeaseHeld(r)
  BY <1>3 DEF InboxInit, OwnerAccounted, LeaseHeld, InPipeline
<1>4. QED
  BY <1>1, <1>2, <1>3 DEF InboxInv

\* Counting a happening excuses no less.
LEMMA HappensExcuses ==
    ASSUME InboxTypeOK, NEW what \in Happening, Happens(what)
    PROVE  /\ count' \in [Happening -> Nat]
           /\ Excused \in Nat /\ Excused' \in Nat /\ Excused <= Excused'
           /\ what \in {"replay", "lostReplay", "lostAck"} => Excused' = Excused + 1
<1>1. count' = [count EXCEPT ![what] = @ + 1] /\ count \in [Happening -> Nat]
  BY DEF Happens, InboxTypeOK
<1>2. {"replay", "lostReplay", "lostAck"} \subseteq Happening
  BY DEF Happening
<1>3. count[what] \in Nat /\ count[what] + 1 \in Nat
  BY <1>1
<1>4. count' \in [Happening -> Nat] /\ count'[what] = count[what] + 1
      /\ \A h \in Happening \ {what} : count'[h] = count[h]
  BY <1>1, <1>3
<1>5. QED
  BY <1>1, <1>2, <1>3, <1>4 DEF Excused

LEMMA SameExcused ==
    ASSUME InboxTypeOK, UNCHANGED count
    PROVE  /\ count' \in [Happening -> Nat]
           /\ Excused \in Nat /\ Excused' = Excused
  BY DEF InboxTypeOK, Excused, Happening

\* Where an actor is sent, and that the others stay where they are.
LEMMA GotoMoves ==
    ASSUME InboxTypeOK, NEW r \in Runner,
           NEW label \in Running \cup {"idle", "done"}, Goto(r, label)
    PROVE  /\ pc' \in [Runner -> Running \cup {"idle", "done"}]
           /\ pc'[r] = label
           /\ \A s \in Runner \ {r} : pc'[s] = pc[s]
  BY DEF InboxTypeOK, Goto

\* A run that ends has left the pipeline, and its lease with it.
LEMMA FinishMoves ==
    ASSUME InboxTypeOK, NEW r \in Runner, NEW ok, Finish(r, ok)
    PROVE  /\ pc' \in [Runner -> Running \cup {"idle", "done"}]
           /\ pc'[r] \in {"idle", "done", "settling"}
           /\ \A s \in Runner \ {r} : pc'[s] = pc[s]
           /\ lease' \in [Runner -> Nat]
           /\ \A s \in Runner \ {r} : lease'[s] = lease[s]
<1>1. /\ lease' \in [Runner -> Nat]
      /\ \A s \in Runner \ {r} : lease'[s] = lease[s]
  BY DEF Finish, InboxTypeOK
<1>2. Goto(r, "idle") \/ Goto(r, "done") \/ Goto(r, "settling")
  BY DEF Finish, Respond
<1>3. QED
  BY <1>1, <1>2, GotoMoves DEF Running

-----------------------------------------------------------------------------
\* What an actor may do without touching the row or the audit log.
Keeps(s) ==
    \/ pc'[s] \notin InPipeline \cup {"failing"}
    \/ pc'[s] = pc[s] /\ lease'[s] = lease[s]
    \/ pc[s] \in InPipeline /\ pc'[s] \in InPipeline /\ lease'[s] = lease[s]
    \/ pc[s] \in InPipeline /\ pc'[s] = "failing"

LEMMA QuietStep ==
    ASSUME InboxInv, InboxTypeOK', UNCHANGED <<row, audits, outbox>>,
           Excused \in Nat, Excused' \in Nat, Excused <= Excused',
           \A s \in Runner : Keeps(s)
    PROVE  InboxInv'
<1>1. audits \in Nat
  BY DEF InboxInv, InboxTypeOK
<1>2. AuditsAccounted'
  <2>1. /\ audits <= 1 + Excused
        /\ row.status # "processed" => audits <= Excused
    BY DEF InboxInv, AuditsAccounted
  <2>2. \A m, n, p \in Nat : n <= p =>
            /\ m <= n => m <= p
            /\ m <= 1 + n => m <= 1 + p
    OBVIOUS
  <2>3. /\ audits <= 1 + Excused'
        /\ row.status # "processed" => audits <= Excused'
    BY <1>1, <2>1, <2>2
  <2>4. QED
    BY <2>3 DEF AuditsAccounted
<1>3. ASSUME NEW s \in Runner PROVE OwnerAccounted(s)' /\ LeaseHeld(s)'
  <2>1. OwnerAccounted(s) /\ LeaseHeld(s) /\ AuditsAccounted /\ Keeps(s)
    BY DEF InboxInv
  <2>2. OwnerAccounted(s)'
    BY <1>1, <2>1 DEF OwnerAccounted, AuditsAccounted, Keeps, Owns, InPipeline
  <2>3. LeaseHeld(s)'
    BY <2>1 DEF LeaseHeld, Keeps, Owns, InPipeline
  <2>4. QED
    BY <2>2, <2>3
<1>4. QED
  BY <1>2, <1>3 DEF InboxInv

\* One actor moves, and its lease stays.
LEMMA ActorMoves ==
    ASSUME InboxInv, NEW r \in Runner,
           NEW label \in Running \cup {"idle", "done"}, Goto(r, label),
           UNCHANGED <<row, audits, outbox, lease>>,
           count' \in [Happening -> Nat],
           Excused \in Nat, Excused' \in Nat, Excused <= Excused',
           \/ label \notin InPipeline \cup {"failing"}
           \/ pc[r] \in InPipeline
    PROVE  InboxInv'
<1>1. InboxTypeOK
  BY DEF InboxInv
<1>2. /\ pc' \in [Runner -> Running \cup {"idle", "done"}]
      /\ pc'[r] = label
      /\ \A s \in Runner \ {r} : pc'[s] = pc[s]
  BY <1>1, GotoMoves
<1>3. InboxTypeOK'
  BY <1>1, <1>2 DEF InboxTypeOK
<1>4. ASSUME NEW s \in Runner PROVE Keeps(s)
  BY <1>2 DEF Keeps
<1>5. QED
  BY <1>3, <1>4, QuietStep

\* One actor ends its run.
LEMMA RunEnds ==
    ASSUME InboxInv, NEW r \in Runner, NEW ok, Finish(r, ok),
           UNCHANGED <<row, audits, outbox>>,
           count' \in [Happening -> Nat],
           Excused \in Nat, Excused' \in Nat, Excused <= Excused'
    PROVE  InboxInv'
<1>1. InboxTypeOK
  BY DEF InboxInv
<1>2. /\ pc' \in [Runner -> Running \cup {"idle", "done"}]
      /\ pc'[r] \in {"idle", "done", "settling"}
      /\ \A s \in Runner \ {r} : pc'[s] = pc[s]
      /\ lease' \in [Runner -> Nat]
      /\ \A s \in Runner \ {r} : lease'[s] = lease[s]
  BY <1>1, FinishMoves
<1>3. InboxTypeOK'
  BY <1>1, <1>2 DEF InboxTypeOK
<1>4. ASSUME NEW s \in Runner PROVE Keeps(s)
  BY <1>2 DEF Keeps, InPipeline
<1>5. QED
  BY <1>3, <1>4, QuietStep

-----------------------------------------------------------------------------
\* The steps of a delivery.

\* The row is inserted, by an insert that answers or by one that throws.
LEMMA EventCreated ==
    ASSUME InboxInv, NEW r \in Runner, NEW label \in {"dispatching", "raced"},
           Goto(r, label),
           row.status = "absent", row' = [row EXCEPT !.status = "pending"],
           UNCHANGED <<lease, audits, outbox>>,
           count' \in [Happening -> Nat],
           Excused \in Nat, Excused' \in Nat, Excused <= Excused'
    PROVE  InboxInv'
<1>1. InboxTypeOK /\ AuditsAccounted
  BY DEF InboxInv
<1>2. /\ pc' \in [Runner -> Running \cup {"idle", "done"}]
      /\ pc'[r] = label
      /\ \A s \in Runner \ {r} : pc'[s] = pc[s]
  BY <1>1, GotoMoves DEF Running
<1>3. row'.status = "pending" /\ row'.token = row.token /\ row'.claimLeft = row.claimLeft
  BY <1>1 DEF InboxTypeOK
<1>4. InboxTypeOK'
  BY <1>1, <1>2 DEF InboxTypeOK
<1>5. audits <= Excused /\ audits \in Nat
  BY <1>1 DEF AuditsAccounted, InboxTypeOK
<1>6. \A k, n, p \in Nat : k <= n /\ n <= p => k <= p /\ k <= 1 + p
  OBVIOUS
<1>7. audits <= Excused' /\ audits <= 1 + Excused'
  BY <1>5, <1>6
<1>8. AuditsAccounted'
  BY <1>7 DEF AuditsAccounted
<1>9. ASSUME NEW s \in Runner PROVE OwnerAccounted(s)' /\ LeaseHeld(s)'
  <2>1. OwnerAccounted(s) /\ LeaseHeld(s)
    BY DEF InboxInv
  <2>2. s # r => pc'[s] = pc[s] /\ lease'[s] = lease[s]
    BY <1>2
  <2>3. QED
    BY <1>2, <1>3, <1>7, <2>1, <2>2 DEF OwnerAccounted, LeaseHeld, Owns, InPipeline
<1>10. QED
  BY <1>4, <1>8, <1>9 DEF InboxInv

LEMMA DuplicateMoves ==
    ASSUME NEW r, Duplicate(r)
    PROVE  Goto(r, "dispatching") \/ Goto(r, "done")
  BY DEF Duplicate, Respond

LEMMA ServeKeeps ==
    ASSUME InboxInv, NEW r \in Request, Serve(r) \/ Redeliver(r)
    PROVE  InboxInv'
<1> r \in Runner
  BY DEF Runner
<1>1. InboxTypeOK
  BY DEF InboxInv
<1>t. "fault" \in Happening /\ "redelivery" \in Happening
  BY DEF Happening
<1>2. CASE Receive(r)
  <2>1. Goto(r, "creating") \/ Goto(r, "dispatching") \/ Goto(r, "done")
    BY <1>2, DuplicateMoves DEF Receive
  <2>2. UNCHANGED <<row, audits, outbox, lease, count>>
    BY <1>2 DEF Receive
  <2>3. QED
    BY <1>1, <2>1, <2>2, SameExcused, ActorMoves DEF Running, InPipeline
<1>3. CASE CreateEvent(r) /\ row.status = "absent"
  <2>1. /\ row' = [row EXCEPT !.status = "pending"] /\ Goto(r, "dispatching")
        /\ UNCHANGED <<lease, audits, outbox, count>>
    BY <1>3 DEF CreateEvent
  <2>2. QED
    BY <1>1, <1>3, <2>1, SameExcused, EventCreated
<1>4. CASE CreateEvent(r) /\ row.status # "absent"
  <2>1. Goto(r, "raced") /\ UNCHANGED <<row, audits, outbox, lease, count>>
    BY <1>4 DEF CreateEvent
  <2>2. QED
    BY <1>1, <2>1, SameExcused, ActorMoves DEF Running, InPipeline
<1>5. CASE CreateThrows(r)
  <2>1. /\ Goto(r, "raced") /\ UNCHANGED <<audits, outbox, lease>>
        /\ Happens("fault")
        /\ \/ UNCHANGED row
           \/ row.status = "absent" /\ row' = [row EXCEPT !.status = "pending"]
    BY <1>5 DEF CreateThrows
  <2>2. CASE UNCHANGED row
    BY <1>1, <1>t, <2>1, <2>2, HappensExcuses, ActorMoves DEF Running, InPipeline
  <2>3. CASE row.status = "absent" /\ row' = [row EXCEPT !.status = "pending"]
    BY <1>1, <1>t, <2>1, <2>3, HappensExcuses, EventCreated
  <2>4. QED
    BY <2>1, <2>2, <2>3
<1>6. CASE LookUpRaced(r)
  <2>1. Goto(r, "dispatching") \/ Goto(r, "done")
    BY <1>6, DuplicateMoves DEF LookUpRaced, Respond
  <2>2. UNCHANGED <<row, audits, outbox, lease, count>>
    BY <1>6 DEF LookUpRaced
  <2>3. QED
    BY <1>1, <2>1, <2>2, SameExcused, ActorMoves DEF Running, InPipeline
<1>7. CASE Dispatch(r)
  <2>1. Goto(r, "done") /\ UNCHANGED <<row, audits, outbox, lease, count>>
    BY <1>7 DEF Dispatch, Respond
  <2>2. QED
    BY <1>1, <2>1, SameExcused, ActorMoves DEF Running, InPipeline
<1>8. CASE DispatchThrows(r)
  <2>1. /\ Goto(r, "done") /\ UNCHANGED <<row, audits, outbox, lease>>
        /\ Happens("fault")
    BY <1>8 DEF DispatchThrows, Respond
  <2>2. QED
    BY <1>1, <1>t, <2>1, HappensExcuses, ActorMoves DEF Running, InPipeline
<1>9. CASE DispatchInline(r)
  <2>1. Goto(r, "reading") /\ UNCHANGED <<row, audits, outbox, lease, count>>
    BY <1>9 DEF DispatchInline
  <2>2. QED
    BY <1>1, <2>1, SameExcused, ActorMoves DEF Running, InPipeline
<1>10. CASE Settle(r)
  <2>1. Goto(r, "done") /\ UNCHANGED <<row, audits, outbox, lease, count>>
    BY <1>10 DEF Settle, Respond
  <2>2. QED
    BY <1>1, <2>1, SameExcused, ActorMoves DEF Running, InPipeline
<1>11. CASE ServeThrows(r)
  <2>1. /\ Goto(r, "done") /\ UNCHANGED <<row, audits, outbox, lease>>
        /\ Happens("fault")
    BY <1>11 DEF ServeThrows, Respond
  <2>2. QED
    BY <1>1, <1>t, <2>1, HappensExcuses, ActorMoves DEF Running, InPipeline
<1>12. CASE Redeliver(r)
  <2>1. /\ Goto(r, "idle") /\ UNCHANGED <<row, audits, outbox, lease>>
        /\ Happens("redelivery")
    BY <1>12 DEF Redeliver
  <2>2. QED
    BY <1>1, <1>t, <2>1, HappensExcuses, ActorMoves DEF Running, InPipeline
<1>13. QED
  BY <1>2, <1>3, <1>4, <1>5, <1>6, <1>7, <1>8, <1>9, <1>10, <1>11, <1>12 DEF Serve

\* The queue moves jobs; it does not see the row.
LEMMA QueueKeeps ==
    ASSUME InboxInv,
           StallJob \/ RecoverJob \/ ForgetJob \/ \E w \in Worker : TakeJob(w)
    PROVE  InboxInv'
<1>1. InboxTypeOK
  BY DEF InboxInv
<1>t. "jobStall" \in Happening
  BY DEF Happening
<1>2. ASSUME NEW w \in Worker, TakeJob(w) PROVE InboxInv'
  <2>1. w \in Runner
    BY DEF Runner
  <2>2. Goto(w, "reading") /\ UNCHANGED <<row, audits, outbox, lease, count>>
    BY <1>2 DEF TakeJob
  <2>3. QED
    BY <1>1, <2>1, <2>2, SameExcused, ActorMoves DEF Running, InPipeline
<1>3. CASE StallJob \/ RecoverJob \/ ForgetJob
  <2>1. UNCHANGED <<row, pc, audits, outbox, lease>>
    BY <1>3 DEF StallJob, RecoverJob, ForgetJob
  <2>2. Happens("jobStall") \/ UNCHANGED count
    BY <1>3 DEF StallJob, RecoverJob, ForgetJob
  <2>3. /\ count' \in [Happening -> Nat]
        /\ Excused \in Nat /\ Excused' \in Nat /\ Excused <= Excused'
    BY <1>1, <1>t, <2>2, HappensExcuses, SameExcused
  <2>4. InboxTypeOK'
    BY <1>1, <2>1, <2>3 DEF InboxTypeOK
  <2>5. \A s \in Runner : Keeps(s)
    BY <2>1 DEF Keeps
  <2>6. QED
    BY <2>1, <2>3, <2>4, <2>5, QuietStep
<1>4. QED
  BY <1>2, <1>3

-----------------------------------------------------------------------------
\* The steps of a run.

\* claim(): the token is new, and whoever had the row before is past its lease
\* or out of the pipeline.  The claim may start a run or throw.
LEMMA RowClaimed ==
    ASSUME InboxInv, InboxTypeOK', NEW r \in Runner, Claimable(r),
           row' = Claimed(r), UNCHANGED <<audits, outbox>>,
           Excused \in Nat, Excused' \in Nat, Excused <= Excused',
           r \in Operator => Excused' = Excused + 1,
           \A s \in Runner \ {r} : pc'[s] = pc[s] /\ lease'[s] = lease[s],
           pc'[r] \in InPipeline => lease'[r] = ClaimTtl
    PROVE  InboxInv'
<1>1. InboxTypeOK /\ AuditsAccounted
  BY DEF InboxInv
<1>2. /\ row'.status = "processing" /\ row'.token = r /\ row'.claimLeft = ClaimTtl
      /\ ClaimTtl \in Nat
  BY InboxAssumption DEF Claimed
<1>3. audits <= Excused'
  <2>1. CASE row.status = "processed"
    <3>1. r \in Operator
      BY <2>1 DEF Claimable
    <3>2. audits <= 1 + Excused /\ Excused' = Excused + 1
      BY <1>1, <3>1 DEF AuditsAccounted
    <3>3. QED
      BY <3>2
  <2>2. CASE row.status # "processed"
    <3>1. audits <= Excused /\ audits \in Nat
      BY <1>1, <2>2 DEF AuditsAccounted, InboxTypeOK
    <3>2. \A k, n, p \in Nat : k <= n /\ n <= p => k <= p
      OBVIOUS
    <3>3. QED
      BY <3>1, <3>2
  <2>3. QED
    BY <2>1, <2>2
<1>4. AuditsAccounted'
  <2>1. audits \in Nat
    BY <1>1 DEF InboxTypeOK
  <2>2. \A k, n \in Nat : k <= n => k <= 1 + n
    OBVIOUS
  <2>3. audits <= 1 + Excused'
    BY <1>3, <2>1, <2>2
  <2>4. QED
    BY <1>3, <2>3 DEF AuditsAccounted
<1>5. ASSUME NEW s \in Runner PROVE OwnerAccounted(s)' /\ LeaseHeld(s)'
  <2>1. CASE s = r
    BY <1>2, <1>3, <2>1 DEF OwnerAccounted, LeaseHeld, Owns
  <2>2. CASE s # r
    <3>1. OwnerAccounted(s)'
      BY <1>2, <2>2 DEF OwnerAccounted, Owns
    <3>2. pc'[s] = pc[s] /\ lease'[s] = lease[s] /\ lease[s] \in Nat /\ LeaseHeld(s)
      BY <1>1, <2>2 DEF InboxInv, InboxTypeOK
    <3>3. ~(pc[s] \in InPipeline /\ lease[s] > 0)
      BY <3>2 DEF LeaseHeld, Claimable
    <3>4. QED
      BY <3>1, <3>2, <3>3 DEF LeaseHeld
  <2>3. QED
    BY <2>1, <2>2
<1>6. QED
  BY <1>4, <1>5 DEF InboxInv

LEMMA ClaimedType ==
    ASSUME NEW r \in Runner
    PROVE  Claimed(r) \in [status : {"absent", "pending", "processing", "processed", "failed"},
                           token : Runner \cup {None}, claimLeft : Nat]
  BY InboxAssumption DEF Claimed

LEMMA ClaimTaken ==
    ASSUME InboxInv, NEW r \in Runner, NEW next \in InPipeline,
           TakeClaim(r, next), Claimable(r)
    PROVE  InboxInv'
<1>1. InboxTypeOK
  BY DEF InboxInv
<1>2. /\ row' = Claimed(r)
      /\ lease' = [lease EXCEPT ![r] = ClaimTtl]
      /\ Goto(r, next)
      /\ UNCHANGED <<audits, outbox>>
      /\ IF r \in Operator THEN Happens("replay") ELSE UNCHANGED count
  BY DEF TakeClaim
<1>3. ClaimTtl \in Nat
  BY InboxAssumption
<1>4. next \in Running \cup {"idle", "done"}
  BY DEF InPipeline, Running
<1>5. /\ pc' \in [Runner -> Running \cup {"idle", "done"}]
      /\ pc'[r] = next
      /\ \A s \in Runner \ {r} : pc'[s] = pc[s]
  BY <1>1, <1>2, <1>4, GotoMoves
<1>6. /\ lease' \in [Runner -> Nat]
      /\ lease'[r] = ClaimTtl
      /\ \A s \in Runner \ {r} : lease'[s] = lease[s]
  BY <1>1, <1>2, <1>3 DEF InboxTypeOK
<1>7. /\ count' \in [Happening -> Nat]
      /\ Excused \in Nat /\ Excused' \in Nat /\ Excused <= Excused'
      /\ r \in Operator => Excused' = Excused + 1
  BY <1>1, <1>2, HappensExcuses, SameExcused DEF Happening
<1>8. InboxTypeOK'
  BY <1>1, <1>2, <1>5, <1>6, <1>7, ClaimedType DEF InboxTypeOK
<1>9. QED
  BY <1>2, <1>5, <1>6, <1>7, <1>8, RowClaimed

\* The claim throws, its UPDATE committed or not.
LEMMA ClaimThrowsKeeps ==
    ASSUME InboxInv, NEW r \in Runner, ClaimThrows(r)
    PROVE  InboxInv'
<1>1. InboxTypeOK
  BY DEF InboxInv
<1>t. {"fault", "lostReplay", "lostClaim"} \subseteq Happening
  BY DEF Happening
<1>2. Finish(r, FALSE) /\ UNCHANGED <<audits, outbox>>
  BY DEF ClaimThrows
<1>3. CASE Happens("fault") /\ UNCHANGED row
  BY <1>1, <1>t, <1>2, <1>3, HappensExcuses, RunEnds
<1>4. CASE /\ Claimable(r)
           /\ Happens(IF r \in Operator THEN "lostReplay" ELSE "lostClaim")
           /\ row' = Claimed(r)
  <2>1. /\ pc' \in [Runner -> Running \cup {"idle", "done"}]
        /\ pc'[r] \in {"idle", "done", "settling"}
        /\ \A s \in Runner \ {r} : pc'[s] = pc[s]
        /\ lease' \in [Runner -> Nat]
        /\ \A s \in Runner \ {r} : lease'[s] = lease[s]
    BY <1>1, <1>2, FinishMoves
  <2>2. /\ count' \in [Happening -> Nat]
        /\ Excused \in Nat /\ Excused' \in Nat /\ Excused <= Excused'
        /\ r \in Operator => Excused' = Excused + 1
    BY <1>1, <1>t, <1>4, HappensExcuses
  <2>3. InboxTypeOK'
    BY <1>1, <1>2, <1>4, <2>1, <2>2, ClaimedType DEF InboxTypeOK
  <2>4. pc'[r] \notin InPipeline
    BY <2>1 DEF InPipeline
  <2>5. QED
    BY <1>2, <1>4, <2>1, <2>2, <2>3, <2>4, RowClaimed
<1>5. QED
  BY <1>3, <1>4 DEF ClaimThrows

LEMMA TakeClaimKeeps ==
    ASSUME InboxInv, NEW r \in Runner, NEW next \in InPipeline, TakeClaim(r, next)
    PROVE  InboxInv'
<1>1. CASE Claimable(r)
  BY <1>1, ClaimTaken
<1>2. CASE ~Claimable(r)
  <2>1. Finish(r, TRUE) /\ UNCHANGED <<row, audits, outbox, count>>
    BY <1>2 DEF TakeClaim
  <2>2. InboxTypeOK
    BY DEF InboxInv
  <2>3. /\ count' \in [Happening -> Nat]
        /\ Excused \in Nat /\ Excused' \in Nat /\ Excused <= Excused'
    BY <2>1, <2>2, SameExcused
  <2>4. QED
    BY <2>1, <2>3, RunEnds
<1>3. QED
  BY <1>1, <1>2

\* The mark of a run that owns the row, at its end or before it fails: nobody
\* else owns the row, so that only its own place is looked at.
LEMMA OwnerWrites ==
    ASSUME InboxInv, InboxTypeOK', NEW r \in Runner, Owns(r),
           row'.token = row.token, AuditsAccounted',
           \A s \in Runner \ {r} : pc'[s] = pc[s] /\ lease'[s] = lease[s],
           pc'[r] \notin InPipeline,
           pc'[r] = "failing" => audits' <= Excused',
           pc[r] \in InPipeline \cup {"failing"}
    PROVE  InboxInv'
<1>1. ASSUME NEW s \in Runner PROVE OwnerAccounted(s)' /\ LeaseHeld(s)'
  <2>1. CASE s = r
    BY <2>1 DEF OwnerAccounted, LeaseHeld
  <2>2. CASE s # r
    <3>1. ~Owns(s) /\ ~Owns(s)' /\ LeaseHeld(s) /\ pc'[s] = pc[s] /\ lease'[s] = lease[s]
      BY <2>2 DEF Owns, InboxInv
    <3>2. QED
      BY <3>1 DEF OwnerAccounted, LeaseHeld
  <2>3. QED
    BY <2>1, <2>2
<1>2. QED
  BY <1>1 DEF InboxInv

\* The transaction commits, acknowledged or not.
LEMMA CommitOwned ==
    ASSUME InboxInv, NEW r \in Runner, CommitAll(r), Owns(r)
    PROVE  InboxInv'
<1>1. InboxTypeOK /\ AuditsAccounted /\ OwnerAccounted(r)
  BY DEF InboxInv
<1>2. /\ pc[r] = "committing"
      /\ Persist(r)
      /\ \/ Finish(r, TRUE) /\ UNCHANGED count
         \/ Happens("lostAck") /\ Goto(r, "failing") /\ UNCHANGED lease
  BY DEF CommitAll
<1>3. row.status = "processing"
  BY <1>1, <1>2 DEF OwnerAccounted, InPipeline
<1>4. audits <= Excused /\ audits \in Nat
  BY <1>1, <1>3 DEF AuditsAccounted, InboxTypeOK
<1>5. /\ row' = [row EXCEPT !.status = "processed"]
      /\ row'.status = "processed" /\ row'.token = row.token
      /\ audits' = audits + 1 /\ outbox' \in {0, 1}
  BY <1>1, <1>2 DEF Persist, Staged, InboxTypeOK
<1>6. \A m, n \in Nat : m <= n => m + 1 <= 1 + n /\ m + 1 <= n + 1 /\ m + 1 <= 1 + (n + 1)
  OBVIOUS
<1>7. CASE Finish(r, TRUE) /\ UNCHANGED count
  <2>1. /\ pc' \in [Runner -> Running \cup {"idle", "done"}]
        /\ pc'[r] \in {"idle", "done", "settling"}
        /\ \A s \in Runner \ {r} : pc'[s] = pc[s]
        /\ lease' \in [Runner -> Nat]
        /\ \A s \in Runner \ {r} : lease'[s] = lease[s]
    BY <1>1, <1>7, FinishMoves
  <2>2. count' \in [Happening -> Nat] /\ Excused \in Nat /\ Excused' = Excused
    BY <1>1, <1>7, SameExcused
  <2>3. InboxTypeOK'
    BY <1>1, <1>4, <1>5, <2>1, <2>2 DEF InboxTypeOK
  <2>4. audits' <= 1 + Excused'
    BY <1>4, <1>5, <1>6, <2>2
  <2>5. AuditsAccounted'
    BY <1>5, <2>4 DEF AuditsAccounted
  <2>6. QED
    BY <1>2, <1>5, <2>1, <2>3, <2>5, OwnerWrites DEF InPipeline
<1>8. CASE Happens("lostAck") /\ Goto(r, "failing") /\ UNCHANGED lease
  <2>1. /\ pc' \in [Runner -> Running \cup {"idle", "done"}]
        /\ pc'[r] = "failing"
        /\ \A s \in Runner \ {r} : pc'[s] = pc[s]
    BY <1>1, <1>8, GotoMoves DEF Running
  <2>2. /\ count' \in [Happening -> Nat]
        /\ Excused \in Nat /\ Excused' = Excused + 1
    BY <1>1, <1>8, HappensExcuses DEF Happening
  <2>3. InboxTypeOK'
    BY <1>1, <1>4, <1>5, <1>8, <2>1, <2>2 DEF InboxTypeOK
  <2>4. audits' <= Excused' /\ audits' <= 1 + Excused'
    BY <1>4, <1>5, <1>6, <2>2
  <2>5. AuditsAccounted'
    BY <2>4 DEF AuditsAccounted
  <2>6. QED
    BY <1>2, <1>5, <1>8, <2>1, <2>3, <2>4, <2>5, OwnerWrites DEF InPipeline
<1>9. QED
  BY <1>2, <1>7, <1>8

LEMMA CommitAllKeeps ==
    ASSUME InboxInv, NEW r \in Runner, CommitAll(r)
    PROVE  InboxInv'
<1>1. CASE Owns(r)
  BY <1>1, CommitOwned
<1>2. CASE ~Owns(r)
  <2>1. Finish(r, TRUE) /\ UNCHANGED <<row, audits, outbox, count>>
    BY <1>2 DEF CommitAll
  <2>2. InboxTypeOK
    BY DEF InboxInv
  <2>3. /\ count' \in [Happening -> Nat]
        /\ Excused \in Nat /\ Excused' \in Nat /\ Excused <= Excused'
    BY <2>1, <2>2, SameExcused
  <2>4. QED
    BY <2>1, <2>3, RunEnds
<1>3. QED
  BY <1>1, <1>2

\* markStatus("failed"), under the token.
LEMMA MarkFailedKeeps ==
    ASSUME InboxInv, NEW r \in Runner, MarkFailed(r)
    PROVE  InboxInv'
<1>1. InboxTypeOK /\ AuditsAccounted /\ OwnerAccounted(r)
  BY DEF InboxInv
<1>2. /\ pc[r] = "failing"
      /\ Finish(r, FALSE) /\ UNCHANGED <<audits, outbox, count>>
  BY DEF MarkFailed
<1>3. count' \in [Happening -> Nat] /\ Excused \in Nat /\ Excused' = Excused
  BY <1>1, <1>2, SameExcused
<1>4. CASE ~Owns(r)
  <2>1. UNCHANGED row
    BY <1>4 DEF MarkFailed
  <2>2. /\ Excused' \in Nat /\ Excused <= Excused'
    BY <1>3
  <2>3. QED
    BY <1>2, <1>3, <2>1, <2>2, RunEnds
<1>5. CASE Owns(r)
  <2>1. row' = [row EXCEPT !.status = "failed"]
    BY <1>5 DEF MarkFailed
  <2>2. row'.status = "failed" /\ row'.token = row.token
    BY <1>1, <2>1 DEF InboxTypeOK
  <2>3. /\ pc' \in [Runner -> Running \cup {"idle", "done"}]
        /\ pc'[r] \in {"idle", "done", "settling"}
        /\ \A s \in Runner \ {r} : pc'[s] = pc[s]
        /\ lease' \in [Runner -> Nat]
        /\ \A s \in Runner \ {r} : lease'[s] = lease[s]
    BY <1>1, <1>2, FinishMoves
  <2>4. InboxTypeOK'
    BY <1>1, <1>2, <1>3, <2>1, <2>3 DEF InboxTypeOK
  <2>5. audits <= Excused /\ audits <= 1 + Excused
    BY <1>1, <1>2, <1>5 DEF OwnerAccounted, AuditsAccounted
  <2>6. AuditsAccounted'
    BY <1>2, <1>3, <2>5 DEF AuditsAccounted
  <2>7. QED
    BY <1>2, <1>5, <2>2, <2>3, <2>4, <2>6, OwnerWrites DEF InPipeline
<1>6. QED
  BY <1>4, <1>5

LEMMA RunKeeps ==
    ASSUME InboxInv, NEW r \in Runner, Run(r)
    PROVE  InboxInv'
<1>1. InboxTypeOK
  BY DEF InboxInv
<1>t. "fault" \in Happening /\ "markFault" \in Happening
  BY DEF Happening
<1>2. CASE ReadEvent(r)
  <2>1. /\ UNCHANGED <<row, audits, outbox, count>>
        /\ Finish(r, TRUE) \/ (Goto(r, "claiming") /\ UNCHANGED lease)
    BY <1>2 DEF ReadEvent
  <2>2. CASE Finish(r, TRUE)
    <3>1. /\ count' \in [Happening -> Nat]
          /\ Excused \in Nat /\ Excused' \in Nat /\ Excused <= Excused'
      BY <1>1, <2>1, SameExcused
    <3>2. QED
      BY <2>1, <2>2, <3>1, RunEnds
  <2>3. CASE Goto(r, "claiming") /\ UNCHANGED lease
    BY <1>1, <2>1, <2>3, SameExcused, ActorMoves DEF Running, InPipeline
  <2>4. QED
    BY <2>1, <2>2, <2>3
<1>3. CASE ClaimEvent(r) \/ ClaimTreasuryEvent(r)
  <2>1. TakeClaim(r, "catalog") \/ TakeClaim(r, "committing")
    BY <1>3 DEF ClaimEvent, ClaimTreasuryEvent
  <2>2. "catalog" \in InPipeline /\ "committing" \in InPipeline
    BY DEF InPipeline
  <2>3. QED
    BY <2>1, <2>2, TakeClaimKeeps
<1>4. CASE ReconcileCatalog(r)
  <2>1. /\ pc[r] \in InPipeline
        /\ UNCHANGED <<row, audits, outbox, lease>>
        /\ \/ Goto(r, "committing") /\ UNCHANGED count
           \/ Happens("fault") /\ Goto(r, "failing")
    BY <1>4 DEF ReconcileCatalog, InPipeline
  <2>2. CASE Goto(r, "committing") /\ UNCHANGED count
    BY <1>1, <2>1, <2>2, SameExcused, ActorMoves DEF Running
  <2>3. CASE Happens("fault") /\ Goto(r, "failing")
    BY <1>1, <1>t, <2>1, <2>3, HappensExcuses, ActorMoves DEF Running
  <2>4. QED
    BY <2>1, <2>2, <2>3
<1>5. CASE Commit(r) \/ CommitTreasury(r)
  BY <1>5, CommitAllKeeps DEF Commit, CommitTreasury
<1>6. CASE CommitThrows(r)
  <2>1. /\ pc[r] \in InPipeline
        /\ UNCHANGED <<row, audits, outbox, lease>>
        /\ Happens("fault") /\ Goto(r, "failing")
    BY <1>6 DEF CommitThrows, InPipeline
  <2>2. QED
    BY <1>1, <1>t, <2>1, HappensExcuses, ActorMoves DEF Running
<1>7. CASE MarkFailed(r)
  BY <1>7, MarkFailedKeeps
<1>8. CASE MarkFailedThrows(r)
  <2>1. /\ UNCHANGED <<row, audits, outbox>>
        /\ Happens("markFault") /\ Finish(r, FALSE)
    BY <1>8 DEF MarkFailedThrows
  <2>2. QED
    BY <1>1, <1>t, <2>1, HappensExcuses, RunEnds
<1>9. CASE ReadThrows(r)
  <2>1. /\ UNCHANGED <<row, audits, outbox>>
        /\ Happens("fault") /\ Finish(r, FALSE)
    BY <1>9 DEF ReadThrows
  <2>2. QED
    BY <1>1, <1>t, <2>1, HappensExcuses, RunEnds
<1>10. CASE ClaimThrows(r)
  BY <1>10, ClaimThrowsKeeps
<1>11. QED
  BY <1>2, <1>3, <1>4, <1>5, <1>6, <1>7, <1>8, <1>9, <1>10 DEF Run

\* A process that dies leaves its claim behind, without a lease.
LEMMA DeathKeeps ==
    ASSUME InboxInv, NEW r \in Runner, ProcessDies(r)
    PROVE  InboxInv'
<1>1. InboxTypeOK
  BY DEF InboxInv
<1>2. /\ Happens("crash") /\ UNCHANGED <<row, audits, outbox>>
      /\ lease' = [lease EXCEPT ![r] = 0]
      /\ Goto(r, "idle") \/ Goto(r, "done")
  BY DEF ProcessDies, Respond
<1>3. /\ pc' \in [Runner -> Running \cup {"idle", "done"}]
      /\ pc'[r] \in {"idle", "done"}
      /\ \A s \in Runner \ {r} : pc'[s] = pc[s]
  BY <1>1, <1>2, GotoMoves
<1>4. /\ lease' \in [Runner -> Nat]
      /\ \A s \in Runner \ {r} : lease'[s] = lease[s]
  BY <1>1, <1>2 DEF InboxTypeOK
<1>5. /\ count' \in [Happening -> Nat]
      /\ Excused \in Nat /\ Excused' \in Nat /\ Excused <= Excused'
  BY <1>1, <1>2, HappensExcuses DEF Happening
<1>6. InboxTypeOK'
  BY <1>1, <1>2, <1>3, <1>4, <1>5 DEF InboxTypeOK
<1>7. ASSUME NEW s \in Runner PROVE Keeps(s)
  BY <1>3, <1>4 DEF Keeps, InPipeline
<1>8. QED
  BY <1>2, <1>5, <1>6, <1>7, QuietStep

\* Claims and leases grow older together.
LEMMA TickKeeps ==
    ASSUME InboxInv, Tick
    PROVE  InboxInv'
<1>1. InboxTypeOK /\ AuditsAccounted
  BY DEF InboxInv
<1>2. /\ row.claimLeft > 0 /\ row.claimLeft \in Nat
      /\ row' = [row EXCEPT !.claimLeft = OneLess(@)]
      /\ lease' = [r \in Runner |-> OneLess(lease[r])]
      /\ UNCHANGED <<pc, audits, outbox>>
      /\ Happens("stall") \/ UNCHANGED count
  BY <1>1 DEF Tick, InboxTypeOK
<1>3. \A n \in Nat : OneLess(n) \in Nat
  BY DEF OneLess
<1>4. \A m, n \in Nat : OneLess(m) > 0 => m > 0 /\ (m <= n => OneLess(m) <= OneLess(n))
  BY DEF OneLess
<1>5. /\ row'.status = row.status /\ row'.token = row.token
      /\ row'.claimLeft = OneLess(row.claimLeft)
      /\ row' \in [status : {"absent", "pending", "processing", "processed", "failed"},
                   token : Runner \cup {None}, claimLeft : Nat]
  BY <1>1, <1>2, <1>3 DEF InboxTypeOK
<1>6. /\ count' \in [Happening -> Nat]
      /\ Excused \in Nat /\ Excused' \in Nat /\ Excused <= Excused'
  BY <1>1, <1>2, HappensExcuses, SameExcused DEF Happening
<1>7. InboxTypeOK'
  BY <1>1, <1>2, <1>3, <1>5, <1>6 DEF InboxTypeOK
<1>8. \A m, n, p \in Nat : n <= p =>
          /\ m <= n => m <= p
          /\ m <= 1 + n => m <= 1 + p
  OBVIOUS
<1>9. /\ audits <= 1 + Excused => audits <= 1 + Excused'
      /\ audits <= Excused => audits <= Excused'
  BY <1>1, <1>6, <1>8 DEF InboxTypeOK
<1>10. AuditsAccounted'
  BY <1>1, <1>2, <1>5, <1>9 DEF AuditsAccounted
<1>11. ASSUME NEW s \in Runner PROVE OwnerAccounted(s)' /\ LeaseHeld(s)'
  <2>1. OwnerAccounted(s) /\ LeaseHeld(s)
    BY DEF InboxInv
  <2>2. OwnerAccounted(s)'
    BY <1>2, <1>5, <1>9, <2>1 DEF OwnerAccounted, Owns
  <2>3. lease'[s] = OneLess(lease[s]) /\ lease[s] \in Nat
    BY <1>1, <1>2 DEF InboxTypeOK
  <2>4. LeaseHeld(s)'
    BY <1>2, <1>4, <1>5, <2>1, <2>3 DEF LeaseHeld, Owns
  <2>5. QED
    BY <2>2, <2>4
<1>12. QED
  BY <1>7, <1>10, <1>11 DEF InboxInv

LEMMA InboxNextKeeps == InboxInv /\ [InboxNext]_inboxVars => InboxInv'
<1> SUFFICES ASSUME InboxInv, [InboxNext]_inboxVars PROVE InboxInv'
  OBVIOUS
<1>1. ASSUME NEW r \in Request, Serve(r) \/ Redeliver(r) PROVE InboxInv'
  BY <1>1, ServeKeeps
<1>2. CASE StallJob \/ RecoverJob \/ ForgetJob \/ \E w \in Worker : TakeJob(w)
  BY <1>2, QueueKeeps
<1>3. ASSUME NEW p \in Operator, Replay(p) PROVE InboxInv'
  <2>1. p \in Runner /\ InboxTypeOK
    BY DEF Runner, InboxInv
  <2>2. Goto(p, "claiming") /\ UNCHANGED <<row, audits, outbox, lease, count>>
    BY <1>3 DEF Replay
  <2>3. QED
    BY <2>1, <2>2, SameExcused, ActorMoves DEF Running, InPipeline
<1>4. ASSUME NEW r \in Runner, Run(r) PROVE InboxInv'
  BY <1>4, RunKeeps
<1>5. ASSUME NEW r \in Runner, ProcessDies(r) PROVE InboxInv'
  BY <1>5, DeathKeeps
<1>6. CASE Tick
  BY <1>6, TickKeeps
<1>7. CASE UNCHANGED inboxVars
  BY <1>7 DEF inboxVars, InboxInv, InboxTypeOK, AuditsAccounted, OwnerAccounted,
              LeaseHeld, Owns, Excused
<1>8. QED
  BY <1>1, <1>2, <1>3, <1>4, <1>5, <1>6, <1>7 DEF InboxNext

LEMMA InboxInvariant == InboxSpec => []InboxInv
BY InitInbox, InboxNextKeeps, PTL DEF InboxSpec

\* Beyond the first, every audit entry of an event is owed to a replay, whether
\* or not its claim was answered, or to a commit whose acknowledgement was lost, and one outbox row at most is
\* staged for it, however many requests, workers and operators there are and
\* however often they repeat, stall, throw and die.
THEOREM InboxEffectsAccounted == InboxSpec => []EffectsAccounted
<1>1. InboxInv => EffectsAccounted
  <2> SUFFICES ASSUME InboxInv PROVE EffectsAccounted
    OBVIOUS
  <2>1. audits <= 1 + Excused /\ outbox \in {0, 1} /\ count \in [Happening -> Nat]
    BY DEF InboxInv, AuditsAccounted, InboxTypeOK
  <2>2. 1 + Excused = 1 + count["replay"] + count["lostReplay"] + count["lostAck"]
    BY <2>1 DEF Excused, Happening
  <2>3. QED
    BY <2>1, <2>2 DEF EffectsAccounted
<1>2. QED
  BY <1>1, InboxInvariant, PTL

\* No two runs work on the event inside their leases: a claim is handed on
\* only when it has run out, been given back or been replayed after its end.
THEOREM InboxClaimIsExclusive == InboxSpec => []ClaimIsExclusive
<1>1. InboxInv => ClaimIsExclusive
  <2> SUFFICES ASSUME InboxInv,
                      NEW r \in Runner, NEW s \in Runner,
                      pc[r] \in InPipeline, lease[r] > 0,
                      pc[s] \in InPipeline, lease[s] > 0
               PROVE  r = s
    BY DEF ClaimIsExclusive, InPipeline
  <2>1. LeaseHeld(r) /\ LeaseHeld(s)
    BY DEF InboxInv
  <2>2. row.token = r /\ row.token = s
    BY <2>1 DEF LeaseHeld, Owns
  <2>3. QED
    BY <2>2
<1>2. QED
  BY <1>1, InboxInvariant, PTL

=============================================================================

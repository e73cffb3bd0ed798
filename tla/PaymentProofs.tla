--------------------------- MODULE PaymentProofs ---------------------------
(***************************************************************************)
(* Payments and the idempotency service that runs their operations.        *)
(*                                                                         *)
(* PaymentLifecycle, for any calls, amount, numbers of transactions and    *)
(* faults, stores, providers and kinds of payment: the row never claims    *)
(* more than the provider did, an uncertain settlement is not repeated,    *)
(* and serialized transactions move the row along the table only.          *)
(*                                                                         *)
(* Idempotency, for any number of executions, any TTLs, any horizon and    *)
(* any policy.                                                             *)
(***************************************************************************)
EXTENDS PaymentLifecycle, Idempotency, TLAPS

RowStatus == {"absent", "pending", "processing", "authorized", "succeeded", "failed", "canceled"}
Row == [status : RowStatus, id : 0..MaxAttempts, authorizedAt : BOOLEAN, captured : 0..Amount]
States == {"none", "open", "pending", "authorized", "captured", "declined", "closed"}
AtProvider ==
    [state : States,
     transaction : 0..MaxAttempts, captured : 0..Amount, settledBy : Request]
Redirect == [pc : {"idle", "done"}, result : {"none"}]
                \cup [pc : {"answered", "found", "writing"}, result : Reported]
Opening == [pc : {"idle", "done"}, answer : (RowStatus \ {"absent"}) \cup {"none"}]
               \cup [pc : {"answered"}, answer : RowStatus \ {"absent"}]
Places == {"idle", "checking", "expiring", "asking", "settling", "completing", "failing",
           "local_writing", "ended"}
SettlementCall == [pc : Places, request : Request, amount : 0..Amount]

PaymentTypes ==
    /\ mode \in Modes
    /\ payment \in Row
    /\ provider \in AtProvider
    /\ emitted \subseteq Event
    /\ event \in [Event -> {"waiting", "writing", "written"}]
    /\ callback \in [Transaction -> Redirect]
    /\ opener \in Opening
    /\ sweep \in {"idle", "asking", "closing", "done"}
    /\ call \in [Call -> SettlementCall]
    /\ claim \in [status : {"free", "processing", "completed", "failed"}, request : Request]
    /\ expired \in BOOLEAN
    /\ asked \in Nat
    /\ faults \in 0..MaxFaults

-----------------------------------------------------------------------------
\* What the adapters report

\* Only what the provider did is reported as done, but for the uncaptured charge
LEMMA EventTells ==
    ASSUME NEW e, NEW happening, Tells(e, happening)
    PROVE  /\ e = "succeeded" => happening = "captured"
           /\ e = "canceled" => happening = "closed"
<1>1. ASSUME NEW type, "succeeded" \in ReportOf(type)
      PROVE  type \in {"payment_intent.succeeded", "charge.succeeded",
                       "checkout.session.completed",
                       "checkout.session.async_payment_succeeded", "ORDER_COMPLETED"}
  BY <1>1 DEF ReportOf, StripeReport, StripePayment, StripeNormalized, StripeSession, RevolutReport
<1>2. ASSUME NEW type, "canceled" \in ReportOf(type)
      PROVE  type \in {"payment_intent.canceled", "checkout.session.expired", "ORDER_CANCELLED"}
  BY <1>2 DEF ReportOf, StripeReport, StripePayment, StripeNormalized, StripeSession, RevolutReport
<1>3. PICK type \in EventsOf(happening) :
          /\ StatusIn(e) \in ReportOf(type)
          /\ e = "uncaptured" <=> type = "charge.succeeded" /\ happening = "authorized"
  BY DEF Tells
<1>4. ASSUME e = "succeeded" PROVE happening = "captured"
  <2>1. /\ type \in {"payment_intent.succeeded", "charge.succeeded",
                     "checkout.session.completed",
                     "checkout.session.async_payment_succeeded", "ORDER_COMPLETED"}
        /\ type = "charge.succeeded" => happening # "authorized"
    BY <1>1, <1>3, <1>4 DEF StatusIn
  <2>2. QED
    BY <2>1 DEF EventsOf
<1>5. ASSUME e = "canceled" PROVE happening = "closed"
  <2>1. type \in {"payment_intent.canceled", "checkout.session.expired", "ORDER_CANCELLED"}
    BY <1>2, <1>3, <1>5 DEF StatusIn
  <2>2. QED
    BY <2>1 DEF EventsOf
<1>6. QED
  BY <1>4, <1>5

LEMMA EventStatus == \A e \in Event : StatusIn(e) \in Reported
  BY DEF Event, StatusIn, Reported

LEMMA CallbackTells ==
    ASSUME NEW state
    PROVE  /\ "succeeded" \in CallbackReport(state) => state = "captured"
           /\ "canceled" \in CallbackReport(state) => state = "closed"
  BY DEF CallbackReport, TmtStatus, SispStatus

LEMMA Answers ==
    /\ ChargeAnswers("captured") = {"succeeded"}
    /\ ChargeAnswers("pending") \subseteq {"processing", "failed"}
    /\ AuthorizeAnswers("authorized") = {"authorized"}
    /\ AuthorizeAnswers("pending") \subseteq {"processing", "pending"}
  BY DEF ChargeAnswers, AuthorizeAnswers, StripeCharge, StripeAuthorize, StripeStatus,
         RevolutStatus, RetainedStatus

-----------------------------------------------------------------------------
USE LifecycleAssumption

LEMMA TypesInit == PaymentInit => PaymentTypes
<1> SUFFICES ASSUME PaymentInit PROVE PaymentTypes
  OBVIOUS
<1> USE DEF PaymentInit
<1>1. Nothing \in Request
  BY DEF Nothing, Request, Operation
<1>2. payment \in Row
  BY DEF Row, RowStatus
<1>3. provider \in AtProvider
  BY <1>1 DEF AtProvider, States
<1>4. callback \in [Transaction -> Redirect]
  BY DEF Redirect
<1>5. opener \in Opening
  BY DEF Opening
<1>6. call \in [Call -> SettlementCall]
  BY <1>1 DEF SettlementCall, Places, Idle
<1>7. claim \in [status : {"free", "processing", "completed", "failed"}, request : Request]
  BY <1>1
<1>8. faults \in 0..MaxFaults /\ asked \in Nat
  OBVIOUS
<1> HIDE DEF PaymentInit
<1>9. /\ mode \in Modes /\ emitted \subseteq Event
      /\ event \in [Event -> {"waiting", "writing", "written"}]
      /\ sweep \in {"idle", "asking", "closing", "done"}
      /\ expired \in BOOLEAN
  BY DEF PaymentInit
<1>10. QED
  BY <1>2, <1>3, <1>4, <1>5, <1>6, <1>7, <1>8, <1>9 DEF PaymentTypes

LEMMA Sent ==
    ASSUME PaymentTypes, NEW happening, Sends(happening)
    PROVE  emitted' \subseteq Event
  BY DEF PaymentTypes, Sends

LEMMA Went ==
    ASSUME PaymentTypes, NEW c \in Call, NEW place \in Places, GoTo(c, place)
    PROVE  call' \in [Call -> SettlementCall]
<1>1. Nothing \in Request
  BY DEF Nothing, Request, Operation
<1>2. Ended \in SettlementCall
  BY <1>1 DEF Ended, Idle, SettlementCall, Places
<1>3. [call[c] EXCEPT !.pc = place] \in SettlementCall
  BY DEF PaymentTypes, SettlementCall, Places
<1>4. QED
  BY <1>2, <1>3 DEF GoTo, PaymentTypes

LEMMA RowTypes ==
    ASSUME payment \in Row
    PROVE  /\ \A s \in Reported : Moved(payment, s) \in Row
           /\ \A t \in Transaction, s \in Reported :
                 [Moved(payment, s) EXCEPT !.id = Rebind(t)] \in Row
           /\ \A s \in RowStatus : [payment EXCEPT !.status = s] \in Row
           /\ \A s \in RowStatus : Created(s) \in Row
<1>1. ASSUME NEW s \in Reported PROVE Moved(payment, s) \in Row
  <2>1. s \in RowStatus /\ (payment.authorizedAt \/ s = "authorized") \in BOOLEAN
    BY DEF Reported, RowStatus
  <2>2. QED
    BY <2>1 DEF Row, Moved
<1>2. ASSUME NEW t \in Transaction, NEW row \in Row PROVE [row EXCEPT !.id = Rebind(t)] \in Row
  <2>1. Rebind(t) \in 0..MaxAttempts
    BY DEF Rebind, Transaction
  <2>2. QED
    BY <2>1 DEF Row
<1>3. ASSUME NEW s \in RowStatus PROVE [payment EXCEPT !.status = s] \in Row
  BY DEF Row
<1>4. ASSUME NEW s \in RowStatus PROVE Created(s) \in Row
  <2>1. (s = "authorized") \in BOOLEAN
    OBVIOUS
  <2>2. QED
    BY <2>1 DEF Created, Row
<1>5. QED
  BY <1>1, <1>2, <1>3, <1>4

LEMMA ProviderState ==
    ASSUME provider \in AtProvider, NEW state \in States
    PROVE  [provider EXCEPT !.state = state] \in AtProvider
  BY DEF AtProvider

LEMMA ProviderCaptures ==
    ASSUME provider \in AtProvider, NEW state \in States, NEW amount \in 0..Amount
    PROVE  [provider EXCEPT !.state = state, !.captured = amount] \in AtProvider
  BY DEF AtProvider

LEMMA ProviderStarts ==
    ASSUME provider \in AtProvider, NEW state \in States, NEW t \in 0..MaxAttempts,
           NEW amount \in 0..Amount
    PROVE  [provider EXCEPT !.state = state, !.transaction = t, !.captured = amount]
               \in AtProvider
  BY DEF AtProvider

LEMMA ProviderVoids ==
    ASSUME provider \in AtProvider, NEW state \in States, NEW request \in Request
    PROVE  [provider EXCEPT !.state = state, !.settledBy = request] \in AtProvider
  BY DEF AtProvider

LEMMA ProviderSettles ==
    ASSUME provider \in AtProvider, NEW state \in States, NEW amount \in 0..Amount,
           NEW request \in Request
    PROVE  [provider EXCEPT !.state = state, !.captured = amount, !.settledBy = request]
               \in AtProvider
  BY DEF AtProvider

\* What the provider may become in one of its steps
LEMMA ProviderSteps ==
    ASSUME PaymentTypes
    PROVE  /\ ProviderMoves => provider' \in AtProvider
           /\ CustomerPays => provider' \in AtProvider
           /\ AskProvider => provider' \in AtProvider
           /\ OpenSession => provider' \in AtProvider
           /\ \A c \in Call : TakesEffect(c) => provider' \in AtProvider
<1>0. provider \in AtProvider /\ call \in [Call -> SettlementCall]
  BY DEF PaymentTypes
<1>1. ASSUME ProviderMoves PROVE provider' \in AtProvider
  <2>1. \/ provider' = provider
        \/ \E state \in States : provider' = [provider EXCEPT !.state = state]
        \/ provider' = [provider EXCEPT !.state = "captured", !.captured = Amount]
    BY <1>1 DEF ProviderMoves, States
  <2>2. QED
    <3>1. ASSUME NEW state \in States, provider' = [provider EXCEPT !.state = state]
          PROVE  provider' \in AtProvider
      BY <1>0, <3>1, ProviderState
    <3>2. ASSUME provider' = [provider EXCEPT !.state = "captured", !.captured = Amount]
          PROVE  provider' \in AtProvider
      <4>1. "captured" \in States /\ Amount \in 0..Amount
        BY DEF States
      <4>2. QED
        BY <1>0, <3>2, <4>1, ProviderCaptures
    <3>3. QED
      BY <1>0, <2>1, <3>1, <3>2
<1>2. ASSUME CustomerPays PROVE provider' \in AtProvider
  <2>1. PICK state \in {"pending", "captured", "declined", "closed"} :
          provider' =
              [provider EXCEPT
                  !.state = state,
                  !.captured = IF state = "captured" THEN Amount ELSE 0,
                  !.transaction = @ + (IF provider.state = "pending" THEN 0 ELSE 1)]
    BY <1>2 DEF CustomerPays
  <2>2. provider.transaction + (IF provider.state = "pending" THEN 0 ELSE 1) \in 0..MaxAttempts
    BY <1>0, <1>2 DEF CustomerPays, AtProvider
  <2> DEFINE t == provider.transaction + (IF provider.state = "pending" THEN 0 ELSE 1)
             amount == IF state = "captured" THEN Amount ELSE 0
  <2>3. provider' = [provider EXCEPT !.state = state, !.transaction = t, !.captured = amount]
    BY <2>1, <1>0 DEF AtProvider
  <2>4. state \in States /\ amount \in 0..Amount /\ t \in 0..MaxAttempts
    BY <2>2 DEF States
  <2> HIDE DEF t, amount
  <2>5. QED
    BY <1>0, <2>3, <2>4, ProviderStarts
<1>3. ASSUME AskProvider PROVE provider' \in AtProvider
  <2> DEFINE Answer(state, amount) ==
          provider' = [provider EXCEPT !.state = state, !.transaction = 1, !.captured = amount]
  <2>1. \/ provider' = provider
        \/ Answer("captured", Amount) \/ Answer("pending", 0) \/ Answer("authorized", 0)
    BY <1>3 DEF AskProvider
  <2>2. ASSUME NEW state \in States, NEW amount \in 0..Amount, Answer(state, amount)
        PROVE  provider' \in AtProvider
    <3>1. 1 \in 0..MaxAttempts
      OBVIOUS
    <3>2. QED
      BY <1>0, <2>2, <3>1, ProviderStarts
  <2>3. {"captured", "pending", "authorized"} \subseteq States /\ {0, Amount} \subseteq 0..Amount
    BY DEF States
  <2> HIDE DEF Answer
  <2>4. QED
    BY <1>0, <2>1, <2>2, <2>3
<1>4. ASSUME OpenSession PROVE provider' \in AtProvider
  <2>1. "open" \in States
    BY DEF States
  <2>2. QED
    BY <1>0, <1>4, <2>1, ProviderState DEF OpenSession
<1>5. ASSUME NEW c \in Call, TakesEffect(c) PROVE provider' \in AtProvider
  <2>1. call[c].request \in Request
    BY <1>0 DEF SettlementCall, Places
  <2>2. \A amount \in 1..call[c].request.amount : amount \in 0..Amount
    BY <2>1 DEF Request
  <2>3. \/ \E amount \in 1..call[c].request.amount :
               provider' = [provider EXCEPT !.state = "captured", !.captured = amount,
                                            !.settledBy = call[c].request]
        \/ provider' = [provider EXCEPT !.state = "closed", !.settledBy = call[c].request]
    BY <1>5 DEF TakesEffect
  <2>4. "captured" \in States /\ "closed" \in States
    BY DEF States
  <2>5. CASE provider' = [provider EXCEPT !.state = "closed", !.settledBy = call[c].request]
    BY <1>0, <2>1, <2>4, <2>5, ProviderVoids
  <2>6. ASSUME NEW amount \in 1..call[c].request.amount,
               provider' = [provider EXCEPT !.state = "captured", !.captured = amount,
                                            !.settledBy = call[c].request]
        PROVE  provider' \in AtProvider
    BY <1>0, <2>1, <2>2, <2>4, <2>6, ProviderSettles
  <2>7. QED
    BY <2>3, <2>5, <2>6
<1>6. QED
  BY <1>1, <1>2, <1>3, <1>4, <1>5

\* The steps of a payment keep its types
LEMMA TypesNext ==
    ASSUME PaymentTypes, [PaymentNext]_paymentVars PROVE PaymentTypes'
<1>0. /\ mode \in Modes /\ payment \in Row /\ provider \in AtProvider /\ emitted \subseteq Event
      /\ event \in [Event -> {"waiting", "writing", "written"}]
      /\ callback \in [Transaction -> Redirect]
      /\ opener \in Opening
      /\ sweep \in {"idle", "asking", "closing", "done"}
      /\ call \in [Call -> SettlementCall]
      /\ claim \in [status : {"free", "processing", "completed", "failed"}, request : Request]
      /\ expired \in BOOLEAN
      /\ asked \in Nat
      /\ faults \in 0..MaxFaults
  BY DEF PaymentTypes
<1> DEFINE Rest == UNCHANGED <<event, callback, opener, sweep, call, claim, expired, asked, faults>>
<1>1. ASSUME ProviderMoves, mode' = mode PROVE PaymentTypes'
  <2>1. emitted' \subseteq Event
    BY <1>1, Sent DEF ProviderMoves
  <2>2. UNCHANGED <<payment, event, call, claim, asked, others>>
    BY <1>1 DEF ProviderMoves
  <2>3. provider' \in AtProvider
    BY <1>1, ProviderSteps
  <2>4. QED
    BY <1>0, <1>1, <2>1, <2>2, <2>3 DEF PaymentTypes, others
<1>2. ASSUME CustomerPays, mode' = mode PROVE PaymentTypes'
  <2>2. UNCHANGED <<payment, emitted, event, call, claim, asked, others>>
    BY <1>2 DEF CustomerPays
  <2>3. provider' \in AtProvider
    BY <1>2, ProviderSteps
  <2>4. QED
    BY <1>0, <1>2, <2>2, <2>3 DEF PaymentTypes, others
<1>3. ASSUME AskProvider, mode' = mode PROVE PaymentTypes'
  <2>1. emitted' \subseteq Event
    BY <1>0, <1>3, Sent DEF AskProvider
  <2>2. UNCHANGED <<payment, event, callback, sweep, call, claim, expired, asked, faults>>
    BY <1>3 DEF AskProvider
  <2>3. provider' \in AtProvider
    BY <1>3, ProviderSteps
  <2>4. opener' \in Opening
    <3>1. ASSUME NEW reply \in {"succeeded", "processing", "failed", "authorized", "pending"}
          PROVE  [pc |-> "answered", answer |-> reply] \in Opening
      BY DEF Opening, RowStatus
    <3>2. opener.answer # "none" => [opener EXCEPT !.pc = "answered"] \in Opening
      BY <1>0 DEF Opening
    <3>3. \/ opener.answer # "none" /\ opener' = [opener EXCEPT !.pc = "answered"]
          \/ \E reply \in ChargeAnswers("captured") \cup ChargeAnswers("pending")
                              \cup AuthorizeAnswers("authorized") \cup AuthorizeAnswers("pending") :
                 opener' = [pc |-> "answered", answer |-> reply]
      BY <1>3 DEF AskProvider
    <3>4. QED
      BY <3>1, <3>2, <3>3, Answers
  <2>5. QED
    BY <1>0, <1>3, <2>1, <2>2, <2>3, <2>4 DEF PaymentTypes
<1>4. OpenerDone \in Opening /\ [opener EXCEPT !.pc = "idle"] \in Opening
      /\ [pc |-> "answered", answer |-> "pending"] \in Opening
  BY <1>0 DEF OpenerDone, Opening, RowStatus
<1>5. opener.pc = "answered" => Created(opener.answer) \in Row
  <2>1. opener.pc = "answered" => opener.answer \in RowStatus
    BY <1>0 DEF Opening
  <2>2. QED
    BY <1>0, <2>1, RowTypes
<1>6. ASSUME CreatePayment, mode' = mode PROVE PaymentTypes'
  BY <1>0, <1>4, <1>5, <1>6 DEF PaymentTypes, CreatePayment
<1>7. ASSUME CreateThrows, mode' = mode PROVE PaymentTypes'
  <2>1. faults' \in 0..MaxFaults
    BY <1>0, <1>7 DEF CreateThrows
  <2>2. payment' \in Row /\ opener' \in Opening
    BY <1>0, <1>4, <1>5, <1>7 DEF CreateThrows
  <2>3. QED
    BY <1>0, <1>7, <2>1, <2>2 DEF PaymentTypes, CreateThrows
<1>8. ASSUME RecordLocal, mode' = mode PROVE PaymentTypes'
  <2>1. "pending" \in RowStatus /\ "succeeded" \in RowStatus
    BY DEF RowStatus
  <2>2. payment' \in Row /\ opener' \in Opening
    BY <1>0, <1>4, <1>8, <2>1, RowTypes DEF RecordLocal
  <2>3. QED
    BY <1>0, <1>8, <2>2 DEF PaymentTypes, RecordLocal
<1>9. ASSUME OpenSession, mode' = mode PROVE PaymentTypes'
  <2>1. provider' \in AtProvider
    BY <1>9, ProviderSteps
  <2>2. QED
    BY <1>0, <1>4, <1>9, <2>1 DEF PaymentTypes, OpenSession
<1>10. ASSUME RecordSession, mode' = mode PROVE PaymentTypes'
  <2>1. payment' \in Row
    <3>1. "pending" \in RowStatus
      BY DEF RowStatus
    <3>2. QED
      BY <1>0, <1>10, <3>1, RowTypes DEF RecordSession
  <2>2. QED
    BY <1>0, <1>4, <1>10, <2>1 DEF PaymentTypes, RecordSession
<1>11. ASSUME NEW e \in Event, ReadEvent(e), mode' = mode PROVE PaymentTypes'
  BY <1>0, <1>11 DEF PaymentTypes, ReadEvent, others
<1>12. ASSUME NEW e \in Event, WriteEvent(e), mode' = mode PROVE PaymentTypes'
  <2>1. payment' \in Row
    BY <1>0, <1>12, RowTypes, EventStatus DEF WriteEvent
  <2>2. QED
    BY <1>0, <1>12, <2>1 DEF PaymentTypes, WriteEvent, others
<1>13. CallbackDone \in Redirect
  BY DEF CallbackDone, Redirect
<1>14. ASSUME NEW t \in Transaction, mode' = mode,
              HandleRedirect(t) \/ FindRedirect(t) \/ ReadRedirect(t)
       PROVE  PaymentTypes'
  <2>1. PICK r \in Redirect : callback' = [callback EXCEPT ![t] = r]
    <3>1. CASE HandleRedirect(t)
      <4>1. \A status \in Reported : [pc |-> "answered", result |-> status] \in Redirect
        BY DEF Redirect
      <4>2. QED
        BY <3>1, <4>1 DEF HandleRedirect
    <3>2. CASE FindRedirect(t)
      <4>1. [callback[t] EXCEPT !.pc = "found"] \in Redirect
        BY <1>0, <3>2 DEF FindRedirect, Redirect
      <4>2. QED
        BY <1>0, <1>13, <3>2, <4>1 DEF FindRedirect
    <3>3. CASE ReadRedirect(t)
      <4>1. [callback[t] EXCEPT !.pc = "writing"] \in Redirect
        BY <1>0, <3>3 DEF ReadRedirect, Redirect
      <4>2. QED
        BY <1>0, <1>13, <3>3, <4>1 DEF ReadRedirect
    <3>4. QED
      BY <1>14, <3>1, <3>2, <3>3
  <2>2. UNCHANGED <<payment, provider, emitted, event, opener, sweep, call, claim, expired,
                    asked, faults>>
    BY <1>14 DEF HandleRedirect, FindRedirect, ReadRedirect
  <2>3. QED
    BY <1>0, <1>14, <2>1, <2>2 DEF PaymentTypes
<1>15. ASSUME NEW t \in Transaction, WriteRedirect(t), mode' = mode PROVE PaymentTypes'
  <2>1. callback[t].result \in Reported
    BY <1>0, <1>15 DEF WriteRedirect, Redirect
  <2>2. payment' \in Row
    BY <1>0, <1>15, <2>1, RowTypes DEF WriteRedirect
  <2>3. QED
    BY <1>0, <1>13, <1>15, <2>2 DEF PaymentTypes, WriteRedirect
<1>16. ASSUME FindSession \/ AskSession, mode' = mode PROVE PaymentTypes'
  BY <1>0, <1>16 DEF PaymentTypes, FindSession, AskSession
<1>17. ASSUME CloseUnsettled, mode' = mode PROVE PaymentTypes'
  <2>1. payment' \in Row
    <3>1. "failed" \in RowStatus
      BY DEF RowStatus
    <3>2. QED
      BY <1>0, <1>17, <3>1, RowTypes DEF CloseUnsettled
  <2>2. QED
    BY <1>0, <1>17, <2>1 DEF PaymentTypes, CloseUnsettled
<1>18. Nothing \in Request
  BY DEF Nothing, Request, Operation
<1>19. ASSUME NEW c \in Call, SettleAuthorization(c), mode' = mode PROVE PaymentTypes'
  <2>1. PICK request \in Requests :
           \/ /\ claim' = [status |-> "processing", request |-> request]
              /\ call' = [call EXCEPT ![c] = [pc |-> "checking", request |-> request,
                                             amount |-> 0]]
           \/ UNCHANGED claim /\ GoTo(c, "ended")
    BY <1>19 DEF SettleAuthorization
  <2>2. request \in Request
    <3>1. Requests \subseteq Request
      BY DEF Requests, Request, Operation
    <3>2. QED
      BY <3>1
  <2>3. [pc |-> "checking", request |-> request, amount |-> 0] \in SettlementCall
    BY <2>2 DEF SettlementCall, Places
  <2>4. "ended" \in Places
    BY DEF Places
  <2>5. call' \in [Call -> SettlementCall]
    BY <1>0, <2>1, <2>3, <2>4, Went
  <2>6. claim' \in [status : {"free", "processing", "completed", "failed"}, request : Request]
    BY <1>0, <2>1, <2>2
  <2>7. QED
    BY <1>0, <1>19, <2>5, <2>6 DEF PaymentTypes, SettleAuthorization, others
<1>20. ASSUME NEW c \in Call, CheckAuthorized(c), mode' = mode PROVE PaymentTypes'
  <2>1. call' \in [Call -> SettlementCall]
    <3>1. \E place \in {"failing", "expiring", "asking"} : GoTo(c, place)
      BY <1>20 DEF CheckAuthorized
    <3>2. QED
      BY <3>1, Went DEF Places
  <2>2. QED
    BY <1>0, <1>20, <2>1 DEF PaymentTypes, CheckAuthorized, others
<1>21. \A c \in Call, place \in {"failing", "completing", "ended"} :
           GoTo(c, place) => call' \in [Call -> SettlementCall]
  BY Went DEF Places
<1>22. ASSUME NEW c \in Call, ExpireAuthorization(c), mode' = mode PROVE PaymentTypes'
  <2>1. payment' \in Row
    <3>1. "failed" \in RowStatus
      BY DEF RowStatus
    <3>2. QED
      BY <1>0, <1>22, <3>1, RowTypes DEF ExpireAuthorization
  <2>2. call' \in [Call -> SettlementCall]
    BY <1>21, <1>22 DEF ExpireAuthorization
  <2>3. QED
    BY <1>0, <1>22, <2>1, <2>2 DEF PaymentTypes, ExpireAuthorization, others
<1>23. ASSUME NEW c \in Call, AskSettlement(c), mode' = mode PROVE PaymentTypes'
  <2>1. TakesEffect(c) \/ UNCHANGED <<provider, emitted>>
    BY <1>23 DEF AskSettlement, Repeats
  <2>2. provider' \in AtProvider /\ emitted' \subseteq Event
    BY <1>0, <2>1, ProviderSteps, Sent DEF TakesEffect
  <2>3. call' \in [Call -> SettlementCall]
    <3>1. CASE GoTo(c, UnknownOutcome(c))
      BY <1>21, <3>1 DEF UnknownOutcome
    <3>2. CASE call' = [call EXCEPT ![c].pc = "settling", ![c].amount = provider'.captured]
      <4>1. provider'.captured \in 0..Amount
        BY <2>2 DEF AtProvider
      <4>2. call[c] \in SettlementCall
        BY <1>0
      <4>3. ASSUME NEW amount \in 0..Amount
            PROVE  [call[c] EXCEPT !.pc = "settling", !.amount = amount] \in SettlementCall
        BY <4>2 DEF SettlementCall, Places
      <4>4. call' = [call EXCEPT ![c] =
                        [call[c] EXCEPT !.pc = "settling", !.amount = provider'.captured]]
        BY <1>0, <3>2, <4>2 DEF SettlementCall, Places
      <4>5. QED
        BY <1>0, <4>1, <4>3, <4>4
    <3>3. QED
      BY <1>23, <3>1, <3>2 DEF AskSettlement
  <2>4. asked' \in Nat
    BY <1>0, <1>23 DEF AskSettlement
  <2>5. QED
    BY <1>0, <1>23, <2>2, <2>3, <2>4 DEF PaymentTypes, AskSettlement, others
<1>24. ASSUME NEW c \in Call PROVE call[c].pc = "settling" => Settled(c) \in Row
  <2>1. call[c].amount \in 0..Amount /\ payment.captured \in 0..Amount
    BY <1>0 DEF SettlementCall, Places, Row
  <2>2. ASSUME NEW status \in RowStatus, NEW amount \in 0..Amount
        PROVE  [payment EXCEPT !.status = status, !.captured = amount] \in Row
    BY <1>0 DEF Row
  <2>3. SettledAmount(c) \in 0..Amount
    BY <2>1 DEF SettledAmount
  <2>4. {"succeeded", "canceled"} \subseteq RowStatus
    BY DEF RowStatus
  <2>5. QED
    BY <2>2, <2>3, <2>4 DEF Settled
<1>25. ASSUME NEW c \in Call, SettlePayment(c), mode' = mode PROVE PaymentTypes'
  <2>1. payment' \in Row
    BY <1>0, <1>24, <1>25 DEF SettlePayment
  <2>2. call' \in [Call -> SettlementCall]
    BY <1>21, <1>25 DEF SettlePayment
  <2>3. QED
    BY <1>0, <1>25, <2>1, <2>2 DEF PaymentTypes, SettlePayment, others
<1>26. ASSUME NEW c \in Call, SettleThrows(c), mode' = mode PROVE PaymentTypes'
  <2>1. payment' \in Row
    BY <1>0, <1>24, <1>26 DEF SettleThrows
  <2>2. call' \in [Call -> SettlementCall]
    BY <1>21, <1>26 DEF SettleThrows
  <2>3. faults' \in 0..MaxFaults
    BY <1>0, <1>26 DEF SettleThrows
  <2>4. QED
    BY <1>0, <1>26, <2>1, <2>2, <2>3 DEF PaymentTypes, SettleThrows
<1>27. ASSUME NEW c \in Call, CloseClaim(c), mode' = mode PROVE PaymentTypes'
  <2>1. call' \in [Call -> SettlementCall]
    BY <1>21, <1>27 DEF CloseClaim
  <2>2. claim' \in [status : {"free", "processing", "completed", "failed"}, request : Request]
    BY <1>0, <1>27 DEF CloseClaim
  <2>3. QED
    BY <1>0, <1>27, <2>1, <2>2 DEF PaymentTypes, CloseClaim, others
<1>28. ASSUME ForgetFailure, mode' = mode PROVE PaymentTypes'
  BY <1>0, <1>18, <1>28 DEF PaymentTypes, ForgetFailure, others
<1>29. ASSUME NEW c \in Call, ReadLocal(c), mode' = mode PROVE PaymentTypes'
  <2>1. ASSUME NEW request \in Requests
        PROVE  [Idle EXCEPT !.pc = "local_writing", !.request = request] \in SettlementCall
    <3>1. Requests \subseteq Request
      BY DEF Requests, Request, Operation
    <3>2. request \in Request /\ Idle \in SettlementCall
      BY <1>18, <3>1 DEF SettlementCall, Places, Idle
    <3>3. QED
      BY <3>2 DEF SettlementCall, Places
  <2>2. Ended \in SettlementCall
    BY <1>18 DEF Ended, Idle, SettlementCall, Places
  <2>3. call' \in [Call -> SettlementCall]
    BY <1>0, <1>29, <2>1, <2>2 DEF ReadLocal
  <2>4. QED
    BY <1>0, <1>29, <2>3 DEF PaymentTypes, ReadLocal, others
<1>30. ASSUME NEW c \in Call, WriteLocal(c), mode' = mode PROVE PaymentTypes'
  <2>1. payment' \in Row
    <3>1. {"succeeded", "canceled"} \subseteq RowStatus
      BY DEF RowStatus
    <3>2. QED
      BY <1>0, <1>30, <3>1, RowTypes DEF WriteLocal
  <2>2. call' \in [Call -> SettlementCall]
    BY <1>21, <1>30 DEF WriteLocal
  <2>3. QED
    BY <1>0, <1>30, <2>1, <2>2 DEF PaymentTypes, WriteLocal
<1>31. ASSUME AuthorizationExpires, mode' = mode PROVE PaymentTypes'
  BY <1>0, <1>31 DEF PaymentTypes, AuthorizationExpires
<1>32. ASSUME ProcessDies, mode' = mode PROVE PaymentTypes'
  <2>1. call' \in [Call -> SettlementCall]
    BY <1>0, <1>21, <1>32 DEF ProcessDies
  <2>2. callback' \in [Transaction -> Redirect] /\ opener' \in Opening
    BY <1>0, <1>4, <1>13, <1>32 DEF ProcessDies
  <2>3. event' \in [Event -> {"waiting", "writing", "written"}] /\ faults' \in 0..MaxFaults
    BY <1>0, <1>32 DEF ProcessDies
  <2>4. QED
    BY <1>0, <1>32, <2>1, <2>2, <2>3 DEF PaymentTypes, ProcessDies
<1>33. CASE UNCHANGED paymentVars
  BY <1>33, <1>0 DEF paymentVars, PaymentTypes
<1>34. QED
  BY <1>1, <1>2, <1>3, <1>6, <1>7, <1>8, <1>9, <1>10, <1>11, <1>12, <1>14, <1>15, <1>16,
     <1>17, <1>19, <1>20, <1>22, <1>23, <1>25, <1>26, <1>27, <1>28, <1>29, <1>30, <1>31,
     <1>32, <1>33 DEF PaymentNext

-----------------------------------------------------------------------------
\* Which steps a variable changes in

Creates == CreatePayment \/ CreateThrows \/ RecordLocal \/ RecordSession

Framed ==
    /\ mode' = mode
    /\ \/ UNCHANGED <<provider, emitted>>
       \/ ProviderMoves \/ CustomerPays \/ AskProvider \/ OpenSession
       \/ \E c \in Call : AskSettlement(c)
    /\ \/ event' = event
       \/ \E e \in Event : ReadEvent(e) \/ WriteEvent(e)
       \/ \E e \in Event : event[e] = "writing" /\ event' = [event EXCEPT ![e] = "waiting"]
    /\ \/ callback' = callback
       \/ \E t \in Transaction : HandleRedirect(t) \/ FindRedirect(t)
                                 \/ ReadRedirect(t) \/ WriteRedirect(t)
       \/ \E t \in Transaction : callback' = [callback EXCEPT ![t] = CallbackDone]
    /\ \/ opener' = opener
       \/ AskProvider \/ OpenSession \/ Creates
       \/ opener' = OpenerDone
    /\ \/ payment' = payment
       \/ Creates
       \/ \E e \in Event : WriteEvent(e)
       \/ \E t \in Transaction : WriteRedirect(t)
       \/ CloseUnsettled
       \/ \E c \in Call : ExpireAuthorization(c) \/ SettlePayment(c) \/ SettleThrows(c)
                          \/ WriteLocal(c)
    /\ \/ call' = call
       \/ \E c \in Call :
             \/ SettleAuthorization(c) \/ CheckAuthorized(c) \/ ExpireAuthorization(c)
             \/ AskSettlement(c) \/ SettlePayment(c) \/ SettleThrows(c)
             \/ CloseClaim(c) \/ ReadLocal(c) \/ WriteLocal(c)
             \/ GoTo(c, "ended") /\ claim' = claim
    /\ \/ claim' = claim
       \/ \E c \in Call : SettleAuthorization(c) \/ CloseClaim(c)
       \/ ForgetFailure
    /\ asked' = asked \/ \E c \in Call : AskSettlement(c)

LEMMA Frames == ASSUME [PaymentNext]_paymentVars PROVE Framed
<1>1. CASE UNCHANGED paymentVars
  BY <1>1 DEF Framed, paymentVars
<1>2. ASSUME mode' = mode, ProviderMoves \/ CustomerPays PROVE Framed
  BY <1>2 DEF Framed, ProviderMoves, CustomerPays, others
<1>3. ASSUME mode' = mode, AskProvider \/ OpenSession PROVE Framed
  BY <1>3 DEF Framed, AskProvider, OpenSession
<1>4. ASSUME mode' = mode, Creates PROVE Framed
  BY <1>4 DEF Framed, Creates, CreatePayment, CreateThrows, RecordLocal, RecordSession
<1>5. ASSUME mode' = mode, NEW e \in Event, ReadEvent(e) \/ WriteEvent(e) PROVE Framed
  BY <1>5 DEF Framed, ReadEvent, WriteEvent, others
<1>6. ASSUME mode' = mode, NEW t \in Transaction,
             HandleRedirect(t) \/ FindRedirect(t) \/ ReadRedirect(t) \/ WriteRedirect(t)
      PROVE  Framed
  BY <1>6 DEF Framed, HandleRedirect, FindRedirect, ReadRedirect, WriteRedirect
<1>7. ASSUME mode' = mode, FindSession \/ AskSession \/ CloseUnsettled PROVE Framed
  BY <1>7 DEF Framed, FindSession, AskSession, CloseUnsettled
<1>8. ASSUME mode' = mode, NEW c \in Call,
             SettleAuthorization(c) \/ CheckAuthorized(c) \/ ExpireAuthorization(c)
             \/ AskSettlement(c)
      PROVE  Framed
  BY <1>8 DEF Framed, SettleAuthorization, CheckAuthorized, ExpireAuthorization, AskSettlement, others
<1>9. ASSUME mode' = mode, NEW c \in Call,
             SettlePayment(c) \/ SettleThrows(c) \/ CloseClaim(c) \/ ReadLocal(c) \/ WriteLocal(c)
      PROVE  Framed
  BY <1>9 DEF Framed, SettlePayment, SettleThrows, CloseClaim, ReadLocal, WriteLocal, others
<1>10. ASSUME mode' = mode, ForgetFailure \/ AuthorizationExpires \/ ProcessDies PROVE Framed
  BY <1>10 DEF Framed, ForgetFailure, AuthorizationExpires, ProcessDies, others
<1>11. QED
  BY <1>1, <1>2, <1>3, <1>4, <1>5, <1>6, <1>7, <1>8, <1>9, <1>10 DEF PaymentNext, Creates

-----------------------------------------------------------------------------
\* The row follows the provider

Charged == mode.kind \in {"charge", "authorize"}

\* An event waits for the happening it reports, and is written to the row of a charge
EventsTrue ==
    /\ emitted # {} => Charged
    /\ "succeeded" \in emitted => provider.state = "captured"
    /\ "canceled" \in emitted => provider.state = "closed"
    /\ \A e \in Event : event[e] = "writing" => e \in emitted /\ payment.status # "absent"
    /\ UncapturedCounted => Charged

\* A callback carries what the provider said of its transaction
CallbackTrue(t) ==
    callback[t].pc \in {"answered", "found", "writing"} =>
        /\ callback[t].result = "succeeded" =>
               provider.state = "captured" /\ provider.transaction = t
        /\ callback[t].result = "canceled" => provider.state = "closed"
        /\ callback[t].pc = "writing" => payment.status # "absent"
        /\ Charged => t = 1

\* The first answer is what the provider did, and nothing precedes it
OpenerTrue ==
    /\ opener.answer = "succeeded" => provider.state = "captured"
    /\ opener.answer # "canceled"
    /\ opener.pc # "done" /\ opener.answer = "none" =>
           provider.state = "none" /\ payment.status = "absent"
    /\ mode.kind = "checkout" => opener.answer \in {"none", "pending"}
    /\ mode.kind = "local" => opener.answer = "none"
    /\ Charged /\ opener.answer # "none" => provider.transaction = 1

\* A charge has one transaction, and its row names it
OneTransaction ==
    Charged =>
        /\ provider.transaction \in {0, 1}
        /\ provider.transaction = 0 => provider.state = "none"
        /\ payment.status # "absent" => payment.id = 1 /\ provider.transaction = 1

SettledByTrue ==
    /\ provider.settledBy.op = "capture" => provider.state = "captured"
    /\ provider.settledBy.op = "void" => provider.state = "closed"

\* A settlement that trusts the answer it got is right to
CallTrue(c) ==
    /\ call[c].pc \in {"checking", "expiring", "asking", "settling"} =>
           Charged /\ call[c].request.op \in {"capture", "void"}
    /\ call[c].pc = "settling" =>
          IF call[c].request.op = "capture"
          THEN provider.state = "captured" /\ call[c].amount = provider.captured
          ELSE provider.state = "closed"
    /\ call[c].pc = "local_writing" => mode.kind = "local" /\ payment.status # "absent"

Collected ==
    payment.captured # 0 =>
        provider.state = "captured" /\ payment.captured = provider.captured

FollowsInv ==
    /\ PaymentTypes
    /\ EventsTrue
    /\ \A t \in Transaction : CallbackTrue(t)
    /\ OpenerTrue
    /\ OneTransaction
    /\ SettledByTrue
    /\ \A c \in Call : CallTrue(c)
    /\ Collected
    /\ RowFollowsProvider

LEMMA FollowsInit == PaymentInit => FollowsInv
<1> SUFFICES ASSUME PaymentInit PROVE FollowsInv
  OBVIOUS
<1>1. PaymentTypes
  BY TypesInit
<1>2. EventsTrue /\ (\A t \in Transaction : CallbackTrue(t)) /\ OpenerTrue
  BY DEF PaymentInit, EventsTrue, CallbackTrue, OpenerTrue, UncapturedCounted, Event
<1>3. OneTransaction /\ SettledByTrue /\ (\A c \in Call : CallTrue(c)) /\ Collected
  BY DEF PaymentInit, OneTransaction, SettledByTrue, CallTrue, Collected, Nothing, Idle
<1>4. RowFollowsProvider
  BY DEF PaymentInit, RowFollowsProvider
<1>5. QED
  BY <1>1, <1>2, <1>3, <1>4 DEF FollowsInv

\* The fields that the steps below look at
LEMMA Fields ==
    ASSUME PaymentTypes
    PROVE  /\ payment \in Row /\ provider \in AtProvider /\ opener \in Opening
           /\ emitted \subseteq Event
           /\ event \in [Event -> {"waiting", "writing", "written"}]
           /\ callback \in [Transaction -> Redirect]
           /\ call \in [Call -> SettlementCall]
           /\ mode.kind \in {"charge", "authorize", "checkout", "local"}
  BY DEF PaymentTypes

\* What the provider collected or gave up stays so
LEMMA ProviderFinal ==
    ASSUME FollowsInv, [PaymentNext]_paymentVars
    PROVE  provider.state \in {"captured", "closed"} => provider' = provider
<1> SUFFICES ASSUME provider.state \in {"captured", "closed"}, provider' # provider PROVE FALSE
  OBVIOUS
<1>1. \/ ProviderMoves \/ CustomerPays \/ AskProvider \/ OpenSession
      \/ \E c \in Call : AskSettlement(c)
  BY Frames DEF Framed
<1>2. CASE ProviderMoves
  BY <1>2 DEF ProviderMoves
<1>3. CASE CustomerPays
  BY <1>3 DEF CustomerPays
<1>4. CASE AskProvider \/ OpenSession
  BY <1>4 DEF AskProvider, OpenSession, FollowsInv, OpenerTrue
<1>5. CASE \E c \in Call : AskSettlement(c)
  BY <1>5 DEF AskSettlement, TakesEffect, Repeats
<1>6. QED
  BY <1>1, <1>2, <1>3, <1>4, <1>5

\* A row is never removed
LEMMA RowStays ==
    ASSUME FollowsInv, [PaymentNext]_paymentVars, payment.status # "absent"
    PROVE  payment'.status # "absent"
<1> SUFFICES ASSUME payment' # payment PROVE payment'.status # "absent"
  OBVIOUS
<1>0. payment \in Row /\ opener \in Opening
  BY DEF FollowsInv, PaymentTypes
<1>1. CASE Creates
  BY <1>0, <1>1 DEF Creates, CreatePayment, CreateThrows, RecordLocal, RecordSession, Created, FollowsInv, OpenerTrue
<1>2. ASSUME NEW e \in Event, WriteEvent(e) PROVE payment'.status # "absent"
  BY <1>0, <1>2, EventStatus DEF WriteEvent, Moved, Row, Reported
<1>3. ASSUME NEW t \in Transaction, WriteRedirect(t) PROVE payment'.status # "absent"
  <2>1. callback[t].result \in Reported
    BY <1>3 DEF WriteRedirect, Redirect, FollowsInv, PaymentTypes
  <2>2. QED
    BY <1>0, <1>3, <2>1 DEF WriteRedirect, Moved, Row, Reported
<1>4. CASE CloseUnsettled
  BY <1>0, <1>4 DEF CloseUnsettled, Row
<1>5. ASSUME NEW c \in Call, ExpireAuthorization(c) \/ SettlePayment(c) \/ SettleThrows(c)
                             \/ WriteLocal(c)
      PROVE  payment'.status # "absent"
  BY <1>0, <1>5 DEF ExpireAuthorization, SettlePayment, SettleThrows, WriteLocal, Settled, Row
<1>6. QED
  BY <1>1, <1>2, <1>3, <1>4, <1>5, Frames DEF Framed

LEMMA SendsTell ==
    ASSUME NEW happening, Sends(happening)
    PROVE  \E sent : /\ emitted' = emitted \cup sent
                     /\ "succeeded" \in sent => happening = "captured"
                     /\ "canceled" \in sent => happening = "closed"
<1> DEFINE told == {e \in Event : Tells(e, happening)}
<1>1. emitted' = emitted \cup told
  BY DEF Sends
<1>2. /\ "succeeded" \in told => happening = "captured"
      /\ "canceled" \in told => happening = "closed"
  BY EventTells
<1> HIDE DEF told
<1>3. QED
  BY <1>1, <1>2

LEMMA EventsNext ==
    ASSUME FollowsInv, [PaymentNext]_paymentVars PROVE EventsTrue'
<1> DEFINE Sound ==
        /\ emitted \subseteq emitted'
        /\ emitted' # {} => Charged
        /\ "succeeded" \in emitted' => provider'.state = "captured"
        /\ "canceled" \in emitted' => provider'.state = "closed"
<1>0. /\ EventsTrue /\ mode' = mode /\ provider \in AtProvider
      /\ provider.state \in {"captured", "closed"} => provider' = provider
  BY Frames, ProviderFinal DEF FollowsInv, PaymentTypes, Framed
<1>1. ASSUME UNCHANGED <<provider, emitted>> PROVE Sound
  BY <1>0, <1>1 DEF EventsTrue
<1>2. ASSUME ProviderMoves PROVE Sound
  <2> USE <1>0 DEF EventsTrue
  <2>1. mode.kind \in {"charge", "authorize"} /\ provider.state \in {"pending", "authorized"}
    BY <1>2 DEF ProviderMoves
  <2>2. CASE Sends("authorized") \/ Sends("attempted") \/ Sends("declined")
    BY <2>1, <2>2, SendsTell DEF Charged
  <2>3. CASE provider' = [provider EXCEPT !.state = "captured", !.captured = Amount]
             /\ Sends("captured")
    BY <2>1, <2>3, SendsTell DEF Charged, AtProvider
  <2>4. CASE provider' = [provider EXCEPT !.state = "closed"] /\ Sends("closed")
    BY <2>1, <2>4, SendsTell DEF Charged, AtProvider
  <2>5. QED
    BY <1>2, <2>2, <2>3, <2>4 DEF ProviderMoves
<1>3. ASSUME CustomerPays \/ OpenSession PROVE Sound
  BY <1>0, <1>3 DEF CustomerPays, OpenSession, EventsTrue, Charged
<1>4. ASSUME AskProvider PROVE Sound
  <2> USE <1>0 DEF EventsTrue
  <2> DEFINE Answer(state, h) ==
         /\ provider' = [provider EXCEPT !.state = state, !.transaction = 1,
                            !.captured = IF state = "captured" THEN Amount ELSE 0]
         /\ Sends(h) \/ (state = "pending" /\ UNCHANGED emitted)
  <2>1. Charged
    BY <1>4 DEF AskProvider, Charged
  <2>2. \/ UNCHANGED <<provider, emitted>>
        \/ opener.answer = "none" /\ opener.pc = "idle" /\ Answer("captured", "captured")
        \/ opener.answer = "none" /\ opener.pc = "idle"
           /\ (Answer("pending", "none") \/ Answer("authorized", "authorized"))
    BY <1>4 DEF AskProvider
  <2>3. opener.answer = "none" /\ opener.pc = "idle" => provider.state = "none"
    BY DEF FollowsInv, OpenerTrue
  <2>4. CASE UNCHANGED <<provider, emitted>>
    BY <1>1, <2>4
  <2>5. ASSUME provider.state = "none", NEW state, NEW h,
               Answer(state, h), state \in {"captured", "authorized"}, h = state
        PROVE  Sound
    <3>1. provider'.state = state
      BY <2>5 DEF AtProvider
    <3>2. emitted \subseteq emitted' /\ Sends(h)
      BY <2>5 DEF Sends
    <3>3. QED
      BY <2>1, <2>5, <3>1, <3>2, SendsTell
  <2>6. ASSUME provider.state = "none", Answer("pending", "none") PROVE Sound
    BY <2>1, <2>6, SendsTell
  <2> HIDE DEF Answer, Sound
  <2>7. QED
    BY <2>2, <2>3, <2>4, <2>5, <2>6
<1>5. ASSUME NEW c \in Call, AskSettlement(c) PROVE Sound
  <2> USE <1>0 DEF EventsTrue
  <2>1. Charged
    BY <1>5 DEF AskSettlement, FollowsInv, CallTrue
  <2>2. CASE UNCHANGED <<provider, emitted>>
    BY <2>1, <2>2
  <2>3. CASE TakesEffect(c)
    BY <2>1, <2>3, SendsTell DEF TakesEffect, AtProvider
  <2>4. QED
    BY <1>5, <2>2, <2>3 DEF AskSettlement, Repeats
<1>6. Sound
  BY <1>0, <1>1, <1>2, <1>3, <1>4, <1>5, Frames DEF Framed, EventsTrue
<1>7. ASSUME NEW e \in Event, event'[e] = "writing"
      PROVE  e \in emitted' /\ payment'.status # "absent"
  <2>1. event \in [Event -> {"waiting", "writing", "written"}]
    BY DEF FollowsInv, PaymentTypes
  <2>2. event[e] = "writing" \/ ReadEvent(e)
    BY <1>7, <2>1, Frames DEF Framed, ReadEvent, WriteEvent
  <2>3. e \in emitted /\ payment.status # "absent"
    BY <1>0, <1>7, <2>1, <2>2 DEF EventsTrue, ReadEvent, Accepts
  <2>4. QED
    BY <1>6, <2>3, RowStays
<1>8. UncapturedCounted' => Charged
  <2>1. event \in [Event -> {"waiting", "writing", "written"}] /\ "uncaptured" \in Event
    BY DEF FollowsInv, PaymentTypes, Event
  <2>2. UncapturedCounted' => UncapturedCounted \/ event["uncaptured"] = "writing"
    BY <2>1, Frames DEF Framed, ReadEvent, WriteEvent, UncapturedCounted
  <2>3. QED
    BY <1>0, <2>1, <2>2 DEF EventsTrue
<1>9. QED
  BY <1>0, <1>6, <1>7, <1>8 DEF EventsTrue, Charged

LEMMA CallbacksNext ==
    ASSUME FollowsInv, [PaymentNext]_paymentVars, NEW t \in Transaction PROVE CallbackTrue(t)'
<1> SUFFICES ASSUME callback'[t].pc \in {"answered", "found", "writing"} PROVE CallbackTrue(t)'
  BY DEF CallbackTrue
<1>0. /\ CallbackTrue(t) /\ mode' = mode /\ provider \in AtProvider
      /\ callback \in [Transaction -> Redirect]
      /\ provider.state \in {"captured", "closed"} => provider' = provider
  BY Frames, ProviderFinal DEF FollowsInv, PaymentTypes, Framed
<1>1. CASE callback'[t] = callback[t]
  BY <1>0, <1>1, RowStays DEF CallbackTrue, Charged
<1>2. CASE HandleRedirect(t)
  <2>1. PICK status \in CallbackReport(StateOf(t)) \cap Reported :
            callback' = [callback EXCEPT ![t] = [pc |-> "answered", result |-> status]]
    BY <1>2 DEF HandleRedirect
  <2>2. callback'[t] = [pc |-> "answered", result |-> status]
    BY <1>0, <2>1
  <2>3. provider' = provider /\ t <= provider.transaction
    BY <1>2 DEF HandleRedirect
  <2>4. status \in {"succeeded", "canceled"} => provider.transaction = t /\ StateOf(t) = provider.state
    <3>1. StateOf(t) # "declined" => ~(t < provider.transaction)
      BY DEF StateOf
    <3>2. status \in {"succeeded", "canceled"} => StateOf(t) # "declined"
      BY <2>1, CallbackTells
    <3>3. QED
      BY <1>0, <2>3, <3>1, <3>2 DEF StateOf, AtProvider, Transaction
  <2>5. Charged => t = 1
    BY <1>0, <2>3 DEF FollowsInv, OneTransaction, AtProvider, Transaction
  <2>6. QED
    BY <1>0, <2>1, <2>2, <2>3, <2>4, <2>5, CallbackTells DEF CallbackTrue, Charged
<1>3. CASE FindRedirect(t) \/ ReadRedirect(t)
  <2>1. /\ callback'[t].result = callback[t].result
        /\ callback[t].pc \in {"answered", "found"}
        /\ callback'[t].pc = "writing" => payment.status # "absent"
    BY <1>0, <1>3 DEF FindRedirect, ReadRedirect, Redirect, CallbackDone, Accepts
  <2>2. QED
    BY <1>0, <2>1, RowStays DEF CallbackTrue, Charged
<1>4. CASE callback'[t] = CallbackDone
  BY <1>4 DEF CallbackDone
<1>5. callback'[t] = callback[t] \/ HandleRedirect(t) \/ FindRedirect(t) \/ ReadRedirect(t)
      \/ callback'[t] = CallbackDone
  BY <1>0, Frames DEF Framed, HandleRedirect, FindRedirect, ReadRedirect, WriteRedirect
<1>6. QED
  BY <1>1, <1>2, <1>3, <1>4, <1>5

\* Before the first answer there is nothing at the provider and no row
LEMMA Unborn ==
    ASSUME FollowsInv, [PaymentNext]_paymentVars, opener.pc # "done", opener.answer = "none"
    PROVE  /\ UNCHANGED <<provider, emitted>> \/ AskProvider \/ OpenSession
           /\ payment' = payment \/ Creates
<1>1. provider.state = "none" /\ payment.status = "absent"
  BY DEF FollowsInv, OpenerTrue
<1>2. ~ProviderMoves /\ ~CustomerPays
  BY <1>1 DEF ProviderMoves, CustomerPays
<1>3. ASSUME NEW c \in Call, AskSettlement(c) PROVE UNCHANGED <<provider, emitted>>
  <2>1. call[c].request.op \in {"capture", "void"}
    BY <1>3 DEF AskSettlement, FollowsInv, CallTrue
  <2>2. ~TakesEffect(c)
    BY <1>1 DEF TakesEffect
  <2>3. QED
    BY <1>3, <2>2 DEF AskSettlement, Repeats
<1>4. \A e \in Event : ~WriteEvent(e)
  BY <1>1 DEF FollowsInv, EventsTrue, WriteEvent
<1>5. \A t \in Transaction : ~WriteRedirect(t)
  BY <1>1 DEF FollowsInv, CallbackTrue, WriteRedirect
<1>6. CloseUnsettled => payment' = payment
  BY <1>1 DEF CloseUnsettled, StillUnsettled
<1>7. ASSUME NEW c \in Call, ExpireAuthorization(c) \/ SettlePayment(c) \/ SettleThrows(c)
      PROVE payment' = payment
  BY <1>1, <1>7 DEF ExpireAuthorization, SettlePayment, SettleThrows, StillAuthorized
<1>8. \A c \in Call : ~WriteLocal(c)
  BY <1>1 DEF FollowsInv, CallTrue, WriteLocal
<1>9. QED
  BY <1>2, <1>3, <1>4, <1>5, <1>6, <1>7, <1>8, Frames DEF Framed

LEMMA OpenerNext ==
    ASSUME FollowsInv, [PaymentNext]_paymentVars PROVE OpenerTrue'
<1>0. /\ OpenerTrue /\ mode' = mode /\ provider \in AtProvider /\ payment \in Row
      /\ opener \in Opening /\ mode.kind \in {"charge", "authorize", "checkout", "local"}
      /\ provider.state \in {"captured", "closed"} => provider' = provider
  BY Frames, Fields, ProviderFinal DEF FollowsInv, Framed
<1>1. CASE AskProvider
  <2> USE <1>0, Answers
  <2> DEFINE Answer(state, replies) ==
         /\ \E reply \in replies : opener' = [pc |-> "answered", answer |-> reply]
         /\ provider' = [provider EXCEPT !.state = state, !.transaction = 1,
                            !.captured = IF state = "captured" THEN Amount ELSE 0]
  <2>1. mode.kind \in {"charge", "authorize"}
    BY <1>1 DEF AskProvider
  <2>2. CASE opener.answer # "none" /\ opener' = [opener EXCEPT !.pc = "answered"]
             /\ UNCHANGED provider
    BY <2>1, <2>2 DEF OpenerTrue, Opening, Charged
  <2>3. CASE Answer("captured", {"succeeded"})
    BY <2>1, <2>3 DEF OpenerTrue, AtProvider, Charged
  <2>4. ASSUME NEW state, NEW replies, Answer(state, replies),
               replies \subseteq {"processing", "failed", "pending", "authorized"}
        PROVE  OpenerTrue'
    <3>1. provider'.transaction = 1
      BY <2>4 DEF AtProvider
    <3>2. QED
      BY <2>1, <2>4, <3>1 DEF OpenerTrue, Charged
  <2>5. \/ opener.answer # "none" /\ opener' = [opener EXCEPT !.pc = "answered"]
           /\ UNCHANGED provider
        \/ Answer("captured", {"succeeded"})
        \/ Answer("pending", {"processing", "failed", "pending"})
        \/ Answer("authorized", {"authorized"})
    BY <1>1 DEF AskProvider
  <2> HIDE DEF Answer
  <2>6. QED
    BY <2>2, <2>3, <2>4, <2>5
<1>2. CASE OpenSession
  BY <1>0, <1>2 DEF OpenSession, OpenerTrue, Charged
<1>3. CASE Creates
  <2>1. UNCHANGED <<provider, emitted>>
    BY <1>3 DEF Creates, CreatePayment, CreateThrows, RecordLocal, RecordSession
  <2>2. \/ opener' = OpenerDone
        \/ opener.pc = "answered" /\ opener' = [opener EXCEPT !.pc = "idle"]
    BY <1>3 DEF Creates, CreatePayment, CreateThrows, RecordLocal, RecordSession
  <2>3. opener.pc = "answered" => opener.answer # "none"
    BY <1>0 DEF Opening, RowStatus
  <2>4. QED
    BY <1>0, <2>1, <2>2, <2>3 DEF OpenerTrue, OpenerDone, Opening, Charged
<1>4. CASE opener' = OpenerDone
  BY <1>4, <1>0 DEF OpenerTrue, OpenerDone
<1>5. CASE opener' = opener /\ ~AskProvider /\ ~OpenSession /\ ~Creates
  <2>1. Charged => provider' = provider \/ provider'.transaction = provider.transaction
    <3>1. ASSUME Charged PROVE ~CustomerPays
      BY <3>1 DEF Charged, CustomerPays
    <3>2. ProviderMoves => provider'.transaction = provider.transaction
      BY <1>0 DEF ProviderMoves, AtProvider
    <3>3. ASSUME NEW c \in Call, AskSettlement(c)
          PROVE  provider'.transaction = provider.transaction
      BY <1>0, <3>3 DEF AskSettlement, TakesEffect, Repeats, AtProvider
    <3>4. QED
      BY <1>5, <3>1, <3>2, <3>3, Frames DEF Framed
  <2>2. QED
    BY <1>5, <1>0, <2>1, Unborn DEF OpenerTrue, Charged
<1>6. QED
  BY <1>1, <1>2, <1>3, <1>4, <1>5, Frames DEF Framed

LEMMA TransactionNext ==
    ASSUME FollowsInv, [PaymentNext]_paymentVars PROVE OneTransaction'
<1> SUFFICES ASSUME Charged
             PROVE  /\ provider'.transaction \in {0, 1}
                    /\ provider'.transaction = 0 => provider'.state = "none"
                    /\ payment'.status # "absent" =>
                           payment'.id = 1 /\ provider'.transaction = 1
  <2>1. mode' = mode
    BY Frames DEF Framed
  <2>2. QED
    BY <2>1 DEF OneTransaction, Charged
<1>0. /\ provider \in AtProvider /\ payment \in Row
      /\ provider.transaction \in {0, 1}
      /\ provider.transaction = 0 => provider.state = "none"
      /\ payment.status # "absent" => payment.id = 1 /\ provider.transaction = 1
  BY Fields DEF FollowsInv, OneTransaction
<1>1. /\ provider'.transaction \in {0, 1}
      /\ provider'.transaction = 0 => provider'.state = "none"
      /\ provider.transaction = 1 => provider'.transaction = 1
  <2>1. CASE ProviderMoves
    BY <1>0, <2>1 DEF ProviderMoves, AtProvider
  <2>2. CASE AskProvider
    <3>1. \/ provider' = provider
          \/ \E state, amount : provider' = [provider EXCEPT !.state = state, !.transaction = 1,
                                                             !.captured = amount]
      BY <2>2 DEF AskProvider
    <3>2. ASSUME NEW state, NEW amount,
                 provider' = [provider EXCEPT !.state = state, !.transaction = 1,
                                              !.captured = amount]
          PROVE  provider'.transaction = 1
      BY <1>0, <3>2 DEF AtProvider
    <3>3. provider' = provider \/ provider'.transaction = 1
      BY ONLY <3>1, <3>2
    <3>4. QED
      BY <1>0, <3>3
  <2>3. ~CustomerPays /\ ~OpenSession
    BY DEF CustomerPays, OpenSession, Charged
  <2>4. ASSUME NEW c \in Call, AskSettlement(c)
        PROVE  /\ provider'.transaction = provider.transaction
               /\ provider.state = "none" => provider'.state = "none"
    BY <1>0, <2>4 DEF AskSettlement, TakesEffect, Repeats, AtProvider
  <2>5. QED
    BY <1>0, <2>1, <2>2, <2>3, <2>4, Frames DEF Framed
<1>2. payment'.status # "absent" => payment'.id = 1 /\ provider'.transaction = 1
  <2>1. CASE Creates
    <3>1. provider' = provider /\ opener.pc \in {"idle", "answered"}
      BY <2>1 DEF Creates, CreatePayment, CreateThrows, RecordLocal, RecordSession
    <3>2. payment' = payment \/ \E status : payment' = Created(status) /\ opener.answer # "none"
      <4>1. opener.pc = "answered" => opener.answer # "none"
        BY Fields DEF FollowsInv, Opening, RowStatus
      <4>2. QED
        BY <2>1, <4>1 DEF Creates, CreatePayment, CreateThrows, RecordLocal, RecordSession, Charged
    <3>3. QED
      BY <1>0, <3>1, <3>2 DEF Created, Charged, FollowsInv, OpenerTrue
  <2>2. ASSUME NEW e \in Event, WriteEvent(e)
        PROVE  payment'.id = payment.id /\ payment.status # "absent"
    BY <1>0, <2>2 DEF WriteEvent, Moved, Row, FollowsInv, EventsTrue
  <2>3. ASSUME NEW t \in Transaction, WriteRedirect(t)
        PROVE  payment'.id = 1 /\ payment.status # "absent"
    <3>1. t = 1 /\ payment.status # "absent"
      BY <2>3 DEF WriteRedirect, FollowsInv, CallbackTrue
    <3>2. QED
      BY <1>0, <2>3, <3>1 DEF WriteRedirect, Moved, Row, Rebind
  <2>4. ASSUME CloseUnsettled PROVE payment'.id = payment.id
    BY <1>0, <2>4 DEF CloseUnsettled, Row
  <2>5. ASSUME NEW c \in Call, ExpireAuthorization(c) \/ SettlePayment(c) \/ SettleThrows(c)
                               \/ WriteLocal(c)
        PROVE payment'.id = payment.id
    <3>1. Settled(c).id = payment.id
      BY <1>0 DEF Settled, Row
    <3>2. \A status : [payment EXCEPT !.status = status].id = payment.id
      BY <1>0 DEF Row
    <3>3. QED
      BY <2>5, <3>1, <3>2 DEF ExpireAuthorization, SettlePayment, SettleThrows, WriteLocal
  <2>6. ASSUME payment'.status # "absent", payment' # payment, ~Creates
        PROVE  payment.status # "absent" 
    <3>1. CloseUnsettled => payment.status # "absent"
      BY <2>6 DEF CloseUnsettled, StillUnsettled
    <3>2. ASSUME NEW c \in Call, ExpireAuthorization(c) \/ SettlePayment(c) \/ SettleThrows(c)
          PROVE  payment.status # "absent"
      BY <2>6, <3>2 DEF ExpireAuthorization, SettlePayment, SettleThrows, StillAuthorized
    <3>3. ASSUME NEW c \in Call, WriteLocal(c) PROVE payment.status # "absent"
      BY <3>3 DEF WriteLocal, FollowsInv, CallTrue
    <3>4. QED
      BY <2>2, <2>3, <2>6, <3>1, <3>2, <3>3, Frames DEF Framed
  <2>7. QED
    BY <1>0, <1>1, <2>1, <2>2, <2>3, <2>4, <2>5, <2>6, Frames DEF Framed
<1>3. QED
  BY <1>1, <1>2

LEMMA SettledByNext ==
    ASSUME FollowsInv, [PaymentNext]_paymentVars PROVE SettledByTrue'
<1>0. /\ SettledByTrue /\ provider \in AtProvider
      /\ provider.state \in {"captured", "closed"} => provider' = provider
  BY Fields, ProviderFinal DEF FollowsInv
<1>1. CASE provider'.settledBy = provider.settledBy
  BY <1>0, <1>1 DEF SettledByTrue
<1>2. ProviderMoves => provider'.settledBy = provider.settledBy
  BY <1>0 DEF ProviderMoves, AtProvider
<1>3. CustomerPays => provider'.settledBy = provider.settledBy
  BY <1>0 DEF CustomerPays, AtProvider
<1>4. AskProvider \/ OpenSession => provider'.settledBy = provider.settledBy
  BY <1>0 DEF AskProvider, OpenSession, AtProvider
<1>5. ASSUME NEW c \in Call, AskSettlement(c) PROVE SettledByTrue'
  <2>1. call[c].request.op \in {"capture", "void"}
    BY <1>5 DEF AskSettlement, FollowsInv, CallTrue
  <2>2. CASE provider' = provider
    BY <1>0, <2>2 DEF SettledByTrue
  <2>3. CASE TakesEffect(c)
    BY <1>0, <2>1, <2>3 DEF TakesEffect, AtProvider, SettledByTrue
  <2>4. QED
    BY <1>5, <2>2, <2>3 DEF AskSettlement, Repeats
<1>6. QED
  BY <1>1, <1>2, <1>3, <1>4, <1>5, Frames DEF Framed

LEMMA CallsNext ==
    ASSUME FollowsInv, [PaymentNext]_paymentVars, NEW c \in Call PROVE CallTrue(c)'
<1>0. /\ CallTrue(c) /\ mode' = mode /\ provider \in AtProvider
      /\ call \in [Call -> SettlementCall]
      /\ provider.state \in {"captured", "closed"} => provider' = provider
  BY Fields, Frames, ProviderFinal DEF FollowsInv, Framed
<1>1. CASE call'[c] = call[c]
  BY <1>0, <1>1, RowStays DEF CallTrue, Charged
<1>2. CASE call'[c].pc \in {"idle", "completing", "failing", "ended"}
  BY <1>2 DEF CallTrue
<1>3. CASE SettleAuthorization(c)
  <2>1. Charged
    BY <1>3 DEF SettleAuthorization, Charged
  <2>2. PICK request \in Requests :
           \/ call' = [call EXCEPT ![c] = [pc |-> "checking", request |-> request, amount |-> 0]]
           \/ GoTo(c, "ended")
    BY <1>3 DEF SettleAuthorization
  <2>3. request.op \in {"capture", "void"}
    BY <2>1 DEF Requests, Charged
  <2>4. CASE GoTo(c, "ended")
    BY <1>0, <1>2, <2>4 DEF GoTo, Ended, Idle
  <2>5. CASE call' = [call EXCEPT ![c] = [pc |-> "checking", request |-> request, amount |-> 0]]
    BY <1>0, <2>1, <2>3, <2>5 DEF CallTrue, Charged
  <2>6. QED
    BY <2>2, <2>4, <2>5
<1>4. CASE CheckAuthorized(c)
  <2>1. /\ call'[c].request = call[c].request
        /\ call'[c].pc \in {"failing", "expiring", "asking"}
        /\ call[c].pc = "checking"
    BY <1>0, <1>4 DEF CheckAuthorized, GoTo, SettlementCall, Places
  <2>2. QED
    BY <1>0, <2>1 DEF CallTrue, Charged
<1>5. CASE AskSettlement(c)
  <2>1. call[c].pc = "asking" /\ Charged /\ call[c].request.op \in {"capture", "void"}
    BY <1>0, <1>5 DEF AskSettlement, CallTrue
  <2>2. CASE GoTo(c, UnknownOutcome(c))
    BY <1>0, <1>2, <2>2 DEF GoTo, UnknownOutcome, SettlementCall, Places
  <2>3. CASE /\ TakesEffect(c) \/ Repeats(c)
             /\ call' = [call EXCEPT ![c].pc = "settling", ![c].amount = provider'.captured]
    <3>1. call'[c] = [call[c] EXCEPT !.pc = "settling", !.amount = provider'.captured]
      BY <1>0, <2>3 DEF SettlementCall, Places
    <3>2. /\ call'[c].pc = "settling" /\ call'[c].request = call[c].request
          /\ call'[c].amount = provider'.captured
      BY <1>0, <3>1 DEF SettlementCall, Places
    <3>3. provider'.state = IF call[c].request.op = "capture" THEN "captured" ELSE "closed"
      <4>1. CASE TakesEffect(c)
        BY <1>0, <2>1, <4>1 DEF TakesEffect, AtProvider
      <4>2. CASE Repeats(c)
        BY <1>0, <2>1, <4>2 DEF Repeats, FollowsInv, SettledByTrue
      <4>3. QED
        BY <2>3, <4>1, <4>2
    <3>4. QED
      BY <1>0, <2>1, <3>2, <3>3 DEF CallTrue, Charged
  <2>4. QED
    BY <1>5, <2>2, <2>3 DEF AskSettlement
<1>6. CASE ReadLocal(c)
  <2>1. mode.kind = "local" /\ payment.status # "absent"
    BY <1>6 DEF ReadLocal
  <2>2. call'[c].pc \in {"local_writing", "ended"}
    BY <1>0, <1>6 DEF ReadLocal, Idle, Ended
  <2>3. QED
    BY <1>0, <2>1, <2>2, RowStays DEF CallTrue
<1>7. ASSUME ExpireAuthorization(c) \/ SettlePayment(c) \/ SettleThrows(c) \/ CloseClaim(c)
             \/ WriteLocal(c) \/ GoTo(c, "ended")
      PROVE  call'[c].pc \in {"idle", "completing", "failing", "ended"}
  BY <1>0, <1>7 DEF ExpireAuthorization, SettlePayment, SettleThrows, CloseClaim, WriteLocal,
       GoTo, Ended, Idle, SettlementCall, Places
<1>8. ASSUME NEW d \in Call, d # c,
             \/ SettleAuthorization(d) \/ CheckAuthorized(d) \/ ExpireAuthorization(d)
             \/ AskSettlement(d) \/ SettlePayment(d) \/ SettleThrows(d)
             \/ CloseClaim(d) \/ ReadLocal(d) \/ WriteLocal(d)
             \/ GoTo(d, "ended")
      PROVE  call'[c] = call[c]
  BY <1>0, <1>8 DEF SettleAuthorization, CheckAuthorized, ExpireAuthorization, AskSettlement,
       SettlePayment, SettleThrows, CloseClaim, ReadLocal, WriteLocal, GoTo
<1>9. QED
  BY <1>1, <1>2, <1>3, <1>4, <1>5, <1>6, <1>7, <1>8, Frames DEF Framed

\* A payment that the event of an uncaptured charge moved to succeeded is not moved
\* there again
LEMMA CountedStays ==
    ASSUME FollowsInv, [PaymentNext]_paymentVars, UncapturedCounted, payment.status = "succeeded"
    PROVE  UncapturedCounted'
<1>0. /\ event \in [Event -> {"waiting", "writing", "written"}]
      /\ event["uncaptured"] = "written" /\ "uncaptured" \in Event
  BY Fields DEF FollowsInv, UncapturedCounted, Event
<1>1. ASSUME NEW e \in Event, ReadEvent(e) \/ WriteEvent(e) PROVE UncapturedCounted'
  <2>1. e = "uncaptured" => ~Accepts(payment, StatusIn(e))
    BY DEF Accepts, MovesTo, StatusIn
  <2>2. QED
    BY <1>0, <1>1, <2>1 DEF ReadEvent, WriteEvent, UncapturedCounted
<1>2. ASSUME event' = event PROVE UncapturedCounted'
  BY <1>0, <1>2 DEF UncapturedCounted
<1>3. ASSUME NEW e \in Event, event[e] = "writing", event' = [event EXCEPT ![e] = "waiting"]
      PROVE  UncapturedCounted'
  BY <1>0, <1>3 DEF UncapturedCounted
<1>4. QED
  BY <1>1, <1>2, <1>3, Frames DEF Framed

\* What the row says is what its writer knew of the provider
LEMMA RowNext ==
    ASSUME FollowsInv, [PaymentNext]_paymentVars PROVE RowFollowsProvider' /\ Collected'
<1> DEFINE Follows ==
        /\ mode.kind # "local" =>
             /\ payment'.status = "succeeded" =>
                    /\ payment'.id = provider'.transaction
                    /\ provider'.state = "captured" \/ UncapturedCounted'
             /\ payment'.status = "canceled" => provider'.state = "closed"
        /\ payment'.captured # 0 =>
               provider'.state = "captured" /\ payment'.captured = provider'.captured
<1>0. /\ mode' = mode /\ payment \in Row /\ provider \in AtProvider
      /\ mode.kind \in {"charge", "authorize", "checkout", "local"}
      /\ call \in [Call -> SettlementCall] /\ callback \in [Transaction -> Redirect]
      /\ provider.state \in {"captured", "closed"} => provider' = provider
      /\ RowFollowsProvider /\ Collected
      /\ UncapturedCounted /\ payment.status = "succeeded" => UncapturedCounted'
  BY Fields, Frames, ProviderFinal, CountedStays DEF FollowsInv, Framed
<1>1. Follows => RowFollowsProvider' /\ Collected'
  BY <1>0 DEF RowFollowsProvider, Collected
<1>2. ASSUME payment' = payment PROVE Follows
  <2>1. ASSUME UncapturedCounted, payment.status = "succeeded"
        PROVE  payment'.id = provider'.transaction
    <3>1. Charged /\ mode' = mode
      BY <1>0, <2>1 DEF FollowsInv, EventsTrue
    <3>2. OneTransaction'
      BY TransactionNext
    <3>3. QED
      BY <1>2, <2>1, <3>1, <3>2 DEF OneTransaction, Charged
  <2>2. QED
    BY <1>0, <1>2, <2>1 DEF RowFollowsProvider, Collected
<1>3. ASSUME Creates PROVE Follows
  <2>1. provider' = provider
    BY <1>3 DEF Creates, CreatePayment, CreateThrows, RecordLocal, RecordSession
  <2>2. \/ payment' = payment
        \/ payment' = Created(opener.answer) /\ opener.pc = "answered"
        \/ payment' = Created("pending")
        \/ mode.kind = "local" /\ \E status : payment' = Created(status)
    BY <1>3 DEF Creates, CreatePayment, CreateThrows, RecordLocal, RecordSession
  <2>3. \A status : Created(status).status = status /\ Created(status).captured = 0
    BY DEF Created
  <2>4. ASSUME payment' = Created(opener.answer), opener.pc = "answered" PROVE Follows
    <3>1. opener.answer # "canceled" /\ opener.answer # "none"
      <4>1. opener \in Opening /\ OpenerTrue
        BY Fields DEF FollowsInv
      <4>2. QED
        BY <2>4, <4>1 DEF OpenerTrue, Opening, RowStatus
    <3>2. ASSUME opener.answer = "succeeded" PROVE provider.state = "captured" /\ Charged
      BY <1>0, <3>2 DEF FollowsInv, OpenerTrue, Charged
    <3>3. Charged => payment'.id = 1 /\ provider.transaction = 1
      BY <2>4, <3>1 DEF FollowsInv, OpenerTrue, Charged, Created
    <3>4. QED
      BY <2>1, <2>3, <2>4, <3>1, <3>2, <3>3
  <2>5. QED
    BY <1>2, <2>2, <2>3, <2>4
<1>4. ASSUME NEW e \in Event, WriteEvent(e) PROVE Follows
  <2>1. /\ provider' = provider
        /\ payment'.captured = payment.captured /\ payment'.id = payment.id
        /\ payment'.status = StatusIn(e)
    BY <1>0, <1>4 DEF WriteEvent, Moved, Row, others
  <2>2. e \in emitted /\ payment.status # "absent" /\ Charged
    BY <1>4 DEF WriteEvent, FollowsInv, EventsTrue
  <2>3. payment.id = provider.transaction
    BY <2>2 DEF FollowsInv, OneTransaction
  <2>4. e = "uncaptured" => UncapturedCounted'
    BY <1>4, Fields DEF WriteEvent, FollowsInv, UncapturedCounted
  <2>5. /\ StatusIn(e) = "succeeded" => provider.state = "captured" \/ UncapturedCounted'
        /\ StatusIn(e) = "canceled" => provider.state = "closed"
    BY <2>2, <2>4 DEF StatusIn, FollowsInv, EventsTrue
  <2>6. QED
    BY <1>0, <2>1, <2>3, <2>5 DEF Collected
<1>5. ASSUME NEW t \in Transaction, WriteRedirect(t) PROVE Follows
  <2>1. /\ provider' = provider
        /\ payment'.status = callback[t].result /\ payment'.captured = payment.captured
        /\ payment'.id = t
    BY <1>0, <1>5 DEF WriteRedirect, Moved, Row, Rebind
  <2>2. CallbackTrue(t) /\ callback[t].pc = "writing"
    BY <1>5 DEF WriteRedirect, FollowsInv
  <2>3. QED
    BY <1>0, <2>1, <2>2 DEF CallbackTrue, Collected
<1>6. ASSUME payment' = [payment EXCEPT !.status = "failed"] PROVE Follows
  <2>1. payment'.status = "failed" /\ payment'.captured = payment.captured
    BY <1>0, <1>6 DEF Row
  <2>2. QED
    BY <1>0, <2>1 DEF Collected
<1>7. ASSUME NEW c \in Call, payment' = Settled(c), call[c].pc = "settling", StillAuthorized,
             provider' = provider
      PROVE  Follows
  <2>1. CallTrue(c) /\ Charged /\ payment.status = "authorized"
    BY <1>7 DEF FollowsInv, CallTrue, StillAuthorized
  <2>2. payment.id = provider.transaction
    BY <2>1 DEF FollowsInv, OneTransaction
  <2>3. /\ payment'.status = IF call[c].request.op = "capture" THEN "succeeded" ELSE "canceled"
        /\ payment'.id = payment.id
        /\ payment'.captured = SettledAmount(c)
    BY <1>0, <1>7 DEF Settled, Row
  <2>4. QED
    BY <1>0, <1>7, <2>1, <2>2, <2>3 DEF CallTrue, SettledAmount, Collected
<1>8. ASSUME NEW c \in Call, WriteLocal(c) PROVE Follows
  <2>1. mode.kind = "local"
    BY <1>8 DEF WriteLocal, FollowsInv, CallTrue
  <2>2. payment'.captured = payment.captured
    BY <1>0, <1>8 DEF WriteLocal, Row
  <2>3. QED
    BY <1>0, <2>1, <2>2 DEF Collected
<1> HIDE DEF Follows
<1>9. CloseUnsettled => Follows
  BY <1>2, <1>6 DEF CloseUnsettled
<1>10. ASSUME NEW c \in Call, ExpireAuthorization(c) \/ SettlePayment(c) \/ SettleThrows(c)
       PROVE  Follows
  BY <1>2, <1>6, <1>7, <1>10 DEF ExpireAuthorization, SettlePayment, SettleThrows
<1>11. QED
  BY <1>1, <1>2, <1>3, <1>4, <1>5, <1>8, <1>9, <1>10, Frames DEF Framed

LEMMA FollowsNext == FollowsInv /\ [PaymentNext]_paymentVars => FollowsInv'
<1> SUFFICES ASSUME FollowsInv, [PaymentNext]_paymentVars PROVE FollowsInv'
  OBVIOUS
<1>1. PaymentTypes'
  BY TypesNext DEF FollowsInv
<1>2. EventsTrue' /\ OpenerTrue' /\ OneTransaction' /\ SettledByTrue'
  BY EventsNext, OpenerNext, TransactionNext, SettledByNext
<1>3. (\A t \in Transaction : CallbackTrue(t))'
  BY CallbacksNext DEF Transaction
<1>4. (\A c \in Call : CallTrue(c))'
  BY CallsNext
<1>5. QED
  BY <1>1, <1>2, <1>3, <1>4, RowNext DEF FollowsInv

LEMMA FollowsHolds == PaymentSpec => []FollowsInv
  BY FollowsInit, FollowsNext, PTL DEF PaymentSpec

\* The row is never ahead of the provider, for any number of captures, voids,
\* transactions and faults, any amount, store and kind of payment: whichever of
\* events, callbacks, settlements and sweeps comes last.
THEOREM PaymentFollowsProvider == PaymentSpec => []RowFollowsProvider
<1>1. FollowsInv => RowFollowsProvider
  BY DEF FollowsInv
<1>2. QED
  BY <1>1, FollowsHolds, PTL

-----------------------------------------------------------------------------
\* Without idempotency keys the claim is granted once, to one call

Unasked == {"checking", "expiring", "asking"}
Holding == Unasked \cup {"settling", "failing", "completing"}

AskedInv ==
    ~mode.native =>
        /\ claim.status = "free" => asked = 0
        /\ asked <= 1
        /\ \A c \in Call :
              /\ call[c].pc \in Holding => claim.status = "processing"
              /\ call[c].pc \in Unasked => asked = 0
        /\ \A c, d \in Call : call[c].pc \in Holding /\ call[d].pc \in Holding => c = d

LEMMA AskedNext ==
    ASSUME FollowsInv, AskedInv, [PaymentNext]_paymentVars PROVE AskedInv'
<1> SUFFICES ASSUME ~mode.native PROVE AskedInv'
  BY Frames DEF Framed, AskedInv
<1>0. /\ mode' = mode /\ call \in [Call -> SettlementCall] /\ asked \in Nat
      /\ claim \in [status : {"free", "processing", "completed", "failed"}, request : Request]
  BY Frames DEF Framed, FollowsInv, PaymentTypes
<1> USE DEF AskedInv, Holding, Unasked
<1>1. CASE UNCHANGED <<call, claim, asked>>
  BY <1>0, <1>1
<1>2. ASSUME NEW c \in Call, SettleAuthorization(c) PROVE AskedInv'
  <2>1. asked' = asked
    BY <1>2 DEF SettleAuthorization
  <2>2. CASE UNCHANGED claim /\ GoTo(c, "ended")
    <3>1. call'[c].pc = "ended" /\ \A d \in Call \ {c} : call'[d] = call[d]
      BY <1>0, <2>2 DEF GoTo, Ended, Idle
    <3>2. QED
      BY <1>0, <2>1, <2>2, <3>1
  <2>3. ASSUME NEW request, Granted(request),
               claim' = [status |-> "processing", request |-> request],
               call' = [call EXCEPT ![c] = [pc |-> "checking", request |-> request, amount |-> 0]]
        PROVE  AskedInv'
    <3>1. claim.status = "free"
      BY <2>3 DEF Granted
    <3>2. call'[c].pc = "checking" /\ \A d \in Call \ {c} : call'[d] = call[d]
      BY <1>0, <2>3
    <3>3. \A d \in Call : call[d].pc \notin Holding
      BY <3>1
    <3>4. claim'.status = "processing" /\ asked' = 0
      BY <2>1, <2>3, <3>1
    <3>5. QED
      BY <1>0, <3>2, <3>3, <3>4
  <2>4. QED
    BY <1>2, <2>2, <2>3 DEF SettleAuthorization
\* A call that moves on under its claim without asking
<1>3. ASSUME NEW c \in Call, NEW place, GoTo(c, place), claim' = claim, asked' = asked,
             place \in Unasked => call[c].pc \in Unasked,
             place \in Holding => call[c].pc \in Holding
      PROVE  AskedInv'
  <2>1. call'[c].pc = place /\ \A d \in Call \ {c} : call'[d] = call[d]
    BY <1>0, <1>3 DEF GoTo, Ended, Idle, SettlementCall, Places
  <2>2. QED
    BY <1>0, <1>3, <2>1
<1>4. ASSUME NEW c \in Call, CheckAuthorized(c) \/ ExpireAuthorization(c) PROVE AskedInv'
  <2>1. \E place \in {"failing", "expiring", "asking"} : GoTo(c, place)
    BY <1>4 DEF CheckAuthorized, ExpireAuthorization
  <2>2. call[c].pc \in {"checking", "expiring"} /\ claim' = claim /\ asked' = asked
    BY <1>4 DEF CheckAuthorized, ExpireAuthorization, others
  <2>3. QED
    BY <1>3, <2>1, <2>2
<1>5. ASSUME NEW c \in Call, AskSettlement(c) PROVE AskedInv'
  <2>1. call[c].pc = "asking" /\ claim' = claim /\ asked' = asked + 1
    BY <1>5 DEF AskSettlement
  <2>2. call'[c].pc \in {"settling", "failing"} /\ \A d \in Call \ {c} : call'[d] = call[d]
    BY <1>0, <1>5 DEF AskSettlement, GoTo, UnknownOutcome, SettlementCall, Places
  <2>3. asked = 0 /\ claim.status = "processing"
        /\ \A d \in Call \ {c} : call[d].pc \notin Holding
    BY <2>1
  <2>4. QED
    BY <1>0, <2>1, <2>2, <2>3
<1>6. ASSUME NEW c \in Call, SettlePayment(c) \/ SettleThrows(c) PROVE AskedInv'
  <2>1. \E place \in {"failing", "completing"} : GoTo(c, place)
    BY <1>6 DEF SettlePayment, SettleThrows
  <2>2. call[c].pc = "settling" /\ claim' = claim /\ asked' = asked
    BY <1>6 DEF SettlePayment, SettleThrows
  <2>3. QED
    BY <1>3, <2>1, <2>2
<1>7. ASSUME NEW c \in Call, CloseClaim(c) PROVE AskedInv'
  <2>1. /\ claim'.status \in {"completed", "failed"} /\ asked' = asked
        /\ call[c].pc \in {"completing", "failing"}
    BY <1>0, <1>7 DEF CloseClaim
  <2>2. call'[c].pc = "ended" /\ \A d \in Call \ {c} : call'[d] = call[d]
    BY <1>0, <1>7 DEF CloseClaim, GoTo, Ended, Idle
  <2>3. \A d \in Call \ {c} : call[d].pc \notin Holding
    BY <2>1
  <2>4. QED
    BY <1>0, <2>1, <2>2, <2>3
<1>8. ASSUME NEW c \in Call, ReadLocal(c) PROVE AskedInv'
  <2>1. claim' = claim /\ asked' = asked
    BY <1>8 DEF ReadLocal
  <2>2. call'[c].pc \in {"local_writing", "ended"} /\ \A d \in Call \ {c} : call'[d] = call[d]
    BY <1>0, <1>8 DEF ReadLocal, Idle, Ended
  <2>3. QED
    BY <1>0, <2>1, <2>2
<1>9. ASSUME NEW c \in Call, WriteLocal(c) PROVE AskedInv'
  <2>1. claim' = claim /\ asked' = asked /\ GoTo(c, "ended")
    BY <1>9 DEF WriteLocal
  <2>2. QED
    BY <1>3, <2>1
<1>10. ~ForgetFailure
  BY DEF ForgetFailure
<1>11. ASSUME NEW c \in Call, GoTo(c, "ended"), claim' = claim, asked' = asked PROVE AskedInv'
  BY <1>3, <1>11
<1>12. QED
  BY <1>1, <1>2, <1>4, <1>5, <1>6, <1>7, <1>8, <1>9, <1>10, <1>11, Frames
     DEF Framed

\* A provider without idempotency keys is asked to capture or void at most
\* once, for any number of calls and faults.
THEOREM UncertainCaptureIsAskedOnce == PaymentSpec => []UncertainIsAskedOnce
<1>1. PaymentInit => AskedInv
  BY DEF PaymentInit, AskedInv, Idle, Unasked, Holding
<1>2. FollowsInv /\ AskedInv /\ [PaymentNext]_paymentVars => AskedInv'
  BY AskedNext
<1>3. AskedInv => UncertainIsAskedOnce
  BY DEF AskedInv, UncertainIsAskedOnce
<1>4. QED
  BY <1>1, <1>2, <1>3, FollowsHolds, PTL DEF PaymentSpec

-----------------------------------------------------------------------------
\* Where transactions exclude one another, what a writer read still holds

Serialized ==
    \/ mode.store = "serial"
    \/ mode.store = "locking" /\ mode.kind \in {"local", "checkout"}

\* A transaction that is open is the only one, and has read the row as it is
OpenEvent(e) ==
    event[e] = "writing" =>
        /\ Accepts(payment, StatusIn(e)) /\ ~HoldsRow
        /\ \A f \in Event : event[f] = "writing" => f = e

OpenCallback(t) ==
    callback[t].pc = "writing" =>
        /\ Accepts(payment, callback[t].result)
        /\ \A u \in Transaction : callback[u].pc = "writing" => u = t
        /\ \A c \in Call : call[c].pc # "local_writing"

OpenLocal(c) ==
    call[c].pc = "local_writing" =>
        /\ payment.status = "pending"
        /\ \A d \in Call : call[d].pc = "local_writing" => d = c

ExclusiveInv ==
    Serialized =>
        /\ \A e \in Event : OpenEvent(e)
        /\ \A t \in Transaction : OpenCallback(t)
        /\ \A c \in Call : OpenLocal(c)

\* No transaction is open
Free == ~HoldsRow /\ \A e \in Event : event[e] # "writing"

\* Who may take the lock finds no transaction open
LEMMA LockIsFree ==
    ASSUME FollowsInv, Serialized, CanLock PROVE Free
<1>1. CASE mode.store = "serial"
  BY <1>1 DEF CanLock, CanRead, Free
<1>2. CASE mode.store = "locking" /\ mode.kind \in {"local", "checkout"}
  BY <1>2 DEF CanLock, Free, FollowsInv, EventsTrue, Charged
<1>3. QED
  BY <1>1, <1>2 DEF Serialized

\* An event is read, where transactions are serialized, when none is open
LEMMA ReadIsFree ==
    ASSUME FollowsInv, Serialized, CanRead, emitted # {} PROVE Free
  BY DEF Serialized, CanRead, Free, FollowsInv, EventsTrue, Charged

\* A write under the lock leaves no transaction open
LEMMA FreeIsExclusive ==
    ASSUME Free', mode' = mode PROVE ExclusiveInv'
  BY DEF Free, HoldsRow, ExclusiveInv, OpenEvent, OpenCallback, OpenLocal

\* Which transactions are open after a step
LEMMA OpensOnly ==
    ASSUME FollowsInv, [PaymentNext]_paymentVars
    PROVE  /\ \A e \in Event : event'[e] = "writing" => event[e] = "writing" \/ ReadEvent(e)
           /\ \A t \in Transaction : callback'[t].pc = "writing" =>
                 \/ callback[t].pc = "writing" /\ callback'[t] = callback[t]
                 \/ ReadRedirect(t)
           /\ \A c \in Call : call'[c].pc = "local_writing" =>
                 \/ call[c].pc = "local_writing" /\ call'[c] = call[c]
                 \/ ReadLocal(c)
<1>0. /\ event \in [Event -> {"waiting", "writing", "written"}]
      /\ callback \in [Transaction -> Redirect] /\ call \in [Call -> SettlementCall]
  BY DEF FollowsInv, PaymentTypes
<1>1. ASSUME NEW e \in Event, event'[e] = "writing"
      PROVE  event[e] = "writing" \/ ReadEvent(e)
  BY <1>0, <1>1, Frames DEF Framed, ReadEvent, WriteEvent
<1>2. ASSUME NEW t \in Transaction, callback'[t].pc = "writing"
      PROVE  \/ callback[t].pc = "writing" /\ callback'[t] = callback[t]
             \/ ReadRedirect(t)
  <2>1. ~HandleRedirect(t)
    BY <1>0, <1>2 DEF HandleRedirect
  <2>2. ~FindRedirect(t)
    BY <1>0, <1>2 DEF FindRedirect, CallbackDone, Redirect
  <2>3. ~WriteRedirect(t) /\ callback'[t] # CallbackDone
    BY <1>0, <1>2 DEF WriteRedirect, CallbackDone
  <2>4. ASSUME NEW u \in Transaction, u # t,
               \/ HandleRedirect(u) \/ FindRedirect(u) \/ ReadRedirect(u) \/ WriteRedirect(u)
               \/ callback' = [callback EXCEPT ![u] = CallbackDone]
        PROVE  callback'[t] = callback[t]
    BY <1>0, <2>4 DEF HandleRedirect, FindRedirect, ReadRedirect, WriteRedirect
  <2>5. callback' = [callback EXCEPT ![t] = CallbackDone] => callback'[t] = CallbackDone
    BY <1>0
  <2>6. callback'[t] = callback[t] \/ ReadRedirect(t)
    BY <2>1, <2>2, <2>3, <2>4, <2>5, Frames DEF Framed
  <2>7. QED
    BY <1>2, <2>6
<1>3. ASSUME NEW c \in Call, call'[c].pc = "local_writing"
      PROVE  \/ call[c].pc = "local_writing" /\ call'[c] = call[c]
             \/ ReadLocal(c)
  <2>1. CASE call'[c] = call[c]
    BY <1>3, <2>1
  <2>2. ~(SettleAuthorization(c) \/ AskSettlement(c))
    BY <1>0, <1>3 DEF SettleAuthorization, AskSettlement, GoTo, UnknownOutcome, Ended, Idle,
         SettlementCall, Places
  <2>3. ~(CheckAuthorized(c) \/ ExpireAuthorization(c) \/ SettlePayment(c) \/ SettleThrows(c)
          \/ CloseClaim(c) \/ WriteLocal(c) \/ GoTo(c, "ended"))
    BY <1>0, <1>3 DEF CheckAuthorized, ExpireAuthorization, SettlePayment, SettleThrows,
         CloseClaim, WriteLocal, GoTo, Ended, Idle, SettlementCall, Places
  <2>4. ASSUME NEW d \in Call, d # c,
             \/ SettleAuthorization(d) \/ CheckAuthorized(d) \/ ExpireAuthorization(d)
             \/ AskSettlement(d) \/ SettlePayment(d) \/ SettleThrows(d)
             \/ CloseClaim(d) \/ ReadLocal(d) \/ WriteLocal(d)
             \/ GoTo(d, "ended")
      PROVE  call'[c] = call[c]
    BY <1>0, <2>4 DEF SettleAuthorization, CheckAuthorized, ExpireAuthorization, AskSettlement,
       SettlePayment, SettleThrows, CloseClaim, ReadLocal, WriteLocal, GoTo
  <2>5. QED
    BY <2>1, <2>2, <2>3, <2>4, Frames DEF Framed
<1>4. QED
  BY <1>1, <1>2, <1>3

Reads ==
    \/ \E e \in Event : ReadEvent(e)
    \/ \E t \in Transaction : ReadRedirect(t)
    \/ \E c \in Call : ReadLocal(c)

\* A step that opens no transaction
LEMMA StaysFree ==
    ASSUME FollowsInv, [PaymentNext]_paymentVars, ~Reads, Free PROVE Free'
  BY OpensOnly DEF Free, HoldsRow, Reads

\* A step that opens none and leaves the row alone
LEMMA StaysExclusive ==
    ASSUME FollowsInv, ExclusiveInv, [PaymentNext]_paymentVars, ~Reads, payment' = payment
    PROVE  ExclusiveInv'
<1> SUFFICES ASSUME Serialized PROVE ExclusiveInv'
  BY Frames DEF Framed, Serialized, ExclusiveInv
<1>0. /\ \A e \in Event : OpenEvent(e)
      /\ \A t \in Transaction : OpenCallback(t)
      /\ \A c \in Call : OpenLocal(c)
  BY DEF ExclusiveInv
<1>1. /\ \A e \in Event : event'[e] = "writing" => event[e] = "writing"
      /\ \A t \in Transaction : callback'[t].pc = "writing" =>
             callback[t].pc = "writing" /\ callback'[t] = callback[t]
      /\ \A c \in Call : call'[c].pc = "local_writing" => call[c].pc = "local_writing"
  BY OpensOnly DEF Reads
<1>2. \A s : Accepts(payment', s) <=> Accepts(payment, s)
  OBVIOUS
<1>3. ~HoldsRow => ~HoldsRow'
  BY <1>1 DEF HoldsRow
<1>4. ASSUME NEW e \in Event PROVE OpenEvent(e)'
  BY <1>0, <1>1, <1>2, <1>3 DEF OpenEvent
<1>5. ASSUME NEW t \in Transaction PROVE OpenCallback(t)'
  BY <1>0, <1>1, <1>2 DEF OpenCallback
<1>6. ASSUME NEW c \in Call PROVE OpenLocal(c)'
  BY <1>0, <1>1 DEF OpenLocal
<1>7. QED
  BY <1>4, <1>5, <1>6 DEF ExclusiveInv, Transaction

\* A read opens a transaction where none is open
LEMMA ReadsExclusive ==
    ASSUME FollowsInv, [PaymentNext]_paymentVars, Serialized, Reads PROVE ExclusiveInv'
<1>0. /\ event \in [Event -> {"waiting", "writing", "written"}]
      /\ callback \in [Transaction -> Redirect] /\ call \in [Call -> SettlementCall]
  BY DEF FollowsInv, PaymentTypes
<1>1. ASSUME NEW e \in Event, ReadEvent(e) PROVE ExclusiveInv'
  <2>1. Free
    BY <1>1, ReadIsFree DEF ReadEvent
  <2>2. UNCHANGED <<payment, callback, call>>
    BY <1>1 DEF ReadEvent, others
  <2>3. /\ \A f \in Event \ {e} : event'[f] # "writing"
        /\ event'[e] = "writing" => Accepts(payment', StatusIn(e))
    BY <1>0, <1>1, <2>1, <2>2 DEF ReadEvent, Free
  <2>4. /\ \A t \in Transaction : callback'[t].pc # "writing"
        /\ \A c \in Call : call'[c].pc # "local_writing"
    BY <2>1, <2>2 DEF Free, HoldsRow
  <2>5. QED
    BY <2>3, <2>4 DEF ExclusiveInv, OpenEvent, OpenCallback, OpenLocal, HoldsRow
<1>2. ASSUME NEW t \in Transaction, ReadRedirect(t) PROVE ExclusiveInv'
  <2>1. Free
    BY <1>2, LockIsFree DEF ReadRedirect
  <2>2. UNCHANGED <<payment, event, call>>
    BY <1>2 DEF ReadRedirect
  <2>3. /\ \A u \in Transaction \ {t} : callback'[u].pc # "writing"
        /\ callback'[t].pc = "writing" => Accepts(payment', callback'[t].result)
    <3>1. \A u \in Transaction \ {t} : callback'[u] = callback[u]
      BY <1>0, <1>2 DEF ReadRedirect
    <3>2. callback'[t].pc = "writing" =>
              Accepts(payment, callback[t].result) /\ callback'[t].result = callback[t].result
      BY <1>0, <1>2 DEF ReadRedirect, CallbackDone, Redirect
    <3>3. QED
      BY <2>1, <2>2, <3>1, <3>2 DEF Free, HoldsRow
  <2>4. /\ \A e \in Event : event'[e] # "writing"
        /\ \A c \in Call : call'[c].pc # "local_writing"
    BY <2>1, <2>2 DEF Free, HoldsRow
  <2>5. QED
    BY <2>3, <2>4 DEF ExclusiveInv, OpenEvent, OpenCallback, OpenLocal, HoldsRow
<1>3. ASSUME NEW c \in Call, ReadLocal(c) PROVE ExclusiveInv'
  <2>1. Free
    BY <1>3, LockIsFree DEF ReadLocal
  <2>2. UNCHANGED <<payment, event, callback>>
    BY <1>3 DEF ReadLocal, others
  <2>3. /\ \A d \in Call \ {c} : call'[d].pc # "local_writing"
        /\ call'[c].pc = "local_writing" => payment'.status = "pending"
    <3>1. \A d \in Call \ {c} : call'[d] = call[d]
      BY <1>0, <1>3 DEF ReadLocal
    <3>2. call'[c].pc = "local_writing" => payment.status = "pending"
      BY <1>0, <1>3 DEF ReadLocal, Ended, Idle
    <3>3. QED
      BY <2>1, <2>2, <3>1, <3>2 DEF Free, HoldsRow
  <2>4. /\ \A e \in Event : event'[e] # "writing"
        /\ \A t \in Transaction : callback'[t].pc # "writing"
    BY <2>1, <2>2 DEF Free, HoldsRow
  <2>5. QED
    BY <2>3, <2>4 DEF ExclusiveInv, OpenEvent, OpenCallback, OpenLocal, HoldsRow
<1>4. QED
  BY <1>1, <1>2, <1>3 DEF Reads

\* A write closes the only transaction, or finds none open
LEMMA WritesFree ==
    ASSUME FollowsInv, ExclusiveInv, [PaymentNext]_paymentVars, Serialized,
           ~Reads, payment' # payment
    PROVE  Free'
<1>0. /\ event \in [Event -> {"waiting", "writing", "written"}]
      /\ callback \in [Transaction -> Redirect] /\ call \in [Call -> SettlementCall]
      /\ \A e \in Event : OpenEvent(e)
      /\ \A t \in Transaction : OpenCallback(t)
      /\ \A c \in Call : OpenLocal(c)
  BY DEF FollowsInv, PaymentTypes, ExclusiveInv
<1>1. /\ \A e \in Event : event'[e] = "writing" => event[e] = "writing"
      /\ \A t \in Transaction : callback'[t].pc = "writing" => callback[t].pc = "writing"
      /\ \A c \in Call : call'[c].pc = "local_writing" => call[c].pc = "local_writing"
  BY OpensOnly DEF Reads
<1>2. CASE Creates
  <2>1. payment.status = "absent"
    <3>1. opener.pc # "done" /\ opener.answer = "none" => payment.status = "absent"
      BY DEF FollowsInv, OpenerTrue
    <3>2. mode.kind = "local" => opener.answer = "none"
      BY DEF FollowsInv, OpenerTrue
    <3>3. QED
      BY <1>2, <3>1, <3>2
         DEF Creates, CreatePayment, CreateThrows, RecordLocal, RecordSession
  <2>2. Free
    BY <2>1 DEF Free, HoldsRow, FollowsInv, EventsTrue, CallbackTrue, CallTrue
  <2>3. QED
    BY <2>2, StaysFree
<1>3. ASSUME NEW e \in Event, WriteEvent(e) PROVE Free'
  <2>1. event[e] = "writing" /\ event'[e] # "writing"
    BY <1>0, <1>3 DEF WriteEvent
  <2>2. ~HoldsRow /\ \A f \in Event \ {e} : event[f] # "writing"
    BY <1>0, <2>1 DEF OpenEvent
  <2>3. QED
    BY <1>1, <2>1, <2>2 DEF Free, HoldsRow
<1>4. ASSUME NEW t \in Transaction, WriteRedirect(t) PROVE Free'
  <2>1. callback[t].pc = "writing" /\ callback'[t].pc = "done"
    BY <1>0, <1>4 DEF WriteRedirect, CallbackDone
  <2>2. /\ \A e \in Event : event[e] # "writing"
        /\ \A u \in Transaction \ {t} : callback[u].pc # "writing"
        /\ \A c \in Call : call[c].pc # "local_writing"
    BY <1>0, <2>1 DEF OpenEvent, OpenCallback, HoldsRow
  <2>3. QED
    BY <1>1, <2>1, <2>2 DEF Free, HoldsRow
<1>5. ASSUME NEW c \in Call, WriteLocal(c) PROVE Free'
  <2>1. call[c].pc = "local_writing" /\ call'[c].pc = "ended"
    BY <1>0, <1>5 DEF WriteLocal, GoTo, Ended, Idle
  <2>2. /\ \A e \in Event : event[e] # "writing"
        /\ \A u \in Transaction : callback[u].pc # "writing"
        /\ \A d \in Call \ {c} : call[d].pc # "local_writing"
    BY <1>0, <2>1 DEF OpenEvent, OpenCallback, OpenLocal, HoldsRow
  <2>3. QED
    BY <1>1, <2>1, <2>2 DEF Free, HoldsRow
<1>6. ASSUME CanLock PROVE Free'
  BY <1>6, LockIsFree, StaysFree
<1>7. CloseUnsettled => CanLock
  BY DEF CloseUnsettled
<1>8. \A c \in Call : ExpireAuthorization(c) \/ SettlePayment(c) \/ SettleThrows(c) => CanLock
  BY DEF ExpireAuthorization, SettlePayment, SettleThrows
<1>9. QED
  BY <1>2, <1>3, <1>4, <1>5, <1>6, <1>7, <1>8, Frames DEF Framed

LEMMA ExclusiveNext ==
    ASSUME FollowsInv, ExclusiveInv, [PaymentNext]_paymentVars PROVE ExclusiveInv'
<1>1. mode' = mode
  BY Frames DEF Framed
<1>2. CASE ~Serialized
  BY <1>1, <1>2 DEF ExclusiveInv, Serialized
<1>3. CASE Serialized
  BY <1>1, <1>3, ReadsExclusive, StaysExclusive, WritesFree, FreeIsExclusive
<1>4. QED
  BY <1>2, <1>3

LEMMA ExclusiveHolds == PaymentSpec => []ExclusiveInv
<1>1. PaymentInit => ExclusiveInv
  BY DEF PaymentInit, ExclusiveInv, OpenEvent, OpenCallback, OpenLocal, Idle
<1>2. FollowsInv /\ ExclusiveInv /\ [PaymentNext]_paymentVars => ExclusiveInv'
  BY ExclusiveNext
<1>3. QED
  BY <1>1, <1>2, FollowsHolds, PTL DEF PaymentSpec

\* Where transactions are serialized, whatever calls, events and callbacks meet,
\* a row moves along the table only, and no late event revives a failed
\* authorization: for any number of them.
THEOREM PaymentMovesAlongTable == PaymentSpec => MovesAlongTable
<1> DEFINE Along ==
        (Serialized /\ payment.status # "absent" /\ payment' # payment) =>
            /\ MovesTo(payment.status, payment'.status)
            /\ payment.status = "failed" /\ payment.authorizedAt
                  => payment'.status # "authorized"
<1>1. ASSUME FollowsInv, ExclusiveInv, [PaymentNext]_paymentVars PROVE Along
  <2> SUFFICES ASSUME Serialized, payment.status # "absent", payment' # payment
               PROVE  /\ MovesTo(payment.status, payment'.status)
                      /\ payment.status = "failed" /\ payment.authorizedAt
                            => payment'.status # "authorized"
    OBVIOUS
  <2> USE <1>1
  <2>0. /\ payment \in Row /\ mode' = mode
        /\ \A e \in Event : OpenEvent(e)
        /\ \A t \in Transaction : OpenCallback(t)
        /\ \A c \in Call : OpenLocal(c)
    BY Frames DEF Framed, FollowsInv, PaymentTypes, ExclusiveInv
  <2>1. ASSUME NEW s, Accepts(payment, s), payment'.status = s
        PROVE  /\ MovesTo(payment.status, payment'.status)
               /\ payment.status = "failed" /\ payment.authorizedAt
                            => payment'.status # "authorized"
    BY <2>1 DEF Accepts, Superseded
  <2>2. ~Creates
    <3>1. opener.pc # "done" /\ opener.answer = "none" => payment.status = "absent"
      BY DEF FollowsInv, OpenerTrue
    <3>2. mode.kind = "local" => opener.answer = "none"
      BY DEF FollowsInv, OpenerTrue
    <3>3. QED
      BY <3>1, <3>2
         DEF Creates, CreatePayment, CreateThrows, RecordLocal, RecordSession
  <2>3. ASSUME NEW e \in Event, WriteEvent(e)
        PROVE  Accepts(payment, StatusIn(e)) /\ payment'.status = StatusIn(e)
    BY <2>0, <2>3 DEF WriteEvent, OpenEvent, Moved, Row
  <2>4. ASSUME NEW t \in Transaction, WriteRedirect(t)
        PROVE  Accepts(payment, callback[t].result) /\ payment'.status = callback[t].result
    BY <2>0, <2>4 DEF WriteRedirect, OpenCallback, Moved, Row
  <2>5. ASSUME CloseUnsettled
        PROVE  payment.status = "pending" /\ payment'.status = "failed"
    BY <2>0, <2>5 DEF CloseUnsettled, StillUnsettled, Row
  <2>6. ASSUME NEW c \in Call, ExpireAuthorization(c) \/ SettlePayment(c) \/ SettleThrows(c)
        PROVE  payment.status = "authorized" /\ payment'.status \in {"failed", "succeeded", "canceled"}
    <3>1. Settled(c).status \in {"succeeded", "canceled"}
      BY <2>0 DEF Settled, Row
    <3>2. QED
      BY <2>0, <2>6, <3>1 DEF ExpireAuthorization, SettlePayment, SettleThrows, StillAuthorized, Row
  <2>7. ASSUME NEW c \in Call, WriteLocal(c)
        PROVE  payment.status = "pending" /\ payment'.status \in {"succeeded", "canceled"}
    BY <2>0, <2>7 DEF WriteLocal, OpenLocal, Row
  <2>8. /\ \A s \in {"failed", "succeeded", "canceled"} :
               MovesTo("authorized", s) /\ MovesTo("pending", s)
    BY DEF MovesTo, EventFor, EventByTarget, Transitions
  <2>9. QED
    BY <2>1, <2>2, <2>3, <2>4, <2>5, <2>6, <2>7, <2>8, Frames DEF Framed
<1>2. QED
  BY <1>1, FollowsHolds, ExclusiveHolds, PTL DEF PaymentSpec, MovesAlongTable, Serialized

-----------------------------------------------------------------------------
\* The idempotency service


Running == {"running", "failing", "failingCertain", "completing"}
Finished == {"verifying", "verifyingNoAck", "unverified", "settled", "crashed"}

\* A lease is computed before the row can be written.
LeaseSet ==
    \A e \in Execution :
        pc[e] \notin {"idle", "settled", "crashed"} => lease[e] \in Nat

\* The row of a protected runner still carries the lock it wrote.
LockedByRunner ==
    \A e \in Execution :
        (pc[e] \in Running /\ now < lease[e]) =>
            /\ record.token = e
            /\ record.status = "processing"
            /\ record.lockedUntil = lease[e]

\* A completion is recorded once, by an execution that only verifies it
\* afterwards, and a completed row carries the expiry that was recorded.
CompletionRecorded ==
    /\ \A e \in Execution :
            completedUntil[e] # Null => pc[e] \in Finished
    /\ record.status = "completed" =>
            record.expiresAt = completedUntil[record.token]

\* Only settled executions have a result, and only returned ones an answer.
ResultsSettled ==
    \A e \in Execution : result[e] # "pending" => pc[e] = "settled"

\* The inductive invariant.
IdempotencyInv ==
    /\ TypeOK
    /\ LeaseSet
    /\ LockedByRunner
    /\ CompletionRecorded
    /\ ResultsSettled
    /\ AnswerWasPersisted
    /\ AnswerHoldsUntilExpiry

USE ExecutionAssumption, SettingsAssumption, TimeAssumption DEF Null, Time

\* A record that replay() answers from is completed, unexpired and for the
\* same request.
LEMMA ReplayReturned ==
    ASSUME NEW e \in Execution, RecordOK, Replay(e, record) = "returned"
    PROVE  /\ record.status = "completed"
           /\ record.hash = RequestHash[e]
           /\ record.token \in Execution
           /\ record.response = record.token
           /\ RequestHash[record.token] = RequestHash[e]
  BY DEF Replay, RecordOK, Record, Status

\* replay() yields one of the ways an execution may end, or lets it proceed.
LEMMA ReplayRange ==
    ASSUME NEW e \in Execution, NEW r
    PROVE  Replay(e, r) \in {"proceed", "conflict", "returned", "in_progress",
                             "reconciliation_required"}
  BY DEF Replay

LEMMA PolicyType ==
    ASSUME settings \in Settings
    PROVE  Policy \in [retryFailed: BOOLEAN, reclaim: BOOLEAN,
                       failedTtl: Nat \cup {-1}]
  BY DEF Policy

\* The fields of the rows written by markFailed and markCompleted.
LEMMA FailedFields ==
    ASSUME record \in Record, now \in Nat, NEW ttl \in Nat \cup {-1}
    PROVE  /\ FailedRecord(ttl) \in Record
           /\ FailedRecord(ttl).status = "failed"
           /\ FailedRecord(ttl).lockedUntil = Null
           /\ FailedRecord(ttl).token = record.token
           /\ FailedRecord(ttl).hash = record.hash
  <1> DEFINE exp == IF ttl = -1 THEN -1 ELSE now + ttl
  <1>1. exp \in Int
    OBVIOUS
  <1>2. FailedRecord(ttl) = [record EXCEPT !.status = "failed",
                                !.lockedUntil = -1, !.expiresAt = exp]
    BY DEF FailedRecord
  <1>3. FailedRecord(ttl) = [status |-> "failed", hash |-> record.hash,
                lockedUntil |-> -1, expiresAt |-> exp, token |-> record.token,
                response |-> record.response]
    BY <1>2 DEF Record
  <1> HIDE DEF exp
  <1>4. QED
    BY <1>1, <1>3 DEF Record, Status

LEMMA CompletedFields ==
    ASSUME record \in Record, now \in Nat, settings \in Settings,
           NEW e \in Execution
    PROVE  /\ CompletedRecord(e) \in Record
           /\ CompletedRecord(e).status = "completed"
           /\ CompletedRecord(e).lockedUntil = Null
           /\ CompletedRecord(e).token = record.token
           /\ CompletedRecord(e).hash = record.hash
           /\ CompletedRecord(e).response = e
           /\ CompletedRecord(e).expiresAt = now + settings.completedTtl
           /\ now + settings.completedTtl \in Nat
  <1> DEFINE exp == now + settings.completedTtl
  <1>1. exp \in Nat
    OBVIOUS
  <1>2. CompletedRecord(e) = [record EXCEPT !.status = "completed",
                    !.lockedUntil = -1, !.response = e, !.expiresAt = exp]
    BY DEF CompletedRecord
  <1>3. CompletedRecord(e) = [status |-> "completed", hash |-> record.hash,
                lockedUntil |-> -1, expiresAt |-> exp, token |-> record.token,
                response |-> e]
    BY <1>2 DEF Record
  <1>4. QED
    BY <1>1, <1>3 DEF Record, Status

LEMMA InitInv == Init => IdempotencyInv
  BY DEF Init, IdempotencyInv, TypeOK, RecordOK, Record, NoRecord, Status,
         Control, Result, LeaseSet, LockedByRunner, CompletionRecorded,
         ResultsSettled, AnswerWasPersisted, AnswerHoldsUntilExpiry, Running,
         Finished

\* Every step preserves the types and the shape of the row.
LEMMA TypeStep ==
    ASSUME TypeOK, LeaseSet, [Next]_vars
    PROVE  TypeOK'
  <1>0. settings' = settings
    BY DEF Next, vars
  <1> USE <1>0 DEF TypeOK, RecordOK, Record, Status, Control, Result
  <1>1. ASSUME NEW e \in Execution, Execute(e) PROVE TypeOK'
    <2>1. CASE Replay(e, record) = "returned"
      BY <1>1, <2>1, ReplayReturned DEF Execute, Settle, Refuse, Goto
    <2>2. CASE Replay(e, record) # "returned"
      BY <1>1, <2>2, ReplayRange DEF Execute, Settle, Refuse, Goto
    <2>3. QED BY <2>1, <2>2
  <1>2. ASSUME NEW e \in Execution, Acquire(e) PROVE TypeOK'
    BY <1>2 DEF Acquire, Goto, ProcessingRecord, LeaseSet
  <1>3. ASSUME NEW e \in Execution, Reread(e) PROVE TypeOK'
    <2>1. CASE Replay(e, record) = "returned"
      BY <1>3, <2>1, ReplayReturned DEF Reread, Settle, Refuse, Goto
    <2>2. CASE Replay(e, record) # "returned"
      BY <1>3, <2>2, ReplayRange DEF Reread, Settle, Refuse, Goto
    <2>3. QED BY <2>1, <2>2
  <1>4. ASSUME NEW e \in Execution, TakeOver(e) PROVE TypeOK'
    BY <1>4 DEF TakeOver, Goto, Settle, Refuse, ProcessingRecord, LeaseSet
  <1>5. ASSUME NEW e \in Execution, StoreThrows(e) PROVE TypeOK'
    BY <1>5 DEF StoreThrows, Settle, Refuse, ProcessingRecord, LeaseSet
  <1>6. ASSUME NEW e \in Execution, Effect(e) \/ RunReturns(e) \/ RunThrows(e)
        PROVE TypeOK'
    BY <1>6 DEF Effect, RunReturns, RunThrows, Goto
  <1>7. ASSUME NEW e \in Execution, MarkFailed(e) PROVE TypeOK'
    BY <1>7, PolicyType, FailedFields DEF MarkFailed, Settle, Refuse, Owns
  <1>8. ASSUME NEW e \in Execution, MarkCompleted(e) PROVE TypeOK'
    BY <1>8, CompletedFields DEF MarkCompleted, Goto, Owns
  <1>9. ASSUME NEW e \in Execution, Verify(e) PROVE TypeOK'
    BY <1>9 DEF Verify, Goto, Settle, CompletedForMe, VerifiedAnswer, Owns
  <1>10. ASSUME NEW e \in Execution, MarkUnverified(e) PROVE TypeOK'
    BY <1>10, PolicyType, FailedFields DEF MarkUnverified, Settle, Refuse, Owns
  <1>11. ASSUME NEW e \in Execution, Crash(e) PROVE TypeOK'
    BY <1>11 DEF Crash, Goto
  <1>12. CASE Tick
    BY <1>12 DEF Tick
  <1>13. CASE UNCHANGED vars
    BY <1>13 DEF vars
  <1>14. QED
    BY <1>1, <1>2, <1>3, <1>4, <1>5, <1>6, <1>7, <1>8, <1>9, <1>10, <1>11,
       <1>12, <1>13 DEF Next, Step

\* A live lease survives every step: the row can only change hands once its
\* lock has run out, and only its owner may write it.
LEMMA LeaseStep ==
    ASSUME TypeOK, LeaseSet, LockedByRunner, ResultsSettled, [Next]_vars
    PROVE  LeaseSet' /\ LockedByRunner' /\ ResultsSettled'
  <1> USE DEF TypeOK, RecordOK, LeaseSet, LockedByRunner, ResultsSettled, Running,
              Control
  <1>1. ASSUME NEW e \in Execution, Execute(e)
        PROVE  LeaseSet' /\ LockedByRunner' /\ ResultsSettled'
    BY <1>1 DEF Execute, Settle, Refuse, Goto
  <1>2. ASSUME NEW e \in Execution, Acquire(e)
        PROVE  LeaseSet' /\ LockedByRunner' /\ ResultsSettled'
    BY <1>2 DEF Acquire, Goto, ProcessingRecord
  <1>3. ASSUME NEW e \in Execution, Reread(e)
        PROVE  LeaseSet' /\ LockedByRunner' /\ ResultsSettled'
    BY <1>3 DEF Reread, Settle, Refuse, Goto
  <1>4. ASSUME NEW e \in Execution, TakeOver(e)
        PROVE  LeaseSet' /\ LockedByRunner' /\ ResultsSettled'
    BY <1>4 DEF TakeOver, Goto, Settle, Refuse, ProcessingRecord,
                TakeOverMatches, IsExpired
  <1>5. ASSUME NEW e \in Execution, StoreThrows(e)
        PROVE  LeaseSet' /\ LockedByRunner' /\ ResultsSettled'
    BY <1>5 DEF StoreThrows, Settle, Refuse, ProcessingRecord,
                TakeOverMatches, IsExpired
  <1>6. ASSUME NEW e \in Execution, Effect(e) \/ RunReturns(e) \/ RunThrows(e)
        PROVE  LeaseSet' /\ LockedByRunner' /\ ResultsSettled'
    BY <1>6 DEF Effect, RunReturns, RunThrows, Goto
  <1>7. ASSUME NEW e \in Execution, MarkFailed(e)
        PROVE  LeaseSet' /\ LockedByRunner' /\ ResultsSettled'
    BY <1>7 DEF MarkFailed, Settle, Refuse, Owns
  <1>8. ASSUME NEW e \in Execution, MarkCompleted(e)
        PROVE  LeaseSet' /\ LockedByRunner' /\ ResultsSettled'
    BY <1>8 DEF MarkCompleted, Goto, Owns
  <1>9. ASSUME NEW e \in Execution, Verify(e)
        PROVE  LeaseSet' /\ LockedByRunner' /\ ResultsSettled'
    BY <1>9 DEF Verify, Goto, Settle
  <1>10. ASSUME NEW e \in Execution, MarkUnverified(e)
        PROVE  LeaseSet' /\ LockedByRunner' /\ ResultsSettled'
    BY <1>10 DEF MarkUnverified, Settle, Refuse, Owns
  <1>11. ASSUME NEW e \in Execution, Crash(e)
        PROVE  LeaseSet' /\ LockedByRunner' /\ ResultsSettled'
    BY <1>11 DEF Crash, Goto
  <1>12. CASE Tick
    BY <1>12 DEF Tick
  <1>13. CASE UNCHANGED vars
    BY <1>13 DEF vars
  <1>14. QED
    BY <1>1, <1>2, <1>3, <1>4, <1>5, <1>6, <1>7, <1>8, <1>9, <1>10, <1>11,
       <1>12, <1>13 DEF Next, Step

AnswerInv ==
    CompletionRecorded /\ AnswerWasPersisted /\ AnswerHoldsUntilExpiry

\* Answers come from completed rows, and a completed row is only replaced
\* after the expiry that every answer taken from it carries.
LEMMA AnswerStep ==
    ASSUME TypeOK, ResultsSettled, AnswerInv, [Next]_vars
    PROVE  AnswerInv'
  <1> USE DEF TypeOK, RecordOK, Record, Status, Control, Result, ResultsSettled,
              AnswerInv, CompletionRecorded, AnswerWasPersisted,
              AnswerHoldsUntilExpiry, Finished
  <1>1. ASSUME NEW e \in Execution, Execute(e)
        PROVE  AnswerInv'
    <2>1. CASE Replay(e, record) = "returned"
      BY <1>1, <2>1, ReplayReturned DEF Execute, Settle, Refuse, Goto
    <2>2. CASE Replay(e, record) # "returned"
      BY <1>1, <2>2 DEF Execute, Settle, Refuse, Goto
    <2>3. QED BY <2>1, <2>2
  <1>2. ASSUME NEW e \in Execution, Acquire(e)
        PROVE  AnswerInv'
    BY <1>2 DEF Acquire, Goto, ProcessingRecord
  <1>3. ASSUME NEW e \in Execution, Reread(e)
        PROVE  AnswerInv'
    <2>1. CASE Replay(e, record) = "returned"
      BY <1>3, <2>1, ReplayReturned DEF Reread, Settle, Refuse, Goto
    <2>2. CASE Replay(e, record) # "returned"
      BY <1>3, <2>2 DEF Reread, Settle, Refuse, Goto
    <2>3. QED BY <2>1, <2>2
  <1>4. ASSUME NEW e \in Execution, TakeOver(e)
        PROVE  AnswerInv'
    BY <1>4 DEF TakeOver, Goto, Settle, Refuse, ProcessingRecord,
                TakeOverMatches, IsExpired
  <1>5. ASSUME NEW e \in Execution, StoreThrows(e)
        PROVE  AnswerInv'
    BY <1>5 DEF StoreThrows, Settle, Refuse, ProcessingRecord,
                TakeOverMatches, IsExpired
  <1>6. ASSUME NEW e \in Execution, Effect(e) \/ RunReturns(e) \/ RunThrows(e)
        PROVE  AnswerInv'
    BY <1>6 DEF Effect, RunReturns, RunThrows, Goto
  <1>7. ASSUME NEW e \in Execution, MarkFailed(e)
        PROVE  AnswerInv'
    BY <1>7, FailedFields, PolicyType DEF MarkFailed, Settle, Refuse, Owns
  <1>8. ASSUME NEW e \in Execution, MarkCompleted(e)
        PROVE  AnswerInv'
    BY <1>8, CompletedFields DEF MarkCompleted, Goto, Owns
  <1>9. ASSUME NEW e \in Execution, Verify(e)
        PROVE  AnswerInv'
    BY <1>9 DEF Verify, Goto, Settle, CompletedForMe, VerifiedAnswer, Owns
  <1>10. ASSUME NEW e \in Execution, MarkUnverified(e)
        PROVE  AnswerInv'
    BY <1>10, FailedFields, PolicyType DEF MarkUnverified, Settle, Refuse, Owns
  <1>11. ASSUME NEW e \in Execution, Crash(e)
        PROVE  AnswerInv'
    BY <1>11 DEF Crash, Goto
  <1>12. CASE Tick
    BY <1>12 DEF Tick
  <1>13. CASE UNCHANGED vars
    BY <1>13 DEF vars
  <1>14. QED
    BY <1>1, <1>2, <1>3, <1>4, <1>5, <1>6, <1>7, <1>8, <1>9, <1>10, <1>11,
       <1>12, <1>13 DEF Next, Step

LEMMA InvInductive == Spec => []IdempotencyInv
  <1>1. IdempotencyInv /\ [Next]_vars => IdempotencyInv'
    BY TypeStep, LeaseStep, AnswerStep DEF IdempotencyInv, AnswerInv
  <1>2. QED
    BY InitInv, <1>1, PTL DEF Spec

\* The row is always well formed and every variable keeps its type: a
\* completed row carries the response of the execution whose token it has.
THEOREM TypeCorrect == Spec => []TypeOK
  BY InvInductive, PTL DEF IdempotencyInv

\* A runner whose lease has not run out still owns the processing row.
THEOREM LeaseProtects == Spec => []LeaseProtectsRunner
  <1>1. IdempotencyInv => LeaseProtectsRunner
    BY DEF IdempotencyInv, LockedByRunner, LeaseProtectsRunner, Running
  <1>2. QED
    BY InvInductive, <1>1, PTL

\* execute() only returns responses that were persisted for the same request.
THEOREM AnswersArePersisted == Spec => []AnswerWasPersisted
  BY InvInductive, PTL DEF IdempotencyInv

\* An answer stays the recorded one until it expires, unless the run that
\* produced it reported a persistence error.
THEOREM AnswersHold == Spec => []AnswerHoldsUntilExpiry
  BY InvInductive, PTL DEF IdempotencyInv

\* A completed row is only rewritten after its retention, or by its own
\* execution when the completion could not be read back.
THEOREM CompletedFinal == Spec => CompletedIsFinal
  <1>1. ASSUME IdempotencyInv, [Next]_vars, record.status = "completed",
               record' # record
        PROVE  IsExpired(record) \/ pc[record.token] = "unverified"
    <2> USE DEF IdempotencyInv, TypeOK, RecordOK, CompletionRecorded, Finished
    <2>1. completedUntil[record.token] # Null /\ record.token \in Execution
      BY <1>1 DEF Record
    <2>2. ASSUME NEW e \in Execution, Step(e)
          PROVE  IsExpired(record) \/ pc[record.token] = "unverified"
      BY <1>1, <2>1, <2>2 DEF Step, Execute, Acquire, Reread, TakeOver, StoreThrows,
         Effect, RunReturns, RunThrows, MarkFailed, MarkCompleted, Verify,
         MarkUnverified, Crash, TakeOverMatches, Owns
    <2>3. QED
      BY <1>1, <2>2 DEF Next, Tick, vars
  <1>2. QED
    BY <1>1, InvInductive, PTL DEF CompletedIsFinal, Spec

-----------------------------------------------------------------------------
(***************************************************************************)
(* The reconciliation-required policy.  As long as no completion has       *)
(* outlived its retention and no failure is reported as certain, the row   *)
(* never changes hands: its first owner is the only runner there ever is.  *)
(***************************************************************************)
Uncertain ==
    /\ settings.failurePolicy = "reconciliation-required"
    /\ ~settings.reportsCertainty
    /\ MaxTime < settings.completedTtl

SingleOwner ==
    /\ record.expiresAt = Null \/ record.expiresAt > MaxTime
    /\ \A e \in Execution :
        /\ pc[e] # "taking"
        /\ pc[e] # "failingCertain"
        /\ pc[e] = "rereading" => record.status # "absent"
        /\ pc[e] \in {"running", "failing", "completing"} => record.token = e
    /\ \A e \in effects : record.token = e

\* At most one external effect under reconciliation-required, within the
\* retention period, whatever crashes, races and store faults occur.
THEOREM ReconcileOnce == Spec => []AtMostOneEffect
  <1>1. Init => (Uncertain => SingleOwner)
    BY DEF Init, SingleOwner, NoRecord
  <1>2. ASSUME TypeOK, Uncertain, SingleOwner, [Next]_vars
        PROVE  SingleOwner'
    <2> USE DEF TypeOK, RecordOK, SingleOwner, Control
    <2>1. Policy = [retryFailed |-> FALSE, reclaim |-> FALSE, failedTtl |-> -1]
      BY <1>2 DEF Policy, Uncertain
    <2>2. ~IsExpired(record)
      BY <1>2 DEF IsExpired, Record
    <2>3. ASSUME NEW e \in Execution, Execute(e) \/ Reread(e)
          PROVE  SingleOwner'
      BY <1>2, <2>1, <2>2, <2>3
         DEF Execute, Reread, Settle, Refuse, Goto, Replay, IsLocked, Record, Status,
             Uncertain
    <2>4. ASSUME NEW e \in Execution, Acquire(e) \/ TakeOver(e) \/ StoreThrows(e)
          PROVE  SingleOwner'
      BY <1>2, <2>4 DEF Acquire, TakeOver, StoreThrows, Settle, Refuse, Goto,
                        ProcessingRecord
    <2>5. ASSUME NEW e \in Execution,
                 Effect(e) \/ RunReturns(e) \/ RunThrows(e) \/ Crash(e)
          PROVE  SingleOwner'
      BY <1>2, <2>5 DEF Effect, RunReturns, RunThrows, Crash, Goto, Uncertain
    <2>6. ASSUME NEW e \in Execution, MarkFailed(e) \/ MarkUnverified(e)
          PROVE  SingleOwner'
      <3>1. record' = record \/ record' = FailedRecord(-1)
        BY <1>2, <2>1, <2>6 DEF MarkFailed, MarkUnverified
      <3>2. record' = FailedRecord(-1) =>
                /\ record'.expiresAt = -1
                /\ record'.token = record.token
                /\ record'.status = "failed"
        BY <1>2, FailedFields DEF FailedRecord, Record
      <3>3. QED
        BY <1>2, <2>6, <3>1, <3>2 DEF MarkFailed, MarkUnverified, Settle, Refuse
    <2>7. ASSUME NEW e \in Execution, MarkCompleted(e) \/ Verify(e)
          PROVE  SingleOwner'
      <3>1. CompletedRecord(e).expiresAt > MaxTime
        BY <1>2, CompletedFields DEF Uncertain
      <3>2. QED
        BY <1>2, <2>7, <3>1, CompletedFields
           DEF MarkCompleted, Verify, Settle, Goto
    <2>8. CASE Tick \/ UNCHANGED vars
      BY <1>2, <2>8 DEF Tick, vars
    <2>9. QED
      BY <1>2, <2>3, <2>4, <2>5, <2>6, <2>7, <2>8 DEF Next, Step
  <1>3. ASSUME [Next]_vars, Uncertain'
        PROVE  Uncertain
    BY <1>3 DEF Uncertain, Next, vars
  <1>4. (Uncertain => SingleOwner) => AtMostOneEffect
    BY DEF Uncertain, SingleOwner, AtMostOneEffect
  <1>5. QED
    BY <1>1, <1>2, <1>3, <1>4, TypeCorrect, PTL DEF Spec

=============================================================================

--------------------------- MODULE PaymentReports ---------------------------
(***************************************************************************)
(* What the adapters of the payment providers report of a payment: the     *)
(* status they read out of an event, out of an answer, or out of a         *)
(* transaction a redirect callback names.  A report is a set: empty where  *)
(* the adapter reports nothing or throws.                                  *)
(***************************************************************************)

-----------------------------------------------------------------------------
\* Events

\* What the providers send when something happens to a payment; Stripe calls the
\* charge of an authorization succeeded, though nothing of it is captured
EventsOf(happening) ==
    CASE happening = "authorized" ->
            {"payment_intent.amount_capturable_updated", "charge.succeeded",
             "ORDER_AUTHORISED"}
      [] happening = "captured" ->
            {"payment_intent.succeeded", "charge.succeeded", "charge.captured",
             "checkout.session.completed",
             "checkout.session.async_payment_succeeded", "ORDER_COMPLETED"}
      [] happening = "attempted" ->
            {"payment_intent.processing", "charge.pending", "checkout.session.unpaid",
             "ORDER_PAYMENT_AUTHENTICATED", "ORDER_PAYMENT_AUTHENTICATION_CHALLENGED"}
      [] happening = "declined" ->
            {"payment_intent.payment_failed", "charge.failed",
             "checkout.session.async_payment_failed",
             "ORDER_PAYMENT_DECLINED", "ORDER_PAYMENT_FAILED"}
      [] happening = "closed" ->
            {"payment_intent.canceled", "checkout.session.expired",
             "ORDER_CANCELLED", "ORDER_FAILED"}
      [] OTHER -> {}

\* EVENT_MAP: Stripe's types whose normalized name is one of these two
StripeNormalized(type) ==
    CASE type \in {"charge.succeeded", "payment_intent.succeeded"} -> "payment.succeeded"
      [] type \in {"charge.failed", "payment_intent.payment_failed",
                   "checkout.session.async_payment_failed"} -> "payment.failed"
      [] OTHER -> "none"

\* paymentStatus(): the status of an event about a payment intent or a charge,
\* captured or not
MutStripePaymentCapturable(type) ==
    CASE type = "payment_intent.canceled" -> {"canceled"}
      [] type = "payment_intent.amount_capturable_updated" -> {"succeeded"}
      [] OTHER -> {}
StripePayment(type) ==
    CASE type = "payment_intent.canceled" -> {"canceled"}
      [] type \in {"payment_intent.processing", "charge.pending"} -> {"processing"}
      [] type = "payment_intent.amount_capturable_updated" -> {"authorized"}
      [] StripeNormalized(type) = "payment.succeeded" -> {"succeeded"}
      [] StripeNormalized(type) = "payment.failed" -> {"failed"}
      [] OTHER -> {}

\* reconcileCheckoutSessionWebhook(); a session that completes without being
\* paid ("checkout.session.unpaid" here) reports nothing
StripeSession(type) ==
    CASE type = "checkout.session.expired" -> {"canceled"}
      [] type = "checkout.session.async_payment_failed" -> {"failed"}
      [] type \in {"checkout.session.async_payment_succeeded",
                   "checkout.session.completed"} -> {"succeeded"}
      [] OTHER -> {}

\* reconcileStripePaymentWebhook(): the types it looks at
StripeReport(type) ==
    CASE type \in {"payment_intent.canceled", "payment_intent.amount_capturable_updated",
                   "payment_intent.processing", "payment_intent.succeeded",
                   "payment_intent.payment_failed",
                   "charge.succeeded", "charge.failed", "charge.pending"} -> StripePayment(type)
      [] OTHER -> StripeSession(type)

\* STATUS_BY_EVENT of Revolut
RevolutReport(type) ==
    CASE type = "ORDER_AUTHORISED" -> {"authorized"}
      [] type = "ORDER_COMPLETED" -> {"succeeded"}
      [] type = "ORDER_PAYMENT_AUTHENTICATED" -> {"processing"}
      [] type = "ORDER_PAYMENT_AUTHENTICATION_CHALLENGED" -> {"pending"}
      [] type \in {"ORDER_FAILED", "ORDER_PAYMENT_DECLINED", "ORDER_PAYMENT_FAILED"} -> {"failed"}
      [] type = "ORDER_CANCELLED" -> {"canceled"}
      [] OTHER -> {}

ReportOf(type) == StripeReport(type) \cup RevolutReport(type)

-----------------------------------------------------------------------------
\* Answers of charge() and authorize()

\* PAYMENT_STATUS of Stripe, by the status of the payment intent
StripeStatus(state) ==
    CASE state \in {"succeeded", "processing", "canceled"} -> state
      [] state = "requires_capture" -> "authorized"
      [] OTHER -> "pending"

\* StripePayments.charge throws for an intent that is not under way
StripeCharge(state) ==
    IF state \in {"requires_payment_method", "requires_confirmation", "requires_action"}
    THEN {} ELSE {StripeStatus(state)}

\* StripePayments.authorize throws for one that waits for its customer only
StripeAuthorize(state) ==
    IF state = "requires_action" THEN {} ELSE {StripeStatus(state)}

\* paymentStatus() of Revolut, by the state of the order
RevolutStatus(state) ==
    CASE state = "authorised" -> "authorized"
      [] state = "completed" -> "succeeded"
      [] state = "cancelled" -> "canceled"
      [] state = "failed" -> "failed"
      [] OTHER -> "processing"

\* TrustMyTravelRetainedPurchases.status, by the status of the transaction
RetainedStatus(status) ==
    CASE status = "complete" -> {"succeeded"}
      [] status \in {"failed", "expired"} -> {"failed"}
      [] status = "pending" -> {"processing"}
      [] OTHER -> {}

\* charge() at Stripe and Trust My Travel, authorize() at Stripe, Revolut and Trust
\* My Travel, where it only opens a session; "pending" is a payment under way
ChargeAnswers(state) ==
    IF state = "captured"
    THEN StripeCharge("succeeded") \cup RetainedStatus("complete")
    ELSE StripeCharge("processing") \cup RetainedStatus("pending") \cup RetainedStatus("failed")

AuthorizeAnswers(state) ==
    IF state = "authorized"
    THEN StripeAuthorize("requires_capture") \cup {RevolutStatus("authorised")}
    ELSE StripeAuthorize("processing") \cup StripeAuthorize("requires_payment_method")
             \cup {RevolutStatus("pending"), "processing"}

-----------------------------------------------------------------------------
\* Redirect callbacks

\* trustMyTravelPaymentStatus(): locked and incomplete transactions throw
TmtStatus(status, type) ==
    CASE status \in {"locked", "incomplete"} -> {}
      [] status = "complete" ->
            (CASE type = "authorize" -> {"authorized"}
               [] type = "void" -> {"canceled"}
               [] OTHER -> {"succeeded"})
      [] status \in {"expired", "failed"} -> {"failed"}
      [] status = "pending" -> {"processing"}
      [] OTHER -> {"pending"}

\* PAYMENT_STATUS_BY_TRANSACTION of SISP
SispStatus(status) ==
    CASE status = "completed" -> "succeeded"
      [] status = "failed" -> "failed"
      [] status = "cancelled" -> "canceled"
      [] OTHER -> "pending"

\* handleRedirectCallback(): the status of a transaction, by what became of it
CallbackReport(state) ==
    CASE state = "authorized" -> TmtStatus("complete", "authorize")
      [] state = "captured" -> TmtStatus("complete", "purchase") \cup {SispStatus("completed")}
      [] state = "closed" ->
            TmtStatus("complete", "void") \cup TmtStatus("expired", "authorize")
                \cup {SispStatus("cancelled")}
      [] state = "declined" -> TmtStatus("failed", "purchase") \cup {SispStatus("failed")}
      [] OTHER -> TmtStatus("pending", "purchase") \cup TmtStatus("incomplete", "purchase")
                      \cup {SispStatus("pending")}

=============================================================================

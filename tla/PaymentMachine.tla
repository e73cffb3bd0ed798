--------------------------- MODULE PaymentMachine ---------------------------
(***************************************************************************)
(* The transition table of a payment (PaymentStateMachine).                *)
(***************************************************************************)

PaymentStatus == {"pending", "processing", "authorized", "succeeded",
                  "failed", "canceled", "refunded", "partially_refunded"}

\* MAP: the edges <<status, event, next status>>
Transitions ==
    { <<"pending", "process", "processing">>,
      <<"pending", "authorize", "authorized">>,
      <<"pending", "succeed", "succeeded">>,
      <<"pending", "fail", "failed">>,
      <<"pending", "cancel", "canceled">>,
      <<"processing", "authorize", "authorized">>,
      <<"processing", "succeed", "succeeded">>,
      <<"processing", "fail", "failed">>,
      <<"processing", "cancel", "canceled">>,
      <<"authorized", "capture", "succeeded">>,
      <<"authorized", "void", "canceled">>,
      <<"authorized", "fail", "failed">>,
      <<"failed", "process", "processing">>,
      <<"failed", "authorize", "authorized">>,
      <<"failed", "succeed", "succeeded">>,
      <<"succeeded", "refund", "refunded">>,
      <<"succeeded", "partially_refund", "partially_refunded">>,
      <<"partially_refunded", "refund", "refunded">>,
      <<"partially_refunded", "partially_refund", "partially_refunded">> }

\* can(): the table has an edge for the event
Can(status, event) ==
    \E next \in PaymentStatus : <<status, event, next>> \in Transitions

\* EVENT_BY_TARGET
EventByTarget(target) ==
    CASE target = "processing" -> "process"
      [] target = "authorized" -> "authorize"
      [] target = "succeeded" -> "succeed"
      [] target = "failed" -> "fail"
      [] target = "canceled" -> "cancel"
      [] target = "refunded" -> "refund"
      [] target = "partially_refunded" -> "partially_refund"
      [] OTHER -> "none"

\* The event tryTransitionTo() looks up; an authorization has its own ways out
EventFor(from, target) ==
    CASE from = "authorized" /\ target = "succeeded" -> "capture"
      [] from = "authorized" /\ target = "canceled" -> "void"
      [] OTHER -> EventByTarget(target)

\* tryTransitionTo(): a no-op unless the table leads from the one to the other
MovesTo(from, target) ==
    from # target /\ <<from, EventFor(from, target), target>> \in Transitions

=============================================================================

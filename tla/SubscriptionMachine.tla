------------------------ MODULE SubscriptionMachine ------------------------
(***************************************************************************)
(* The transition table of a subscription (SubscriptionStateMachine) and   *)
(* what reconcileSubscriptionStatus() makes of it: a status reported by    *)
(* the provider is taken when a PATH of events leads to it, however long.  *)
(***************************************************************************)
EXTENDS Naturals

SubscriptionStatus == {"incomplete", "incomplete_expired", "trialing", "active",
                       "past_due", "canceled", "unpaid", "paused"}

\* MAP: the edges <<status, event, next status>>
SubscriptionEdges ==
    { <<"incomplete", "start_trial", "trialing">>,
      <<"incomplete", "activate", "active">>,
      <<"incomplete", "expire", "incomplete_expired">>,
      <<"incomplete", "cancel", "canceled">>,
      <<"trialing", "activate", "active">>,
      <<"trialing", "mark_past_due", "past_due">>,
      <<"trialing", "mark_unpaid", "unpaid">>,
      <<"trialing", "pause", "paused">>,
      <<"trialing", "cancel", "canceled">>,
      <<"active", "mark_past_due", "past_due">>,
      <<"active", "mark_unpaid", "unpaid">>,
      <<"active", "pause", "paused">>,
      <<"active", "cancel", "canceled">>,
      <<"past_due", "activate", "active">>,
      <<"past_due", "mark_unpaid", "unpaid">>,
      <<"past_due", "cancel", "canceled">>,
      <<"unpaid", "activate", "active">>,
      <<"unpaid", "cancel", "canceled">>,
      <<"paused", "resume", "active">>,
      <<"paused", "cancel", "canceled">> }

\* The pairs of statuses n events or fewer lead from one to the other: the
\* breadth-first search of shortestEventPath(), level by level
PathsWithin[n \in Nat] ==
    IF n = 0 THEN { <<s, s>> : s \in SubscriptionStatus }
    ELSE LET visited == PathsWithin[n - 1]
         IN  visited \cup UNION { { <<p[1], e[3]>> : e \in { d \in SubscriptionEdges : d[1] = p[2] } }
                                  : p \in visited }

\* No path visits more than the eight statuses
MostEvents == 7

Paths == PathsWithin[MostEvents]

\* shortestEventPath(current, target) # null: the reconciliation is applied
CanReconcile(current, target) == <<current, target>> \in Paths

\* reconcileSubscriptionStatus(): the target, or the current status unchanged
Reconciled(current, target) ==
    IF CanReconcile(current, target) THEN target ELSE current

\* can(): the table has an edge for the event
SubscriptionCan(status, event) ==
    \E t \in SubscriptionStatus : <<status, event, t>> \in SubscriptionEdges

\* isActiveSubscription()
IsActive(status) == status \in {"active", "trialing"}

(***************************************************************************)
(* Properties.                                                             *)
(***************************************************************************)

\* Both ends of a subscription's life are final for the reconciliation: no
\* report moves a canceled or an expired subscription, and every other status
\* can still be canceled (the search follows the table to its end)
TerminalIsFinal ==
    /\ \A s \in {"canceled", "incomplete_expired"}, t \in SubscriptionStatus :
          CanReconcile(s, t) => t = s
    /\ \A s \in SubscriptionStatus \ {"canceled", "incomplete_expired"} :
          CanReconcile(s, "canceled")

ASSUME SubscriptionMachineAssumption == TerminalIsFinal

============================================================================

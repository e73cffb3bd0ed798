----------------------- MODULE SubscriptionMutations -----------------------
(***************************************************************************)
(* The direct mutations of one subscription (SubscriptionAction and its    *)
(* subclasses, executeSubscriptionMutation()), the mutation claim they     *)
(* share, the operator's resolution of an ambiguous one, and the webhooks  *)
(* of the provider that write the same row.                                *)
(*                                                                         *)
(* An attempt reads the row, then checks that nobody holds the claim, then *)
(* reads the item, then inserts the claim (unique per subscription): only  *)
(* the last of these is atomic with anything.  It then calls the provider  *)
(* with what it READ and writes the answer over the row in a transaction   *)
(* that also deletes the claim.  An attempt that ends in between leaves    *)
(* the claim for the operator.                                             *)
(*                                                                         *)
(* The subscription has one item.  Dates, scheduled changes and payment    *)
(* collection are left out: no guard reads them back.                      *)
(***************************************************************************)
EXTENDS SubscriptionMachine, Sequences

CONSTANTS
    Attempt,       \* calls that may change the subscription at the provider
    NoAttempt,     \* no call
    Operation,     \* the direct operations the calls may be, see AllOperations
    Price,         \* canonical prices
    Quantity,      \* item quantities
    NoItem,        \* no item: an unset snapshot
    FirstItem,     \* the item the subscription is created with
    Canonical,     \* whether the subscription may be linked to the catalog: a set of BOOLEANs
    MaxEvents,     \* changes the provider makes on its own
    MaxFaults      \* deaths of a process, lost answers, failed transactions

Item == [price : Price, quantity : Quantity]

AllOperations == {"cancel", "cancel_now", "resume", "cancel_scheduled_change", "pause",
                  "resume_paused", "pause_collection", "resume_collection",
                  "swap", "swap_later", "quantity_update", "change_apply"}

ASSUME SubscriptionAssumption ==
    /\ NoAttempt \notin Attempt
    /\ Operation \subseteq AllOperations
    /\ NoItem \notin Item
    /\ FirstItem \in Item
    /\ Canonical \subseteq BOOLEAN
    /\ MaxEvents \in Nat
    /\ MaxFaults \in Nat

VARIABLES
    history,   \* what the subscription was at the provider, after each of its changes
    sub,       \* the local rows: subscription, its item, its binding's providerSyncedAt
    fence,     \* the owner of the active mutation claim, or NoAttempt
    run,       \* the state of each attempt in its process
    truth,     \* truth[a]: the provider carried the attempt out
    log,       \* log[a]: the verdict committed for the attempt, "none" before it
    spent      \* how much of the bounds has been used

vars == <<history, sub, fence, run, truth, log, spent>>

Remote == history[Len(history)]

\* What a call knows: how far it got, what it read and what it asks for
Call(pc, op, read, item, want) ==
    [pc |-> pc, op |-> op, read |-> read, item |-> item, want |-> want,
     answer |-> "active", stale |-> FALSE]

Idle == Call("idle", "none", "active", NoItem, NoItem)

Init ==
    /\ \E canonical \in Canonical :
          sub = [status |-> "active", price |-> FirstItem.price,
                 quantity |-> FirstItem.quantity, item |-> FirstItem,
                 canon |-> IF canonical THEN FirstItem ELSE NoItem,
                 period |-> 1, synced |-> 1]
    /\ history = << [status |-> "active", item |-> FirstItem, pending |-> NoItem, period |-> 1] >>
    /\ fence = NoAttempt
    /\ run = [a \in Attempt |-> Idle]
    /\ truth = [a \in Attempt |-> FALSE]
    /\ log = [a \in Attempt |-> "none"]
    /\ spent = [events |-> 0, faults |-> 0]

----------------------------------------------------------------------------
(* What the operations ask for.                                            *)

ItemOperations == {"swap", "swap_later", "quantity_update", "change_apply"}

\* PROJECTING_OPERATIONS: the ones whose claim carries an intent to project
Projecting == {"swap", "swap_later", "quantity_update"}

\* A swap sends the price asked for with the quantity it READ, an update of the
\* quantity the PRICE it read, a change what its preview promised
SwapTarget(r) == [price |-> r.want.price, quantity |-> r.item.quantity]
QuantityTarget(r) == [price |-> r.item.price, quantity |-> r.want.quantity]

Target(r) ==
    CASE r.op \in {"swap", "swap_later"} -> SwapTarget(r)
      [] r.op = "quantity_update" -> QuantityTarget(r)
      [] OTHER -> r.want

\* What the provider makes of an operation.  Cancelation at the end of the
\* period, its revocation, scheduled changes and the collection of payments
\* leave status and item as they are.
CancelNow(remote) == [remote EXCEPT !.status = "canceled"]
Pause(remote) == [remote EXCEPT !.status = "paused"]
ResumePaused(remote) == [remote EXCEPT !.status = "active"]
Change(remote, target) == [remote EXCEPT !.item = target]
Later(remote, target) == [remote EXCEPT !.pending = target]

Carried(remote, op, target) ==
    CASE op = "cancel_now" -> CancelNow(remote)
      [] op = "pause" -> Pause(remote)
      [] op = "resume_paused" -> ResumePaused(remote)
      [] op = "swap_later" -> Later(remote, target)
      [] op \in {"swap", "quantity_update", "change_apply"} -> Change(remote, target)
      [] OTHER -> remote

\* reconcileStatus(): the provider's status against the one READ before the
\* call; the collection of payments keeps the latter
AnsweredStatus(r) ==
    IF r.op \in {"pause_collection", "resume_collection"} THEN r.read
    ELSE Reconciled(r.read, r.answer)

\* The terms of a subscription linked to the catalog follow its quantity
Accepted(canon, quantity) ==
    IF canon = NoItem THEN NoItem ELSE [canon EXCEPT !.quantity = quantity]

SwapPatch(s, r) ==
    [s EXCEPT !.price = r.want.price, !.item.price = r.want.price]

QuantityPatch(s, r) ==
    [s EXCEPT !.quantity = r.want.quantity, !.item.quantity = r.want.quantity,
              !.canon = Accepted(@, r.want.quantity)]

ChangePatch(s, r) ==
    [s EXCEPT !.price = r.want.price, !.quantity = r.want.quantity, !.item = r.want]

\* What persist() writes for an answer
Patched(s, r) ==
    LET written == [s EXCEPT !.status = AnsweredStatus(r)]
    IN  CASE r.op = "swap" -> SwapPatch(written, r)
          [] r.op = "quantity_update" -> QuantityPatch(written, r)
          [] r.op = "change_apply" -> ChangePatch(written, r)
          [] OTHER -> written

\* Mutant: the resolution releases the claim and projects nothing
MutProjectedNothing(s, op, target) == s

\* The row as the intent of an ambiguous operation would leave it
Projected(s, op, target) ==
    CASE op = "swap" -> [s EXCEPT !.item = target, !.price = target.price]
      [] op = "quantity_update" ->
           [s EXCEPT !.item = target, !.quantity = target.quantity,
                     !.canon = Accepted(@, target.quantity)]
      [] OTHER -> s

\* subscriptionMatchesProjection() and sameMutationValue(): the row still is,
\* or already is, at a side of the intent
AtSide(s, op, side) ==
    /\ s.item = side
    /\ op = "swap" => s.price = side.price
    /\ op = "quantity_update" =>
          /\ s.quantity = side.quantity
          /\ s.canon # NoItem => s.canon.quantity = side.quantity

----------------------------------------------------------------------------
(* Actions: an attempt, step by step.                                      *)

Fault == spent.faults < MaxFaults /\ spent' = [spent EXCEPT !.faults = @ + 1]

\* A call that ends; one that leaves its claim behind leaves the intent with it
Ends(a) == run' = [run EXCEPT ![a] = [Idle EXCEPT !.pc = "ended", !.stale = run[a].stale]]
LeavesClaim(a) ==
    run' = [run EXCEPT ![a] = [@ EXCEPT !.pc = "ended", !.read = "active", !.answer = "active"]]

\* The requests an operation may carry: a price, a quantity, or both
Wants(op) ==
    CASE op \in {"swap", "swap_later"} -> { i \in Item : i.quantity = FirstItem.quantity }
      [] op = "quantity_update" -> { i \in Item : i.price = FirstItem.price }
      [] op = "change_apply" -> Item
      [] OTHER -> {NoItem}

\* resolve(): the row is read; change_apply holds the items of its preview
Resolve(a, op) ==
    /\ run[a].pc = "idle"
    /\ \E want \in Wants(op) :
          run' = [run EXCEPT ![a] = Call("resolved", op, sub.status,
                                         IF op = "change_apply" THEN sub.item ELSE NoItem, want)]
    /\ UNCHANGED <<history, sub, fence, truth, log, spent>>

\* assertNoActiveMigration(), pause()'s transition, then selectItem() or
\* assertCurrentItemsMatchPreview(); any of them ends the call
Selectable(a, migrating) ==
    /\ fence = NoAttempt
    /\ ~migrating
    /\ run[a].op = "pause" => SubscriptionCan(run[a].read, "pause")
    /\ run[a].op = "change_apply" => run[a].item = sub.item

Select(a, migrating) ==
    /\ run[a].pc = "resolved"
    /\ IF Selectable(a, migrating)
       THEN run' = [run EXCEPT ![a].pc = "selected",
                               ![a].item = IF run[a].op \in ItemOperations THEN sub.item ELSE NoItem]
       ELSE Ends(a)
    /\ UNCHANGED <<history, sub, fence, truth, log, spent>>

\* acquireSubscriptionMutationClaim(): the insert is unique per subscription.
\* The item the call will send may have changed since it was read (stale).
Claim(a) ==
    /\ run[a].pc = "selected"
    /\ IF fence = NoAttempt
       THEN /\ fence' = a
            /\ run' = [run EXCEPT ![a].pc = "calling",
                                  ![a].stale = run[a].item \notin {NoItem, sub.item}]
       ELSE Ends(a) /\ UNCHANGED fence
    /\ UNCHANGED <<history, sub, truth, log, spent>>

\* The provider refuses to change a canceled subscription
Accepts(remote) == remote.status # "canceled"

\* The provider carries the call out and says so
CallProvider(a) ==
    LET carried == Carried(Remote, run[a].op, Target(run[a]))
    IN  /\ run[a].pc = "calling"
        /\ Accepts(Remote)
        /\ history' = Append(history, carried)
        /\ truth' = [truth EXCEPT ![a] = TRUE]
        /\ run' = [run EXCEPT ![a].pc = "answered", ![a].answer = carried.status]
        /\ UNCHANGED <<sub, fence, log, spent>>

\* callProvider() throws: the provider refused, or the answer was lost before
\* or after it carried the call out.  The claim stays for the operator.
CallThrows(a) ==
    /\ run[a].pc = "calling"
    /\ \/ ~Accepts(Remote) /\ UNCHANGED <<history, truth, spent>>
       \/ Accepts(Remote) /\ Fault /\ UNCHANGED <<history, truth>>
       \/ /\ Accepts(Remote)
          /\ Fault
          /\ history' = Append(history, Carried(Remote, run[a].op, Target(run[a])))
          /\ truth' = [truth EXCEPT ![a] = TRUE]
    /\ LeavesClaim(a)
    /\ UNCHANGED <<sub, fence, log>>

\* Mutant: the claim is deleted by subscription, whoever owns it
MutPersistReleasesAny(a) ==
    /\ run[a].pc = "answered"
    /\ sub' = Patched(sub, run[a])
    /\ fence' = NoAttempt
    /\ log' = [log EXCEPT ![a] = "applied"]
    /\ Ends(a)
    /\ UNCHANGED <<history, truth, spent>>

\* The transaction that writes the answer and deletes the claim; it rolls back
\* when the claim is no longer the attempt's
Persist(a) ==
    /\ run[a].pc = "answered"
    /\ IF fence = a
       THEN /\ sub' = Patched(sub, run[a])
            /\ fence' = NoAttempt
            /\ log' = [log EXCEPT ![a] = "applied"]
       ELSE UNCHANGED <<sub, fence, log>>
    /\ Ends(a)
    /\ UNCHANGED <<history, truth, spent>>

\* The process dies, or the transaction fails and rolls back
Dies(a) ==
    /\ \/ run[a].pc \in {"resolved", "selected"} /\ Ends(a)
       \/ run[a].pc = "answered" /\ LeavesClaim(a)
    /\ Fault
    /\ UNCHANGED <<history, sub, fence, truth, log>>

----------------------------------------------------------------------------
(* Actions: the operator, the provider and its webhooks.                   *)

Truthful(a) == IF truth[a] THEN "applied" ELSE "not_applied"

\* resolveSubscriptionMutationClaim(): the operator establishes what the
\* provider did of a call that is over, and says so; the claim is resolved
\* with the outcome.  A row at neither side of the intent is a conflict; a
\* legacy change has no intent, its item stays behind the provider's (stale).
ResolveClaim(a) ==
    /\ fence = a
    /\ run[a].op \in Operation
    /\ run[a].pc # "calling"
    /\ IF truth[a] /\ run[a].op \in Projecting
       THEN \/ AtSide(sub, run[a].op, Target(run[a])) /\ UNCHANGED sub
            \/ /\ ~AtSide(sub, run[a].op, Target(run[a]))
               /\ AtSide(sub, run[a].op, run[a].item)
               /\ sub' = Projected(sub, run[a].op, Target(run[a]))
       ELSE UNCHANGED sub
    /\ run' = [run EXCEPT ![a].stale = @ \/ (truth[a] /\ run[a].op = "change_apply")]
    /\ fence' = NoAttempt
    /\ log' = [log EXCEPT ![a] = Truthful(a)]
    /\ UNCHANGED <<history, truth, spent>>

\* The provider changes the subscription on its own: a payment fails or
\* succeeds, the subscription is canceled, a period ends and what was put off
\* to the renewal is in force
ProviderEvent ==
    /\ spent.events < MaxEvents
    /\ Remote.status # "canceled"
    /\ \/ \E s \in {"active", "past_due", "canceled"} \ {Remote.status} :
             history' = Append(history, [Remote EXCEPT !.status = s])
       \/ history' = Append(history,
             [Remote EXCEPT !.period = @ + 1, !.pending = NoItem,
                            !.item = IF Remote.pending = NoItem THEN @ ELSE Remote.pending])
    /\ spent' = [spent EXCEPT !.events = @ + 1]
    /\ UNCHANGED <<sub, fence, run, truth, log>>

\* Mutant: the provider's item is taken whether or not the catalog owns it
MutWebhookOwnsItem(i) ==
    LET seen == history[i]
        withItem == [sub EXCEPT !.item = seen.item]
    IN  /\ i > sub.synced
        /\ sub' = IF ~CanReconcile(sub.status, seen.status) THEN withItem
                  ELSE [withItem EXCEPT !.status = Reconciled(sub.status, seen.status),
                                        !.period = seen.period, !.synced = i]
        /\ UNCHANGED <<history, fence, run, truth, log, spent>>

\* reconcileWebhookSubscription(): the event of the i-th change arrives, in any
\* order and never for sure; one no newer than providerSyncedAt is dropped.  A
\* subscription linked to the catalog keeps its own item.  A status no path
\* leads to leaves the row, but the item has been written by then.
Webhook(i) ==
    LET seen == history[i]
        withItem == IF sub.canon = NoItem THEN [sub EXCEPT !.item = seen.item] ELSE sub
    IN  /\ i > sub.synced
        /\ sub' = IF ~CanReconcile(sub.status, seen.status) THEN withItem
                  ELSE [withItem EXCEPT
                          !.status = Reconciled(sub.status, seen.status),
                          !.price = IF sub.canon = NoItem THEN seen.item.price ELSE @,
                          !.quantity = IF sub.canon = NoItem THEN seen.item.quantity ELSE @,
                          !.period = seen.period,
                          !.synced = i]
        /\ UNCHANGED <<history, fence, run, truth, log, spent>>

DirectNext(migrating) ==
    \/ \E a \in Attempt :
          \/ \E op \in Operation : Resolve(a, op)
          \/ Select(a, migrating)
          \/ Claim(a)
          \/ run[a].op \in Operation /\ (CallProvider(a) \/ CallThrows(a) \/ Persist(a) \/ Dies(a))
          \/ ResolveClaim(a)
    \/ ProviderEvent
    \/ \E i \in DOMAIN history : Webhook(i)

============================================================================

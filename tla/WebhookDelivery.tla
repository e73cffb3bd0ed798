-------------------------- MODULE WebhookDelivery --------------------------
(***************************************************************************)
(* deliverPendingWebhooks: the outbox relay with                           *)
(* WebhookDeliveryService.handle as its deliver() callback.  Where Outbox  *)
(* has one step in which deliver() returns or throws, here the worker      *)
(* lists the enabled endpoints, loads the deliveries recorded so far,      *)
(* posts to one endpoint after the other, records each outcome and         *)
(* disables an endpoint that reached the attempt limit.  Every behaviour   *)
(* is one of Outbox (ImplementsOutbox).                                    *)
(***************************************************************************)
EXTENDS Outbox

CONSTANTS
    Endpoints,          \* the endpoints subscribed to the events, oldest first
    MaxDeliveryAttempts,\* WebhookDeliveryService.maxAttempts
    MaxStoreFaults      \* bound: storage calls of handle() that throw

Endpoint == {Endpoints[i] : i \in DOMAIN Endpoints}

ASSUME DeliveryAssumption ==
    /\ Endpoints \in Seq(Endpoint)
    /\ MaxDeliveryAttempts \in Nat \ {0}
    /\ MaxStoreFaults \in Nat

VARIABLES
    enabled,        \* endpoints with status enabled
    everDisabled,   \* endpoints that were disabled at some time
    recorded,       \* recorded[e][p]: the row of payable_webhook_deliveries
    received,       \* received[e]: endpoints that answered a post of e with 2xx
    failedPosts,    \* failed posts of e to p, up to MaxDeliveryAttempts
    step,           \* where each worker is inside handle()
    todo,           \* places in Endpoints the loop still has to visit
    prior,          \* recorded[e] when handle() loaded it
    incomplete,     \* the flag of handle()
    posted,         \* outcome.ok of the last post
    storeFaults

handleVars == <<step, todo, prior, incomplete, posted>>
deliveryVars == <<enabled, everDisabled, recorded, received, failedPosts, storeFaults>>
dvars == <<vars, handleVars, deliveryVars>>

NoDeliveries == [p \in Endpoint |-> [status |-> "none", attempts |-> 0]]

DeliveryInit ==
    /\ Init
    /\ enabled = Endpoint
    /\ everDisabled = {}
    /\ recorded = [e \in Event |-> NoDeliveries]
    /\ received = [e \in Event |-> {}]
    /\ failedPosts = [e \in Event |-> [p \in Endpoint |-> 0]]
    /\ step = [w \in Worker |-> "start"]
    /\ todo = [w \in Worker |-> {}]
    /\ prior = [w \in Worker |-> NoDeliveries]
    /\ incomplete = [w \in Worker |-> FALSE]
    /\ posted = [w \in Worker |-> FALSE]
    /\ storeFaults = 0

-----------------------------------------------------------------------------
\* WebhookDeliveryService.handle

At(w, label) == pc[w] = "delivering" /\ step[w] = label
Goto(w, label) == step' = [step EXCEPT ![w] = label]

\* handle() is left: its local variables go out of scope.
Leave(w) ==
    /\ Goto(w, "start")
    /\ todo' = [todo EXCEPT ![w] = {}]
    /\ prior' = [prior EXCEPT ![w] = NoDeliveries]
    /\ incomplete' = [incomplete EXCEPT ![w] = FALSE]
    /\ posted' = [posted EXCEPT ![w] = FALSE]

\* listEnabledForEvent; without endpoints the event counts as delivered.
ListEndpoints(w) ==
    /\ At(w, "start")
    /\ LET found == {i \in DOMAIN Endpoints : Endpoints[i] \in enabled}
       IN  IF found = {}
           THEN DeliverReturns(w) /\ UNCHANGED handleVars
           ELSE /\ todo' = [todo EXCEPT ![w] = found]
                /\ Goto(w, "loading")
                /\ UNCHANGED <<vars, prior, incomplete, posted>>
    /\ UNCHANGED deliveryVars

\* listForEvent.
LoadPrior(w) ==
    /\ At(w, "loading")
    /\ prior' = [prior EXCEPT ![w] = recorded[Current(w)]]
    /\ Goto(w, "posting")
    /\ UNCHANGED <<vars, deliveryVars, todo, incomplete, posted>>

\* The endpoint of this round of the loop
Facing(w) == Endpoints[Min(todo[w])]

\* The loop goes on to the next endpoint.
NextEndpoint(w) ==
    /\ todo' = [todo EXCEPT ![w] = @ \ {Min(@)}]
    /\ Goto(w, "posting")

\* An endpoint that has the event already is skipped.
SkipDelivered(w) ==
    /\ At(w, "posting")
    /\ todo[w] # {}
    /\ prior[w][Facing(w)].status = "delivered"
    /\ NextEndpoint(w)
    /\ UNCHANGED <<vars, deliveryVars, prior, incomplete, posted>>

\* post(): a 2xx answer, or a failure (a blocked host, a redirect, another
\* status, a timeout, a refused connection).
Post(w) ==
    /\ At(w, "posting")
    /\ todo[w] # {}
    /\ LET e == Current(w)
           p == Facing(w)
       IN  /\ prior[w][p].status # "delivered"
           /\ \/ /\ received' = [received EXCEPT ![e] = @ \cup {p}]
                 /\ posted' = [posted EXCEPT ![w] = TRUE]
                 /\ UNCHANGED failedPosts
              \/ /\ failedPosts' = [failedPosts EXCEPT
                        ![e][p] = Min({@ + 1, MaxDeliveryAttempts})]
                 /\ posted' = [posted EXCEPT ![w] = FALSE]
                 /\ UNCHANGED received
    /\ Goto(w, "recording")
    /\ UNCHANGED <<vars, enabled, everDisabled, recorded, storeFaults, todo,
                   prior, incomplete>>

MutAttemptsFromRow(w) ==
    LET p == Facing(w)
    IN  prior[w][p].attempts + recorded[Current(w)][p].attempts + 1
\* The attempt number, counted from the deliveries loaded before the loop.
Attempts(w) ==
    prior[w][Facing(w)].attempts + 1

MutRecordForgetsFailure(w) ==
    /\ At(w, "recording")
    /\ recorded' = [recorded EXCEPT ![Current(w)][Facing(w)] =
            [status |-> IF posted[w] THEN "delivered" ELSE "failed",
             attempts |-> Min({Attempts(w), MaxDeliveryAttempts})]]
    /\ NextEndpoint(w)
    /\ UNCHANGED <<vars, enabled, everDisabled, received, failedPosts,
                   storeFaults, prior, incomplete, posted>>
\* record(): the row of (endpoint, event) is created or overwritten.
Record(w) ==
    /\ At(w, "recording")
    /\ recorded' = [recorded EXCEPT ![Current(w)][Facing(w)] =
            [status |-> IF posted[w] THEN "delivered" ELSE "failed",
             attempts |-> Min({Attempts(w), MaxDeliveryAttempts})]]
    /\ IF posted[w]
       THEN NextEndpoint(w) /\ UNCHANGED incomplete
       ELSE IF Attempts(w) >= MaxDeliveryAttempts
       THEN Goto(w, "disabling") /\ UNCHANGED <<todo, incomplete>>
       ELSE NextEndpoint(w) /\ incomplete' = [incomplete EXCEPT ![w] = TRUE]
    /\ UNCHANGED <<vars, enabled, everDisabled, received, failedPosts,
                   storeFaults, prior, posted>>

\* setStatus("disabled").
Disable(w) ==
    /\ At(w, "disabling")
    /\ enabled' = enabled \ {Facing(w)}
    /\ everDisabled' = everDisabled \cup {Facing(w)}
    /\ NextEndpoint(w)
    /\ UNCHANGED <<vars, recorded, received, failedPosts, storeFaults,
                   prior, incomplete, posted>>

MutEndSkipsMark(w) ==
    /\ At(w, "posting")
    /\ todo[w] = {}
    /\ IF incomplete[w]
       THEN DeliverThrows(w)
       ELSE /\ NextEvent(w)
            /\ UNCHANGED <<createdAt, row, window, failures,
                           stalls, faults, crashes>>
    /\ Leave(w)
    /\ UNCHANGED deliveryVars
\* The end of the loop: WEBHOOK_DELIVERY_INCOMPLETE or success.
EndHandle(w) ==
    /\ At(w, "posting")
    /\ todo[w] = {}
    /\ IF incomplete[w] THEN DeliverThrows(w) ELSE DeliverReturns(w)
    /\ Leave(w)
    /\ UNCHANGED deliveryVars

\* A storage call throws and handle() with it.
StoreThrows(w) ==
    /\ pc[w] = "delivering"
    /\ step[w] # "posting"
    /\ storeFaults < MaxStoreFaults
    /\ storeFaults' = storeFaults + 1
    /\ DeliverThrows(w)
    /\ Leave(w)
    /\ UNCHANGED <<enabled, everDisabled, recorded, received, failedPosts>>

\* The merchant switches an endpoint on again.
EnableEndpoint(p) ==
    /\ p \notin enabled
    /\ enabled' = enabled \cup {p}
    /\ UNCHANGED <<vars, handleVars, everDisabled, recorded, received,
                   failedPosts, storeFaults>>

Handle(w) ==
    \/ ListEndpoints(w) \/ LoadPrior(w) \/ SkipDelivered(w) \/ Post(w)
    \/ Record(w) \/ Disable(w) \/ EndHandle(w) \/ StoreThrows(w)

\* The relay around handle(): the steps of Outbox other than deliver().
Relay(w) ==
    /\ \/ SelectForUpdate(w) \/ FindCandidates(w) \/ ClaimRows(w)
       \/ MarkPublished(w) \/ MarkFailed(w) \/ MarkThrows(w)
    /\ UNCHANGED <<handleVars, deliveryVars>>

DeliveryNext ==
    /\ UNCHANGED locking
    /\ \/ \E w \in Worker : Handle(w) \/ Relay(w)
       \/ \E w \in Worker : Crash(w) /\ Leave(w) /\ UNCHANGED deliveryVars
       \/ \E p \in Endpoint : EnableEndpoint(p)
       \/ Tick /\ UNCHANGED <<handleVars, deliveryVars>>
       \/ (\E e \in Event : Stage(e)) /\ UNCHANGED <<handleVars, deliveryVars>>

DeliverySpec == DeliveryInit /\ [][DeliveryNext]_dvars

\* Workers are scheduled and time passes; staging, crashing and the merchant
\* are free.
FairDeliverySpec ==
    /\ DeliverySpec
    /\ WF_dvars(UNCHANGED locking /\ Tick /\ UNCHANGED <<handleVars, deliveryVars>>)
    /\ \A w \in Worker : WF_dvars(UNCHANGED locking /\ (Handle(w) \/ Relay(w)))

-----------------------------------------------------------------------------
\* Properties

\* handle() is a deliver() callback as the relay expects it: the composition
\* takes no step that the outbox on its own could not take.
ImplementsOutbox == Spec

\* A published event reached every endpoint that was not disabled meanwhile,
\* whichever workers shared the posts and whichever claims expired.
PublishedReachedEndpoints ==
    \A e \in Event : row[e].status = "published" =>
        Endpoint \subseteq received[e] \cup everDisabled

\* An endpoint is disabled only after maxAttempts posts of one event to it
\* failed, also when overlapping workers count from stale deliveries.
DisabledWasEarned ==
    \A p \in everDisabled : \E e \in Event : failedPosts[e][p] = MaxDeliveryAttempts

=============================================================================

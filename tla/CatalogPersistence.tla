------------------------- MODULE CatalogPersistence -------------------------
(***************************************************************************)
(* Mutations of a provider's catalog and the local rows that follow them.  *)
(* ProductResource and PriceResource change a product or a price at the    *)
(* provider; CatalogPersistenceCoordinator then writes what the provider   *)
(* answered into payable_products or payable_prices, with an audit entry   *)
(* and an outbox event in the same transaction.  The provider and the      *)
(* database share no transaction: calls that overlap may be answered in    *)
(* one order and persisted in another, and a call whose transaction fails  *)
(* asks the database whether its state is there all the same.              *)
(*                                                                         *)
(* A transaction reads the row without a lock and updates it where it is   *)
(* still what it read; a row that was absent is inserted under the unique  *)
(* index on the provider's id.  The resources of the provider are numbered *)
(* as they are made, and what is in one is its state.  A provider with     *)
(* native idempotency repeats its first answer to a key.  The engine's     *)
(* idempotency record, where there is one, is Idempotency; it only keeps   *)
(* calls with one key from running at once.                                *)
(***************************************************************************)
EXTENDS Integers, Sequences

CONSTANTS
    Call,       \* calls of create, update, activate and archive
    State,      \* what can be in a product or price
    Absent,     \* no row
    Key,        \* callers' idempotency keys, sent to providers that take them
    NoKey,
    Native,     \* values of capabilities().has('catalogIdempotency')
    MaxMade,    \* bound: products and prices made at the provider
    MaxFaults   \* bound: answers lost, storage calls that throw, deaths

ASSUME PersistenceAssumption ==
    /\ Absent \notin State
    /\ NoKey \notin Key
    /\ Native \subseteq BOOLEAN
    /\ MaxMade \in Nat /\ MaxFaults \in Nat

VARIABLES
    native,      \* the provider takes idempotency keys; fixed
    remote,      \* the products and prices at the provider: [parent, state]
    replies,     \* the first answer to each key of each action: [request, res, state]
    row,         \* the local row of each of them
    transitions, \* the audit entries, and outbox events, of each: [before, after]
    call,        \* where each call is, and what it holds
    faults

vars == <<native, remote, replies, row, transitions, call, faults>>

Made == 1..MaxMade

\* parent is 0 for a product, and the product of a price
CreateProduct == [op |-> "create", res |-> 0, parent |-> 0]
CreatePrice(product) == [op |-> "create", res |-> 0, parent |-> product]
Change(x) == [op |-> "change", res |-> x, parent |-> remote[x].parent]
Requests ==
    {CreateProduct}
    \cup {CreatePrice(x) : x \in {y \in DOMAIN remote : remote[y].parent = 0}}
    \cup {Change(x) : x \in DOMAIN remote}

\* deriveCatalogProviderKey: the key sent to the provider names the action too
ProviderKey == {"create", "change"} \X {"product", "price"} \X Key
KeyOf(request, key) ==
    <<request.op, IF request.parent = 0 THEN "product" ELSE "price", key>>

NoReply == [request |-> CreateProduct, res |-> 0, state |-> Absent]
Resting == [pc |-> "idle", request |-> CreateProduct, key |-> NoKey, res |-> 0,
            state |-> Absent, before |-> Absent, mark |-> 0]

Init ==
    /\ native \in Native
    /\ remote = <<>>
    /\ replies = [k \in ProviderKey |-> NoReply]
    /\ row = [x \in Made |-> Absent]
    /\ transitions = [x \in Made |-> <<>>]
    /\ call = [c \in Call |-> Resting]
    /\ faults = 0

GoTo(c, pc) == call' = [call EXCEPT ![c].pc = pc]
Fault == faults < MaxFaults /\ faults' = faults + 1

-----------------------------------------------------------------------------
\* The mutation at the provider

\* resolveProductId: a price is made, or persisted, only under a product that
\* has a row
Resolved(parent) == parent = 0 \/ row[parent] # Absent

\* create, update, activate, archive: what is done before the provider is
\* asked; a new price looks for its product
Begin(c) ==
    /\ call[c].pc = "idle"
    /\ \E request \in Requests, key \in Key \cup {NoKey} :
           /\ key # NoKey => native
           /\ call' = [call EXCEPT
                  ![c].request = request, ![c].key = key,
                  ![c].pc = IF request.op = "create" /\ ~Resolved(request.parent)
                            THEN "failed" ELSE "calling"]
    /\ UNCHANGED <<native, remote, replies, row, transitions, faults>>

SentKey(c) == KeyOf(call[c].request, call[c].key)
Replayed(c) == call[c].key # NoKey /\ replies[SentKey(c)].res # 0

\* The provider makes or changes the resource, and keeps the answer under the key
Mutates(c, res, state) ==
    /\ IF call[c].request.op = "create"
       THEN /\ Len(remote) < MaxMade
            /\ res = Len(remote) + 1
            /\ remote' = Append(remote, [parent |-> call[c].request.parent, state |-> state])
       ELSE /\ res = call[c].request.res
            /\ remote' = [remote EXCEPT ![res].state = state]
    /\ replies' = IF call[c].key = NoKey THEN replies
                  ELSE [replies EXCEPT ![SentKey(c)] =
                           [request |-> call[c].request, res |-> res, state |-> state]]

Answered(c, res, state) ==
    call' = [call EXCEPT ![c].pc = "persisting", ![c].res = res, ![c].state = state,
                         ![c].mark = Len(transitions[res])]

\* provider.createProduct and its like; a key that was used for another
\* request is refused
CallProvider(c) ==
    /\ call[c].pc = "calling"
    /\ \/ /\ ~Replayed(c)
          /\ \E res \in Made, state \in State : Mutates(c, res, state) /\ Answered(c, res, state)
       \/ /\ Replayed(c)
          /\ LET reply == replies[SentKey(c)]
             IN  IF reply.request = call[c].request
                 THEN Answered(c, reply.res, reply.state)
                 ELSE GoTo(c, "failed")
          /\ UNCHANGED <<remote, replies>>
    /\ UNCHANGED <<native, row, transitions, faults>>

\* The provider refuses, or its answer is lost
CallThrows(c) ==
    /\ call[c].pc = "calling" /\ ~Replayed(c)
    /\ Fault
    /\ \/ UNCHANGED <<remote, replies>>
       \/ \E res \in Made, state \in State : Mutates(c, res, state)
    /\ GoTo(c, "failed")
    /\ UNCHANGED <<native, row, transitions>>

-----------------------------------------------------------------------------
\* Persisting the answer

\* persistProduct, persistPrice: a changed price looks for its product, then
\* the transaction reads the row and is done if it matches
ReadRow(c) ==
    LET request == call[c].request
        current == row[call[c].res]
    IN  /\ call[c].pc = "persisting"
        /\ call' = [call EXCEPT
               ![c].before = current,
               ![c].pc = IF request.op = "change" /\ ~Resolved(request.parent) THEN "failed"
                         ELSE IF current = call[c].state THEN "returned" ELSE "writing"]
        /\ UNCHANGED <<native, remote, replies, row, transitions, faults>>

\* updateIfUnchanged and the unique index: the row is what was read
MutUnchangedIfPresent(c) == (row[call[c].res] = Absent) = (call[c].before = Absent)
Unchanged(c) == row[call[c].res] = call[c].before

\* recordCatalogTransition
Transition(c) == [before |-> call[c].before, after |-> call[c].state]

Writes(c) ==
    /\ Unchanged(c)
    /\ row' = [row EXCEPT ![call[c].res] = call[c].state]
    /\ transitions' = [transitions EXCEPT ![call[c].res] = Append(@, Transition(c))]

\* The rest of the transaction
Commit(c) ==
    /\ call[c].pc = "writing"
    /\ \/ Writes(c) /\ GoTo(c, "returned")
       \/ ~Unchanged(c) /\ GoTo(c, "recovering") /\ UNCHANGED <<row, transitions>>
    /\ UNCHANGED <<native, remote, replies, faults>>

\* A statement throws and all is rolled back, or the commit loses its answer.
\* persistPrice may throw before it knows what it would write.
PersistThrows(c) ==
    /\ \/ call[c].pc = "persisting" /\ GoTo(c, "recovering") /\ UNCHANGED <<row, transitions>>
       \/ /\ call[c].pc = "persisting" /\ call[c].request.op = "change"
          /\ call[c].request.parent # 0
          /\ GoTo(c, "failed") /\ UNCHANGED <<row, transitions>>
       \/ call[c].pc = "writing" /\ GoTo(c, "recovering") /\ UNCHANGED <<row, transitions>>
       \/ call[c].pc = "writing" /\ GoTo(c, "recovering") /\ Writes(c)
    /\ Fault
    /\ UNCHANGED <<native, remote, replies>>

\* isDurable: the row matches what the provider answered
MutDurableIfPresent(c) == row[call[c].res] # Absent
Durable(c) == row[call[c].res] = call[c].state

\* persistWithRecovery: CATALOG_PERSISTENCE_FAILED unless the row matches
Recover(c) ==
    /\ call[c].pc = "recovering"
    /\ \/ Durable(c) /\ GoTo(c, "returned") /\ UNCHANGED faults
       \/ ~Durable(c) /\ GoTo(c, "failed") /\ UNCHANGED faults
       \/ Fault /\ GoTo(c, "failed")
    /\ UNCHANGED <<native, remote, replies, row, transitions>>

\* The process dies; a transaction that has not committed is rolled back
Crash(c) ==
    /\ call[c].pc \in {"calling", "persisting", "writing", "recovering"}
    /\ Fault
    /\ GoTo(c, "failed")
    /\ UNCHANGED <<native, remote, replies, row, transitions>>

Next ==
    \E c \in Call :
        \/ Begin(c) \/ CallProvider(c) \/ CallThrows(c)
        \/ ReadRow(c) \/ Commit(c) \/ PersistThrows(c) \/ Recover(c)
        \/ Crash(c)

Spec == Init /\ [][Next]_vars

-----------------------------------------------------------------------------
\* Properties

\* The row of x after its i-th transition
RowAfter(x, i) == IF i = 0 THEN Absent ELSE transitions[x][i].after

\* Audit entries and outbox events tell the history of a row without a gap:
\* each starts where the one before ended, changes something, and the last is
\* the row (recordCatalogTransition in the transaction of updateIfUnchanged).
TransitionsTellTheRow ==
    \A x \in Made :
        /\ row[x] = RowAfter(x, Len(transitions[x]))
        /\ \A i \in DOMAIN transitions[x] :
               /\ transitions[x][i].before = RowAfter(x, i - 1)
               /\ transitions[x][i].after # transitions[x][i].before

\* A mutation that returned to its caller was in the local row at a moment since
\* the provider answered it, whether this call, another or a lost commit wrote it
\* (persistWithRecovery), and its transition is recorded if it was a change.
ReturnedWasPersisted ==
    \A c \in Call : call[c].pc = "returned" =>
        \E i \in call[c].mark..Len(transitions[call[c].res]) :
            RowAfter(call[c].res, i) = call[c].state

=============================================================================

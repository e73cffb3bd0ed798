---------------------- MODULE CatalogAndSchemaProofs ------------------------
(***************************************************************************)
(* Proofs about CatalogPersistence, for any calls and any number of        *)
(* failures: the audit entries and events of a row tell its history, and   *)
(* what a call returned had been in the row.                               *)
(*                                                                         *)
(* Proofs about SchemaMigrations, for any migrators, rows, calls and       *)
(* deaths: a recorded step stays done, a call under the lock finds nothing *)
(* in its way, and an upgrade loses nothing.  What the twenty-five steps   *)
(* are is used through the laws of SchemaLaws; only the three operations   *)
(* of 008 that drop the columns of customers are looked into.              *)
(***************************************************************************)
EXTENDS CatalogPersistence, SchemaMigrations, SchemaLaws, TLAPS

(***************************************************************************)
(* CatalogPersistence.                                                     *)
(***************************************************************************)

Content == State \cup {Absent}
Resource == 0..MaxMade
RequestShape == [op : {"create", "change"}, res : Resource, parent : Resource]
Pc == {"idle", "calling", "persisting", "writing", "recovering", "returned", "failed"}
CallShape == [pc : Pc, request : RequestShape, key : Key \cup {NoKey}, res : Resource,
              state : Content, before : Content, mark : Nat]
ReplyShape == [request : RequestShape, res : Resource, state : Content]
Entry == [before : Content, after : Content]
RemoteShape == [parent : Resource, state : State]

Shapes ==
    /\ remote \in Seq(RemoteShape) /\ Len(remote) <= MaxMade
    /\ replies \in [ProviderKey -> ReplyShape]
    /\ row \in [Made -> Content]
    /\ transitions \in [Made -> Seq(Entry)]
    /\ call \in [Call -> CallShape]

\* What a call holds once the provider has answered it.
InHand ==
    \A c \in Call :
        /\ call[c].pc \in {"persisting", "writing", "recovering", "returned"} =>
               call[c].res \in Made /\ call[c].mark <= Len(transitions[call[c].res])
        /\ call[c].pc = "writing" => call[c].before # call[c].state

PersistInv ==
    /\ Shapes
    /\ InHand
    /\ TransitionsTellTheRow
    /\ ReturnedWasPersisted

\* What ReturnedWasPersisted says of one call.
Witnessed(c) ==
    \E i \in call[c].mark..Len(transitions[call[c].res]) :
        RowAfter(call[c].res, i) = call[c].state

-----------------------------------------------------------------------------

LEMMA PersistInvInit == Init => PersistInv
<1> SUFFICES ASSUME Init PROVE PersistInv
    OBVIOUS
<1> USE PersistenceAssumption
<1>1. CreateProduct \in RequestShape
    BY DEF CreateProduct, RequestShape, Resource
<1>2. Shapes
    BY <1>1 DEF Init, Shapes, NoReply, Resting, ReplyShape, CallShape, Content, Resource,
        Pc, Entry
<1>3. InHand /\ ReturnedWasPersisted
    BY DEF Init, InHand, ReturnedWasPersisted, Resting
<1>4. TransitionsTellTheRow
    BY DEF Init, TransitionsTellTheRow, RowAfter
<1> QED
    BY <1>2, <1>3, <1>4 DEF PersistInv

\* A row that holds the call's state, as one that matches does, is what the call
\* may return on: it is the row after the last transition.
LEMMA MatchIsWitness ==
    ASSUME Shapes, TransitionsTellTheRow, NEW c \in Call,
           call[c].res \in Made, call[c].mark <= Len(transitions[call[c].res]),
           row[call[c].res] = call[c].state
    PROVE  Witnessed(c)
<1> DEFINE x == call[c].res
<1>1. call[c].mark \in Nat /\ Len(transitions[x]) \in Nat
    BY DEF Shapes, CallShape
<1>2. Len(transitions[x]) \in call[c].mark..Len(transitions[x])
    BY <1>1
<1>3. RowAfter(x, Len(transitions[x])) = call[c].state
    BY DEF TransitionsTellTheRow
<1> QED
    BY <1>2, <1>3 DEF Witnessed

\* A step that writes no row keeps what the rows and the other calls have.
LEMMA NothingWritten ==
    ASSUME PersistInv, Shapes', UNCHANGED <<row, transitions>>, NEW c \in Call,
           \A d \in Call \ {c} : call'[d] = call[d],
           call'[c].pc \in {"persisting", "writing", "recovering", "returned"} =>
               /\ call'[c].res \in Made
               /\ call'[c].mark <= Len(transitions[call'[c].res]),
           call'[c].pc = "writing" => call'[c].before # call'[c].state,
           call'[c].pc = "returned" => Witnessed(c)'
    PROVE  PersistInv'
<1>1. TransitionsTellTheRow'
    BY DEF PersistInv, TransitionsTellTheRow, RowAfter
<1>2. InHand'
    BY DEF PersistInv, InHand
<1>3. ReturnedWasPersisted'
    <2> SUFFICES ASSUME NEW d \in Call, call'[d].pc = "returned" PROVE Witnessed(d)'
        BY DEF ReturnedWasPersisted, Witnessed
    <2>1. CASE d = c
        BY <2>1
    <2>2. CASE d # c
        <3>1. call'[d] = call[d] /\ Witnessed(d)
            BY <2>2 DEF PersistInv, ReturnedWasPersisted, Witnessed
        <3> QED
            BY <3>1 DEF Witnessed, RowAfter
    <2> QED
        BY <2>1, <2>2
<1> QED
    BY <1>1, <1>2, <1>3 DEF PersistInv

\* A write adds one transition to one row: the histories stay whole, and the
\* states they went through are still in them.
LEMMA WriteIsTold ==
    ASSUME PersistInv, NEW c \in Call, call[c].pc = "writing", Writes(c)
    PROVE  /\ row' \in [Made -> Content]
           /\ transitions' \in [Made -> Seq(Entry)]
           /\ TransitionsTellTheRow'
           /\ \A x \in Made : Len(transitions[x]) <= Len(transitions'[x])
           /\ \A x \in Made : \A i \in 0..Len(transitions[x]) :
                  RowAfter(x, i)' = RowAfter(x, i)
           /\ row'[call[c].res] = call[c].state
<1>1. PICK x \in Made : x = call[c].res
    BY DEF PersistInv, InHand
<1>2. PICK n \in Nat : n = Len(transitions[x])
    BY <1>1 DEF PersistInv, Shapes
<1>3. /\ call[c].before # call[c].state
      /\ call[c].state \in Content /\ call[c].before \in Content
      /\ row \in [Made -> Content] /\ transitions \in [Made -> Seq(Entry)]
    BY DEF PersistInv, InHand, Shapes, CallShape
<1>4. PICK e \in Entry : /\ e.before = row[x] /\ e.after = call[c].state
                        /\ e.after # e.before
                        /\ row' = [row EXCEPT ![x] = e.after]
                        /\ transitions' = [transitions EXCEPT ![x] = Append(transitions[x], e)]
    <2>1. Transition(c) \in Entry
        BY <1>3 DEF Transition, Entry
    <2> QED
        BY <1>1, <1>3, <2>1 DEF Writes, Unchanged, Transition
<1>5. row' \in [Made -> Content] /\ row'[x] = e.after
    BY <1>3, <1>4
<1>6. /\ transitions'[x] \in Seq(Entry)
      /\ Len(transitions'[x]) = n + 1
      /\ DOMAIN transitions[x] = 1..n /\ DOMAIN transitions'[x] = 1..(n + 1)
      /\ \A i \in 1..n : transitions'[x][i] = transitions[x][i]
      /\ transitions'[x][n + 1] = e
    <2>1. transitions[x] \in Seq(Entry) /\ transitions'[x] = Append(transitions[x], e)
        BY <1>3, <1>4
    <2> QED
        BY <1>2, <2>1
<1>7. transitions' \in [Made -> Seq(Entry)]
    BY <1>3, <1>4, <1>6
<1>8. \A y \in Made : y # x => transitions'[y] = transitions[y] /\ row'[y] = row[y]
    BY <1>3, <1>4
<1>9. \A y \in Made : Len(transitions[y]) <= Len(transitions'[y])
    <2> SUFFICES ASSUME NEW y \in Made PROVE Len(transitions[y]) <= Len(transitions'[y])
        OBVIOUS
    <2>1. Len(transitions[y]) \in Nat
        BY <1>3
    <2> QED
        BY <1>2, <1>6, <1>8, <2>1
<1>10. \A y \in Made : \A i \in 0..Len(transitions[y]) : RowAfter(y, i)' = RowAfter(y, i)
    <2> SUFFICES ASSUME NEW y \in Made, NEW i \in 0..Len(transitions[y])
                 PROVE  RowAfter(y, i)' = RowAfter(y, i)
        OBVIOUS
    <2>1. y = x /\ i # 0 => i \in 1..n
        BY <1>2
    <2> QED
        BY <1>6, <1>8, <2>1 DEF RowAfter
<1>11. TransitionsTellTheRow'
    <2> SUFFICES ASSUME NEW y \in Made
                 PROVE  /\ row'[y] = RowAfter(y, Len(transitions[y]))'
                        /\ \A i \in DOMAIN transitions'[y] :
                               /\ transitions'[y][i].before = RowAfter(y, i - 1)'
                               /\ transitions'[y][i].after # transitions'[y][i].before
        BY DEF TransitionsTellTheRow
    <2>1. /\ row[y] = RowAfter(y, Len(transitions[y]))
          /\ \A i \in DOMAIN transitions[y] :
                 /\ transitions[y][i].before = RowAfter(y, i - 1)
                 /\ transitions[y][i].after # transitions[y][i].before
        BY DEF PersistInv, TransitionsTellTheRow
    <2>2. CASE y # x
        BY <2>1, <2>2, <1>8 DEF RowAfter
    <2>3. CASE y = x
        <3>1. row'[x] = RowAfter(x, Len(transitions[x]))'
            BY <1>2, <1>5, <1>6 DEF RowAfter
        <3>2. ASSUME NEW i \in 1..n
              PROVE  /\ transitions'[x][i].before = RowAfter(x, i - 1)'
                     /\ transitions'[x][i].after # transitions'[x][i].before
            <4>1. i - 1 \in 0..Len(transitions[x])
                BY <1>2
            <4> QED
                BY <1>6, <1>10, <2>1, <2>3, <4>1
        <3>3. /\ transitions'[x][n + 1].before = RowAfter(x, n)'
              /\ transitions'[x][n + 1].after # transitions'[x][n + 1].before
            <4>1. n \in 0..Len(transitions[x])
                BY <1>2
            <4> QED
                BY <1>2, <1>4, <1>6, <1>10, <2>1, <2>3, <4>1
        <3>4. ASSUME NEW i \in DOMAIN transitions'[x]
              PROVE  /\ transitions'[x][i].before = RowAfter(x, i - 1)'
                     /\ transitions'[x][i].after # transitions'[x][i].before
            <4>1. i \in 1..n \/ (i = n + 1 /\ i - 1 = n)
                BY <1>6
            <4> QED
                BY <3>2, <3>3, <4>1
        <3> QED
            BY <2>3, <3>1, <3>4
    <2> QED
        BY <2>2, <2>3
<1> QED
    BY <1>1, <1>4, <1>5, <1>7, <1>9, <1>10, <1>11

LEMMA GoesTo ==
    ASSUME Shapes, NEW c \in Call, NEW p \in Pc, GoTo(c, p)
    PROVE  /\ call' \in [Call -> CallShape]
           /\ \A d \in Call \ {c} : call'[d] = call[d]
           /\ call'[c] = [call[c] EXCEPT !.pc = p]
           /\ call'[c].pc = p /\ call'[c].res = call[c].res /\ call'[c].mark = call[c].mark
           /\ call'[c].state = call[c].state /\ call'[c].before = call[c].before
    BY DEF Shapes, CallShape, GoTo

\* The transaction wrote the row, and the call returns or learns it by asking.
LEMMA WrittenKeeps ==
    ASSUME PersistInv, NEW c \in Call, call[c].pc = "writing", Writes(c),
           UNCHANGED <<remote, replies>>,
           NEW p \in {"returned", "recovering"}, GoTo(c, p)
    PROVE  PersistInv'
<1>1. /\ call' \in [Call -> CallShape]
      /\ \A d \in Call \ {c} : call'[d] = call[d]
      /\ call'[c].pc = p /\ call'[c].res = call[c].res /\ call'[c].mark = call[c].mark
      /\ call'[c].state = call[c].state /\ call'[c].before = call[c].before
    BY GoesTo DEF PersistInv, Pc
<1>2. /\ row' \in [Made -> Content]
      /\ transitions' \in [Made -> Seq(Entry)]
      /\ TransitionsTellTheRow'
      /\ \A x \in Made : Len(transitions[x]) <= Len(transitions'[x])
      /\ \A x \in Made : \A i \in 0..Len(transitions[x]) :
             RowAfter(x, i)' = RowAfter(x, i)
      /\ row'[call[c].res] = call[c].state
    BY WriteIsTold
<1>3. Shapes'
    BY <1>1, <1>2 DEF PersistInv, Shapes
<1>4. \A x \in Made : Len(transitions[x]) \in Nat /\ Len(transitions'[x]) \in Nat
    BY <1>2 DEF PersistInv, Shapes
<1>5. \A d \in Call : call'[d].pc \in {"persisting", "writing", "recovering", "returned"} =>
          call'[d].res \in Made /\ call'[d].mark <= Len(transitions'[call'[d].res])
    <2> SUFFICES ASSUME NEW d \in Call,
                        call'[d].pc \in {"persisting", "writing", "recovering", "returned"}
                 PROVE  call'[d].res \in Made /\ call'[d].mark <= Len(transitions'[call'[d].res])
        OBVIOUS
    <2>1. /\ call'[d].res = call[d].res /\ call'[d].mark = call[d].mark /\ call[d].mark \in Nat
          /\ call[d].res \in Made /\ call[d].mark <= Len(transitions[call[d].res])
        BY <1>1 DEF PersistInv, InHand, Shapes, CallShape
    <2> QED
        BY <1>2, <1>4, <2>1
<1>6. InHand'
    BY <1>1, <1>5 DEF PersistInv, InHand
<1>7. ReturnedWasPersisted'
    <2> SUFFICES ASSUME NEW d \in Call, call'[d].pc = "returned" PROVE Witnessed(d)'
        BY DEF ReturnedWasPersisted, Witnessed
    <2>1. call'[d].res \in Made /\ call'[d].mark <= Len(transitions'[call'[d].res])
        BY <1>5
    <2>2. CASE d = c
        <3>1. row'[call'[d].res] = call'[d].state
            BY <1>1, <1>2, <2>2
        <3>2. call'[d].mark \in Nat /\ Len(transitions'[call'[d].res]) \in Nat
            BY <1>3, <1>4, <2>1 DEF Shapes, CallShape
        <3>3. RowAfter(call[d].res, Len(transitions[call[d].res]))' = call'[d].state
            BY <1>2, <2>1, <3>1 DEF TransitionsTellTheRow
        <3> QED
            BY <3>2, <3>3, <2>1 DEF Witnessed
    <2>3. CASE d # c
        <3>1. call'[d] = call[d] /\ call[d].pc = "returned"
            BY <1>1, <2>3
        <3>2. PICK i \in call[d].mark..Len(transitions[call[d].res]) :
                  RowAfter(call[d].res, i) = call[d].state
            BY <3>1 DEF PersistInv, ReturnedWasPersisted
        <3>3. /\ call[d].mark \in Nat /\ call[d].res \in Made
              /\ Len(transitions[call[d].res]) \in Nat /\ Len(transitions'[call[d].res]) \in Nat
              /\ Len(transitions[call[d].res]) <= Len(transitions'[call[d].res])
            BY <1>2, <1>4, <2>1, <3>1 DEF PersistInv, Shapes, CallShape
        <3>4. /\ i \in 0..Len(transitions[call[d].res])
              /\ i \in call[d].mark..Len(transitions'[call[d].res])
            BY <3>3
        <3>5. RowAfter(call[d].res, i)' = RowAfter(call[d].res, i)
            <4>1. \A x \in Made : i \in 0..Len(transitions[x]) => RowAfter(x, i)' = RowAfter(x, i)
                BY <1>2
            <4> QED
                BY <3>1, <3>3, <3>4, <4>1 DEF RowAfter
        <3> QED
            BY <3>1, <3>2, <3>4, <3>5 DEF Witnessed
    <2> QED
        BY <2>2, <2>3
<1> QED
    BY <1>2, <1>3, <1>6, <1>7 DEF PersistInv

\* A call that stops, or goes on without having written, keeps the invariant.
LEMMA MovesKeep ==
    ASSUME PersistInv, NEW c \in Call, UNCHANGED <<remote, replies, row, transitions>>,
           NEW p \in {"failed", "recovering"}, GoTo(c, p),
           p = "recovering" => call[c].pc \in {"persisting", "writing"}
    PROVE  PersistInv'
<1>1. /\ call' \in [Call -> CallShape]
      /\ \A d \in Call \ {c} : call'[d] = call[d]
      /\ call'[c].pc = p /\ call'[c].res = call[c].res /\ call'[c].mark = call[c].mark
    BY GoesTo DEF PersistInv, Pc
<1>2. Shapes'
    BY <1>1 DEF PersistInv, Shapes
<1>3. p = "recovering" =>
          call'[c].res \in Made /\ call'[c].mark <= Len(transitions[call'[c].res])
    BY <1>1 DEF PersistInv, InHand
<1> QED
    BY <1>1, <1>2, <1>3, NothingWritten

LEMMA ElementsOf ==
    ASSUME NEW S, NEW s \in Seq(S)
    PROVE  s \in [1..Len(s) -> S] /\ Len(s) \in Nat
    OBVIOUS

LEMMA SeqOf ==
    ASSUME NEW S, NEW n \in Nat, NEW s \in [1..n -> S]
    PROVE  s \in Seq(S) /\ Len(s) = n
    OBVIOUS

LEMMA MutatesShapes ==
    ASSUME Shapes, NEW c \in Call, NEW res \in Made, NEW state \in State,
           Mutates(c, res, state)
    PROVE  /\ remote' \in Seq(RemoteShape) /\ Len(remote') <= MaxMade
           /\ replies' \in [ProviderKey -> ReplyShape]
<1> USE PersistenceAssumption
<1>1. call[c] \in CallShape /\ call[c].request \in RequestShape
    BY DEF Shapes, CallShape
<1>2. remote' \in Seq(RemoteShape) /\ Len(remote') <= MaxMade
    <2>1. CASE call[c].request.op = "create"
        <3>1. PICK e \in RemoteShape : remote' = Append(remote, e)
            <4>1. [parent |-> call[c].request.parent, state |-> state] \in RemoteShape
                BY <1>1 DEF RequestShape, RemoteShape
            <4> QED
                BY <2>1, <4>1 DEF Mutates
        <3>2. Len(remote) < MaxMade
            BY <2>1 DEF Mutates
        <3>3. remote \in Seq(RemoteShape) /\ Len(remote) \in Nat
            BY DEF Shapes
        <3>4. remote' \in Seq(RemoteShape) /\ Len(remote') = Len(remote) + 1
            BY <3>1, <3>3
        <3> QED
            BY <3>2, <3>3, <3>4
    <2>2. CASE call[c].request.op # "create"
        <3>1. remote' = [remote EXCEPT ![res] = [remote[res] EXCEPT !.state = state]]
            BY <2>2 DEF Mutates
        <3>2. remote \in [1..Len(remote) -> RemoteShape] /\ Len(remote) \in Nat
            BY ElementsOf DEF Shapes
        <3>3. remote' \in [1..Len(remote) -> RemoteShape]
            <4>1. ASSUME res \in 1..Len(remote)
                  PROVE  [remote[res] EXCEPT !.state = state] \in RemoteShape
                <5>1. remote[res] \in RemoteShape
                    BY <3>2, <4>1
                <5> QED
                    BY <5>1 DEF RemoteShape
            <4> QED
                BY <3>1, <3>2, <4>1
        <3>4. remote' \in Seq(RemoteShape) /\ Len(remote') = Len(remote)
            BY <3>2, <3>3, SeqOf
        <3> QED
            BY <3>4 DEF Shapes
    <2> QED
        BY <2>1, <2>2
<1>3. replies' \in [ProviderKey -> ReplyShape]
    <2>1. [request |-> call[c].request, res |-> res, state |-> state] \in ReplyShape
        BY <1>1 DEF ReplyShape, Content, Resource, Made
    <2> QED
        BY <2>1 DEF Mutates, Shapes
<1> QED
    BY <1>2, <1>3

\* The provider's answer is what the call holds from now on.
LEMMA AnsweredKeeps ==
    ASSUME PersistInv, NEW c \in Call, UNCHANGED <<row, transitions>>,
           remote' \in Seq(RemoteShape), Len(remote') <= MaxMade,
           replies' \in [ProviderKey -> ReplyShape],
           NEW res \in Made, NEW state \in Content, Answered(c, res, state)
    PROVE  PersistInv'
<1>1. /\ call[c] \in CallShape /\ call \in [Call -> CallShape]
      /\ Len(transitions[res]) \in Nat /\ res \in Resource
    BY PersistenceAssumption DEF PersistInv, Shapes, Made, Resource
<1>2. /\ call' \in [Call -> CallShape]
      /\ \A d \in Call \ {c} : call'[d] = call[d]
      /\ call'[c].pc = "persisting" /\ call'[c].res = res
      /\ call'[c].mark = Len(transitions[res])
    <2> DEFINE held == [call[c] EXCEPT !.pc = "persisting", !.res = res, !.state = state,
                                       !.mark = Len(transitions[res])]
    <2>1. call' = [call EXCEPT ![c] = held]
        BY DEF Answered
    <2>2. held \in CallShape /\ held.pc = "persisting" /\ held.res = res
          /\ held.mark = Len(transitions[res])
        BY <1>1 DEF CallShape, Pc
    <2> HIDE DEF held
    <2> QED
        BY <1>1, <2>1, <2>2
<1>3. Shapes'
    BY <1>2 DEF PersistInv, Shapes
<1>4. call'[c].res \in Made /\ call'[c].mark <= Len(transitions[call'[c].res])
    BY <1>1, <1>2
<1> QED
    BY <1>2, <1>3, <1>4, NothingWritten

LEMMA BeginKeeps ==
    ASSUME PersistInv, NEW c \in Call, Begin(c)
    PROVE  PersistInv'
<1> USE PersistenceAssumption
<1>1. PICK request \in Requests, key \in Key \cup {NoKey}, pc \in {"failed", "calling"} :
          call' = [call EXCEPT ![c].request = request, ![c].key = key, ![c].pc = pc]
    BY DEF Begin
<1>2. request \in RequestShape
    <2>1. DOMAIN remote = 1..Len(remote) /\ Len(remote) \in Nat /\ Len(remote) <= MaxMade
        BY DEF PersistInv, Shapes
    <2>2. ASSUME NEW x \in DOMAIN remote
          PROVE  remote[x].parent \in Resource /\ x \in Resource
        <3>1. remote[x] \in RemoteShape
            BY <2>1, ElementsOf DEF PersistInv, Shapes
        <3> QED
            BY <2>1, <3>1 DEF RemoteShape, Resource
    <2>3. 0 \in Resource
        BY DEF Resource
    <2> QED
        BY <2>2, <2>3 DEF Requests, CreateProduct, CreatePrice, Change, RequestShape
<1>3. /\ call' \in [Call -> CallShape]
      /\ \A d \in Call \ {c} : call'[d] = call[d]
      /\ call'[c].pc = pc
    <2> DEFINE held == [call[c] EXCEPT !.request = request, !.key = key, !.pc = pc]
    <2>1. call \in [Call -> CallShape]
        BY DEF PersistInv, Shapes
    <2>2. held \in CallShape /\ held.pc = pc
        BY <1>2, <2>1 DEF CallShape, Pc
    <2>3. call' = [call EXCEPT ![c] = held]
        BY <1>1
    <2> HIDE DEF held
    <2> QED
        BY <2>1, <2>2, <2>3
<1>4. UNCHANGED <<remote, replies, row, transitions>>
    BY DEF Begin
<1>5. Shapes'
    BY <1>3, <1>4 DEF PersistInv, Shapes
<1> QED
    BY <1>3, <1>4, <1>5, NothingWritten

LEMMA CallProviderKeeps ==
    ASSUME PersistInv, NEW c \in Call, CallProvider(c)
    PROVE  PersistInv'
<1>1. UNCHANGED <<row, transitions>>
    BY DEF CallProvider
<1>2. CASE ~Replayed(c)
    <2>1. PICK res \in Made, state \in State : Mutates(c, res, state) /\ Answered(c, res, state)
        BY <1>2 DEF CallProvider
    <2>2. /\ remote' \in Seq(RemoteShape) /\ Len(remote') <= MaxMade
          /\ replies' \in [ProviderKey -> ReplyShape]
        BY <2>1, MutatesShapes DEF PersistInv
    <2>3. state \in Content
        BY DEF Content
    <2> QED
        BY <1>1, <2>1, <2>2, <2>3, AnsweredKeeps
<1>3. CASE Replayed(c)
    <2> DEFINE reply == replies[SentKey(c)]
    <2>1. UNCHANGED <<remote, replies>>
        BY <1>3 DEF CallProvider
    <2>2. SentKey(c) \in ProviderKey
        BY <1>3 DEF PersistInv, Shapes, CallShape, RequestShape, Replayed, SentKey, KeyOf,
            ProviderKey
    <2>3. reply \in ReplyShape /\ reply.res # 0
        BY <1>3, <2>2 DEF PersistInv, Shapes, Replayed
    <2>4. reply.res \in Made /\ reply.state \in Content
        BY <2>3, PersistenceAssumption DEF ReplyShape, Resource, Made
    <2>5. CASE reply.request = call[c].request
        <3>1. Answered(c, reply.res, reply.state)
            BY <1>3, <2>5 DEF CallProvider
        <3>2. /\ remote' \in Seq(RemoteShape) /\ Len(remote') <= MaxMade
              /\ replies' \in [ProviderKey -> ReplyShape]
            BY <2>1 DEF PersistInv, Shapes
        <3> QED
            BY <1>1, <2>4, <3>1, <3>2, AnsweredKeeps
    <2>6. CASE reply.request # call[c].request
        <3>1. GoTo(c, "failed")
            BY <1>3, <2>6 DEF CallProvider
        <3> QED
            BY <1>1, <2>1, <3>1, MovesKeep
    <2> QED
        BY <2>5, <2>6
<1> QED
    BY <1>2, <1>3

LEMMA CallThrowsKeeps ==
    ASSUME PersistInv, NEW c \in Call, CallThrows(c)
    PROVE  PersistInv'
<1>1. UNCHANGED <<row, transitions>> /\ GoTo(c, "failed")
    BY DEF CallThrows
<1>2. CASE UNCHANGED <<remote, replies>>
    BY <1>1, <1>2, MovesKeep
<1>3. CASE \E res \in Made, state \in State : Mutates(c, res, state)
    <2>1. /\ remote' \in Seq(RemoteShape) /\ Len(remote') <= MaxMade
          /\ replies' \in [ProviderKey -> ReplyShape]
        BY <1>3, MutatesShapes DEF PersistInv
    <2>2. /\ call' \in [Call -> CallShape]
          /\ \A d \in Call \ {c} : call'[d] = call[d]
          /\ call'[c].pc = "failed"
        BY <1>1, GoesTo DEF PersistInv, Pc
    <2>3. Shapes'
        BY <1>1, <2>1, <2>2 DEF PersistInv, Shapes
    <2> QED
        BY <1>1, <2>2, <2>3, NothingWritten
<1> QED
    BY <1>2, <1>3 DEF CallThrows

LEMMA ReadRowKeeps ==
    ASSUME PersistInv, NEW c \in Call, ReadRow(c)
    PROVE  PersistInv'
<1> DEFINE current == row[call[c].res]
<1>1. /\ UNCHANGED <<remote, replies, row, transitions>>
      /\ call[c].pc = "persisting" /\ call[c].res \in Made
      /\ call[c].mark <= Len(transitions[call[c].res])
    BY DEF ReadRow, PersistInv, InHand
<1>2. PICK pc \in {"failed", "returned", "writing"} :
          /\ call' = [call EXCEPT ![c].before = current, ![c].pc = pc]
          /\ pc = "returned" => current = call[c].state
          /\ pc = "writing" => current # call[c].state
    BY DEF ReadRow
<1>3. current \in Content
    BY <1>1 DEF PersistInv, Shapes
<1>4. /\ call' \in [Call -> CallShape]
      /\ \A d \in Call \ {c} : call'[d] = call[d]
      /\ call'[c].pc = pc /\ call'[c].res = call[c].res /\ call'[c].mark = call[c].mark
      /\ call'[c].state = call[c].state /\ call'[c].before = current
    <2> DEFINE held == [call[c] EXCEPT !.before = current, !.pc = pc]
    <2>1. call \in [Call -> CallShape]
        BY DEF PersistInv, Shapes
    <2>2. /\ held \in CallShape /\ held.pc = pc /\ held.before = current
          /\ held.res = call[c].res /\ held.mark = call[c].mark /\ held.state = call[c].state
        BY <1>3, <2>1 DEF CallShape, Pc
    <2>3. call' = [call EXCEPT ![c] = held]
        BY <1>2
    <2> HIDE DEF held
    <2> QED
        BY <2>1, <2>2, <2>3
<1>5. Shapes'
    BY <1>1, <1>4 DEF PersistInv, Shapes
<1>6. call'[c].pc = "returned" => Witnessed(c)'
    <2>1. ASSUME pc = "returned" PROVE Witnessed(c)
        BY <1>1, <1>2, <2>1, MatchIsWitness DEF PersistInv
    <2> QED
        BY <1>1, <1>4, <2>1 DEF Witnessed, RowAfter
<1> QED
    BY <1>1, <1>2, <1>4, <1>5, <1>6, NothingWritten

LEMMA CommitKeeps ==
    ASSUME PersistInv, NEW c \in Call, Commit(c)
    PROVE  PersistInv'
<1>1. call[c].pc = "writing" /\ UNCHANGED <<remote, replies>>
    BY DEF Commit
<1>2. CASE Writes(c) /\ GoTo(c, "returned")
    BY <1>1, <1>2, WrittenKeeps
<1>3. CASE GoTo(c, "recovering") /\ UNCHANGED <<row, transitions>>
    BY <1>1, <1>3, MovesKeep
<1> QED
    BY <1>2, <1>3 DEF Commit

LEMMA PersistThrowsKeeps ==
    ASSUME PersistInv, NEW c \in Call, PersistThrows(c)
    PROVE  PersistInv'
<1>1. UNCHANGED <<remote, replies>>
    BY DEF PersistThrows
<1>2. CASE /\ call[c].pc \in {"persisting", "writing"}
           /\ GoTo(c, "recovering") /\ UNCHANGED <<row, transitions>>
    BY <1>1, <1>2, MovesKeep
<1>3. CASE GoTo(c, "failed") /\ UNCHANGED <<row, transitions>>
    BY <1>1, <1>3, MovesKeep
<1>4. CASE call[c].pc = "writing" /\ GoTo(c, "recovering") /\ Writes(c)
    BY <1>1, <1>4, WrittenKeeps
<1> QED
    BY <1>2, <1>3, <1>4 DEF PersistThrows

LEMMA RecoverKeeps ==
    ASSUME PersistInv, NEW c \in Call, Recover(c)
    PROVE  PersistInv'
<1>1. call[c].pc = "recovering" /\ UNCHANGED <<remote, replies, row, transitions>>
    BY DEF Recover
<1>2. CASE GoTo(c, "failed")
    BY <1>1, <1>2, MovesKeep
<1>3. CASE Durable(c) /\ GoTo(c, "returned")
    <2>1. /\ call' \in [Call -> CallShape]
          /\ \A d \in Call \ {c} : call'[d] = call[d]
          /\ call'[c].pc = "returned" /\ call'[c].res = call[c].res
          /\ call'[c].mark = call[c].mark /\ call'[c].state = call[c].state
        BY <1>3, GoesTo DEF PersistInv, Pc
    <2>2. Shapes'
        BY <1>1, <2>1 DEF PersistInv, Shapes
    <2>3. call[c].res \in Made /\ call[c].mark <= Len(transitions[call[c].res])
        BY <1>1 DEF PersistInv, InHand
    <2>4. Witnessed(c)
        BY <1>3, <2>3, MatchIsWitness DEF PersistInv, Durable
    <2>5. Witnessed(c)'
        BY <1>1, <2>1, <2>4 DEF Witnessed, RowAfter
    <2> QED
        BY <1>1, <2>1, <2>2, <2>3, <2>5, NothingWritten
<1> QED
    BY <1>2, <1>3 DEF Recover

LEMMA PersistInvStep == PersistInv /\ [Next]_vars => PersistInv'
<1> SUFFICES ASSUME PersistInv, [Next]_vars PROVE PersistInv'
    OBVIOUS
<1>1. CASE UNCHANGED vars
    BY <1>1 DEF vars, PersistInv, Shapes, InHand, TransitionsTellTheRow,
        ReturnedWasPersisted, RowAfter
<1>2. ASSUME NEW c \in Call, Crash(c)
      PROVE  PersistInv'
    BY <1>2, MovesKeep DEF Crash
<1> QED
    BY <1>1, <1>2, BeginKeeps, CallProviderKeeps, CallThrowsKeeps, ReadRowKeeps,
        CommitKeeps, PersistThrowsKeeps, RecoverKeeps DEF Next

-----------------------------------------------------------------------------

\* The inductive invariant.  Each disturbance of a row is either none, and then
\* what the calls hold still fits the histories, or one transition more.
THEOREM PersistenceInvariant == Spec => []PersistInv
<1> QED
    BY PersistInvInit, PersistInvStep, PTL DEF Spec

\* Audit entries and outbox events tell every row's history without a gap, for
\* any number of overlapping mutations, lost commits and deaths
\* (CatalogPersistenceCoordinator, recordCatalogTransition).
THEOREM TransitionsAreTold == Spec => []TransitionsTellTheRow
<1>1. PersistInv => TransitionsTellTheRow
    BY DEF PersistInv
<1> QED
    BY <1>1, PersistenceInvariant, PTL

\* What a mutation returned to its caller had been in the row since the provider
\* answered it (persistWithRecovery).
THEOREM ReturnedIsPersisted == Spec => []ReturnedWasPersisted
<1>1. PersistInv => ReturnedWasPersisted
    BY DEF PersistInv
<1> QED
    BY <1>1, PersistenceInvariant, PTL

(***************************************************************************)
(* SchemaMigrations.                                                       *)
(***************************************************************************)

-----------------------------------------------------------------------------
(* The steps.                                                               *)

LEMMA OneOfThoseBefore ==
    ASSUME NEW x \in 1..25, NEW y \in 1..25, y < x
    PROVE  y \in 1..(x - 1)
OBVIOUS

LEMMA AllSteps == DOMAIN Steps = 1..25 /\ Len(Steps) = 25
BY StepsAreSequences

LEMMA OfStep ==
    ASSUME NEW s \in DOMAIN Steps
    PROVE  /\ s \in 1..25 /\ Len(Steps[s]) \in Nat /\ Len(Steps[s]) >= 1
           /\ DOMAIN Steps[s] = 1..Len(Steps[s])
<1>1. DOMAIN Steps = 1..25
    BY AllSteps
<1>2. Len(Steps[s]) \in Nat /\ Len(Steps[s]) >= 1 /\ DOMAIN Steps[s] = 1..Len(Steps[s])
    BY StepsAreSequences
<1> QED
    BY <1>1, <1>2

LEMMA OfSteps ==
    ASSUME NEW s \in DOMAIN Steps, NEW i \in DOMAIN Steps[s]
    PROVE  /\ Steps[s][i] \in Operations
           /\ s \in 1..25 /\ i \in 1..Len(Steps[s]) /\ Len(Steps[s]) \in Nat
<1>1. Steps[s][i] \in Operations
    BY DEF Operations
<1> QED
    BY <1>1, OfStep

LEMMA OfStatements ==
    ASSUME NEW op \in Operations
    PROVE  /\ Len(op.statements) \in Nat /\ Len(op.statements) >= 1
           /\ DOMAIN op.statements = 1..Len(op.statements)
           /\ 1 \in DOMAIN op.statements
<1>1. /\ Len(op.statements) \in Nat /\ Len(op.statements) >= 1
      /\ DOMAIN op.statements = 1..Len(op.statements)
    BY StepsAreSequences
<1>2. 1 \in 1..Len(op.statements)
    BY <1>1
<1> QED
    BY <1>1, <1>2

LEMMA OfOperation ==
    ASSUME NEW op \in Operations, NEW j \in DOMAIN op.statements
    PROVE  /\ op.statements[j] \in Statements
           /\ op.statements[j].objects \subseteq Makes(op)
           /\ j \in 1..Len(op.statements) /\ Len(op.statements) \in Nat
           /\ op.statements[j].verb \in Adding => op.statements[j].objects \subseteq Kept
           /\ op.statements[j].verb \in Dropping => op.statements[j].objects \subseteq Gone
           /\ op.statements[j].verb \in Comparing =>
                  /\ op.statements[j].from \in Sources /\ op.statements[j].to \in Targets
<1>1. op.statements[j] \in Statements
    BY DEF Statements
<1>2. op.statements[j].objects \subseteq Makes(op)
    BY DEF Makes
<1>3. j \in 1..Len(op.statements) /\ Len(op.statements) \in Nat
    BY OfStatements
<1>4. op.statements[j].verb \in Adding => op.statements[j].objects \subseteq Kept
    BY <1>1 DEF Kept
<1>5. op.statements[j].verb \in Dropping => op.statements[j].objects \subseteq Gone
    BY <1>1 DEF Gone
<1>6. op.statements[j].verb \in Comparing =>
          op.statements[j].from \in Sources /\ op.statements[j].to \in Targets
    BY <1>1 DEF Sources, Targets
<1> QED
    BY <1>1, <1>2, <1>3, <1>4, <1>5, <1>6

LEMMA OfStatement ==
    ASSUME NEW st \in Statements
    PROVE  \E op \in Operations : \E j \in DOMAIN op.statements : st = op.statements[j]
BY DEF Statements

LEMMA CreatesKeep ==
    ASSUME NEW c \in Creates
    PROVE  /\ c \in Operations /\ IsCreate(c) /\ c.unless # {}
           /\ Makes(c) \subseteq Kept /\ c.unless \subseteq Makes(c)
           /\ 1 \in DOMAIN c.statements /\ c.statements[1].verb = "add"
           /\ c.unless \subseteq c.statements[1].objects
<1>1. c \in Operations /\ IsCreate(c)
    BY DEF Creates
<1>2. 1 \in DOMAIN c.statements
    BY <1>1, OfStatements
<1>3. \A j \in DOMAIN c.statements : c.statements[j].objects \subseteq Kept
    BY <1>1, OperationsAreShaped, OfOperation DEF Adding
<1>4. c.unless # {} /\ c.statements[1].verb = "add" /\ c.unless \subseteq c.statements[1].objects
    BY <1>1, OperationsAreShaped
<1>5. Makes(c) \subseteq Kept
    BY <1>3 DEF Makes
<1>6. c.statements[1].objects \subseteq Makes(c)
    BY <1>1, <1>2, OfOperation
<1> QED
    BY <1>1, <1>2, <1>4, <1>5, <1>6

\* No row is a part that a step makes, drops or asks for
LEMMA PartsAreNoRows ==
    ASSUME NEW object \in Kept \cup Gone \cup Contradictions \cup LegacySchema
    PROVE  object[2] \notin Row
<1>1. CASE object \in Kept \cup Gone
    <2>1. PICK st \in Statements : object \in st.objects
        BY <1>1 DEF Kept, Gone
    <2>2. PICK op \in Operations : \E j \in DOMAIN op.statements : st = op.statements[j]
        BY OfStatement
    <2>3. object \in Makes(op)
        BY <2>1, <2>2, OfOperation
    <2> QED
        BY <2>3, RowsAreNoParts
<1>2. CASE object \in Contradictions \cup LegacySchema
    BY <1>2, RowsAreNoParts
<1> QED
    BY <1>1, <1>2

LEMMA MadeAreNoRows ==
    ASSUME NEW op \in Operations, NEW object \in Makes(op)
    PROVE  object[2] \notin Row
BY RowsAreNoParts

-----------------------------------------------------------------------------
(* What stays in the database, and what does not come back.                *)

\* No step takes back what a statement added, or a row, or adds what one drops, or
\* a row to a table that rows are copied from
Grows ==
    /\ dialect' = dialect /\ earlier' = earlier
    /\ ledger \subseteq ledger' /\ torn \subseteq torn'
    /\ Kept \cap db \subseteq db'
    /\ Gone \cap db' \subseteq db
    /\ \A t \in Sources \cup Targets : \A r \in Row : <<t, r>> \in db => <<t, r>> \in db'
    /\ \A t \in Sources : \A r \in Row : <<t, r>> \in db' => <<t, r>> \in db

\* What db may become
LEMMA DbAdds ==
    ASSUME NEW X \in SUBSET Kept, db' = db \cup X
    PROVE  /\ Kept \cap db \subseteq db' /\ Gone \cap db' \subseteq db
           /\ \A t, r : <<t, r>> \in db => <<t, r>> \in db'
           /\ \A t : \A r \in Row : <<t, r>> \in db' => <<t, r>> \in db
<1>1. \A t : \A r \in Row : <<t, r>> \notin X
    BY PartsAreNoRows
<1> QED
    BY <1>1, NothingIsUndone

LEMMA DbDrops ==
    ASSUME NEW X \in SUBSET (Gone \cup Contradictions), db' = db \ X
    PROVE  /\ Kept \cap db \subseteq db' /\ Gone \cap db' \subseteq db
           /\ \A t : \A r \in Row : <<t, r>> \in db => <<t, r>> \in db'
           /\ \A t, r : <<t, r>> \in db' => <<t, r>> \in db
<1>1. \A t : \A r \in Row : <<t, r>> \notin X
    BY PartsAreNoRows
<1> QED
    BY <1>1, NothingIsUndone

LEMMA DbCopies ==
    ASSUME NEW to \in Targets, NEW batch \in SUBSET Row, db' = db \cup ({to} \X batch)
    PROVE  /\ Kept \cap db \subseteq db' /\ Gone \cap db' \subseteq db
           /\ \A t, r : <<t, r>> \in db => <<t, r>> \in db'
           /\ \A t \in Sources : \A r : <<t, r>> \in db' => <<t, r>> \in db
           /\ \A object \in db' \ db : object[2] \in Row
<1>1. \A object \in {to} \X batch : object[2] \in Row /\ object[1] = to
    OBVIOUS
<1>2. \A object \in Gone : object[2] \notin Row
    BY PartsAreNoRows
<1>3. to \notin Sources
    BY NothingIsUndone
<1>4. \A t \in Sources : \A r : <<t, r>> \notin {to} \X batch
    BY <1>3
<1> QED
    BY <1>1, <1>2, <1>4

-----------------------------------------------------------------------------
(* The inductive invariant.                                                *)

Going == {"step", "guard", "run", "record"}
Place == [pc : {"idle", "waiting"} \cup Going, step : 0..26, op : Nat, statement : Nat,
          error : {"none", "lock", "exists", "absent", "constraint", "rows"}]

\* A place of migrate(): it has looked at a step, at an operation of it, and so on
OpOf(a) == Steps[a.step][a.op]
InPlace(a) ==
    /\ a \in Place
    /\ a.pc \in Going => a.step \in 1..26
    /\ a.pc \in {"guard", "run", "record"} => a.step \in DOMAIN Steps
    /\ a.pc \in {"guard", "run"} => a.op \in DOMAIN Steps[a.step]
    /\ a.pc = "run" => a.statement \in DOMAIN OpOf(a).statements
InPlaces ==
    /\ at \in [Migrator -> Place] /\ \A m \in Migrator : InPlace(at[m])
    /\ earlier \in {{}, 1..3} /\ earlier \subseteq ledger /\ ledger \subseteq DOMAIN Steps

\* What an operation that has run, or has been found needless, leaves true
Done(op) ==
    /\ IsCreate(op) => op.unless \subseteq db
    /\ \A j \in DOMAIN op.statements :
        /\ op.statements[j].verb \in {"add", "merge"} /\ ~IsCreate(op) =>
               op.statements[j].objects \subseteq db
        /\ op.statements[j].verb = "fill" /\ ~Drops(op) => Uncopied(op.statements[j]) = {}
        /\ op.statements[j].verb \in Dropping =>
               /\ op = DropBoth => ~(op.statements[j].objects \subseteq db)
               /\ op # DropBoth => op.statements[j].objects \cap db = {}

\* The steps before a migrator's own are recorded, and its own is not of an earlier
\* release
InTurn(a) ==
    a.pc \in Going =>
        /\ 1..(a.step - 1) \subseteq ledger
        /\ a.pc # "step" => a.step \notin earlier

\* The operations before its own are done, and the statements before its own
Passed(a) ==
    /\ a.pc \in {"guard", "run"} => \A i \in 1..(a.op - 1) : Done(Steps[a.step][i])
    /\ a.pc = "record" => \A i \in DOMAIN Steps[a.step] : Done(Steps[a.step][i])
Within(a) ==
    a.pc = "run" =>
        /\ ~Drops(OpOf(a)) => OpOf(a).when \subseteq db
        /\ \A j \in 1..(a.statement - 1) :
            OpOf(a).statements[j].verb \in Comparing => Uncopied(OpOf(a).statements[j]) = {}
        /\ IsCreate(OpOf(a)) => Fullest(OpOf(a))
        /\ IsCreate(OpOf(a)) /\ a.statement > 1 =>
            /\ OpOf(a).unless \subseteq db
            /\ ~Locks => \A j \in DOMAIN OpOf(a).statements :
                OpOf(a).statements[j].verb = "foreign" => OpOf(a).statements[j].objects \subseteq db

RecordedDone == \A s \in ledger \ earlier : \A i \in DOMAIN Steps[s] : Done(Steps[s][i])

\* A table is there with all that belongs to it, or that is missing, and no part is
\* there without its table
Cover == db \cup Missing
Whole ==
    \A c \in Creates : /\ c.unless \subseteq db => Makes(c) \subseteq Cover
                       /\ Makes(c) \cap db # {} => c.unless \subseteq db

RowsBound ==
    \A r \in Row : <<"customers", r>> \in db =>
        ProviderId \in db \/ <<"customer_bindings", r>> \in db
KeysReplaced == \A pair \in Successors : pair[1] \in db \/ pair[2] \in db
Upgraded ==
    /\ RowsBound
    /\ earlier # {} => LegacySchema \cap Kept \subseteq db /\ KeysReplaced

SchemaInv ==
    /\ InPlaces
    /\ \A m \in Migrator : InTurn(at[m]) /\ Passed(at[m]) /\ Within(at[m])
    /\ RecordedDone /\ Whole /\ Upgraded

-----------------------------------------------------------------------------
(* What grows keeps what holds.                                            *)

LEMMA UncopiedStays ==
    ASSUME Grows, NEW op \in Operations, NEW j \in DOMAIN op.statements,
           op.statements[j].verb \in Comparing, Uncopied(op.statements[j]) = {}
    PROVE  Uncopied(op.statements[j])' = {}
<1>1. op.statements[j].from \in Sources /\ op.statements[j].to \in Targets
    BY OfOperation
<1> DEFINE st == op.statements[j]
<1>2. \A r \in Row : <<st.from, r>> \in db' => <<st.from, r>> \in db
    BY <1>1 DEF Grows
<1>3. \A r \in Row : <<st.to, r>> \in db => <<st.to, r>> \in db'
    BY <1>1 DEF Grows
<1> QED
    BY <1>2, <1>3 DEF Uncopied

LEMMA DoneStays ==
    ASSUME Grows, NEW op \in Operations, Done(op)
    PROVE  Done(op)'
<1>1. ASSUME IsCreate(op)
      PROVE  op.unless \subseteq db'
    <2>1. op.unless \subseteq Kept
        BY <1>1, CreatesKeep DEF Creates
    <2> QED
        BY <1>1, <2>1 DEF Done, Grows
<1>2. ASSUME NEW j \in DOMAIN op.statements, op.statements[j].verb \in {"add", "merge"}, ~IsCreate(op)
      PROVE  op.statements[j].objects \subseteq db'
    <2>1. op.statements[j].objects \subseteq Kept
        BY <1>2, OfOperation DEF Adding
    <2> QED
        BY <1>2, <2>1 DEF Done, Grows
<1>3. ASSUME NEW j \in DOMAIN op.statements, op.statements[j].verb = "fill", ~Drops(op)
      PROVE  Uncopied(op.statements[j])' = {}
    <2>1. Uncopied(op.statements[j]) = {}
        BY <1>3 DEF Done
    <2> QED
        BY <1>3, <2>1, UncopiedStays DEF Comparing
<1>4. ASSUME NEW j \in DOMAIN op.statements, op.statements[j].verb \in Dropping
      PROVE  /\ op = DropBoth => ~(op.statements[j].objects \subseteq db')
             /\ op # DropBoth => op.statements[j].objects \cap db' = {}
    <2>1. op.statements[j].objects \subseteq Gone
        BY <1>4, OfOperation
    <2> QED
        BY <1>4, <2>1 DEF Done, Grows
<1> QED
    BY <1>1, <1>2, <1>3, <1>4 DEF Done

LEMMA PassedStays ==
    ASSUME Grows, NEW a, InPlace(a), Passed(a)
    PROVE  Passed(a)'
<1>1. ASSUME a.pc \in {"guard", "run"}, NEW i \in 1..(a.op - 1)
      PROVE  Done(Steps[a.step][i])'
    <2>1. a.step \in DOMAIN Steps /\ a.op \in 1..Len(Steps[a.step])
        BY <1>1, OfSteps DEF InPlace
    <2>2. i \in DOMAIN Steps[a.step]
        BY <2>1, OfStep
    <2>3. Steps[a.step][i] \in Operations /\ Done(Steps[a.step][i])
        BY <1>1, <2>1, <2>2, OfSteps DEF Passed
    <2> QED
        BY <2>3, DoneStays
<1>2. ASSUME a.pc = "record", NEW i \in DOMAIN Steps[a.step]
      PROVE  Done(Steps[a.step][i])'
    <2>1. Steps[a.step][i] \in Operations /\ Done(Steps[a.step][i])
        BY <1>2, OfSteps DEF InPlace, Passed
    <2> QED
        BY <2>1, DoneStays
<1> QED
    BY <1>1, <1>2 DEF Passed

LEMMA WithinStays ==
    ASSUME Grows, NEW a, InPlace(a), Within(a)
    PROVE  Within(a)'
<1> SUFFICES ASSUME a.pc = "run"
             PROVE  Within(a)'
    BY DEF Within
<1> DEFINE op == OpOf(a)
<1>1. op \in Operations /\ a.statement \in DOMAIN op.statements
      /\ a.step \in DOMAIN Steps /\ a.op \in DOMAIN Steps[a.step]
    BY OfSteps DEF InPlace, OpOf
<1>2. ~Drops(op) => op.when \subseteq db'
    <2>1. ~Drops(op) => op.when \subseteq Kept
        BY <1>1, TablesComeFirst DEF OpOf
    <2> QED
        BY <2>1 DEF Within, Grows
<1>3. ASSUME NEW j \in 1..(a.statement - 1), op.statements[j].verb \in Comparing
      PROVE  Uncopied(op.statements[j])' = {}
    <2>1. j \in DOMAIN op.statements
        BY <1>1, OfStatements
    <2>2. Uncopied(op.statements[j]) = {}
        BY <1>3 DEF Within
    <2> QED
        BY <1>1, <1>3, <2>1, <2>2, UncopiedStays
<1>4. ASSUME IsCreate(op), a.statement > 1
      PROVE  /\ op.unless \subseteq db'
             /\ ~Locks' => \A j \in DOMAIN op.statements :
                    op.statements[j].verb = "foreign" => op.statements[j].objects \subseteq db'
    <2>1. op.unless \subseteq Kept
        BY <1>1, <1>4, CreatesKeep DEF Creates
    <2>2. \A j \in DOMAIN op.statements : op.statements[j].verb = "foreign" =>
              op.statements[j].objects \subseteq Kept
        BY <1>1, OfOperation DEF Adding
    <2>3. Locks' = Locks
        BY DEF Grows, Locks
    <2> QED
        BY <1>4, <2>1, <2>2, <2>3 DEF Within, Grows
<1>5. IsCreate(op) => Fullest(op)
    BY DEF Within
<1> QED
    BY <1>2, <1>3, <1>4, <1>5 DEF Within

LEMMA InTurnStays ==
    ASSUME Grows, NEW a, InTurn(a)
    PROVE  InTurn(a)'
BY DEF Grows, InTurn

-----------------------------------------------------------------------------
(* An operation that a migrator leaves behind is done.                     *)

\* When an operation comes, the tables it looks for are there
LEMMA TablesAreThere ==
    ASSUME SchemaInv, NEW m \in Migrator, at[m].pc \in {"guard", "run"},
           NEW object \in Kept, Before(at[m].step, at[m].op, object)
    PROVE  object \in db
<1> DEFINE s == at[m].step
           i == at[m].op
<1>1. /\ InPlace(at[m]) /\ InTurn(at[m]) /\ Passed(at[m])
      /\ earlier \in {{}, 1..3} /\ RecordedDone /\ Upgraded
    BY DEF SchemaInv, InPlaces
<1>2. /\ s \in DOMAIN Steps /\ i \in DOMAIN Steps[s] /\ 1..(s - 1) \subseteq ledger
      /\ \A i0 \in 1..(i - 1) : Done(Steps[s][i0])
    BY <1>1 DEF InPlace, InTurn, Passed, Going
<1>3. PICK s0 \in 1..s : \E i0 \in DOMAIN Steps[s0] :
          /\ s0 < s \/ (s0 = s /\ i0 < i)
          /\ s0 > 3 \/ object \in LegacySchema
          /\ IsCreate(Steps[s0][i0]) /\ object \in Steps[s0][i0].unless
    BY DEF Before
<1>4. PICK i0 \in DOMAIN Steps[s0] :
          /\ s0 < s \/ (s0 = s /\ i0 < i)
          /\ s0 > 3 \/ object \in LegacySchema
          /\ IsCreate(Steps[s0][i0]) /\ object \in Steps[s0][i0].unless
    BY <1>3
<1>5. s \in 1..25 /\ i \in 1..Len(Steps[s]) /\ Len(Steps[s]) \in Nat
    BY <1>2, OfSteps
<1>6. s0 \in DOMAIN Steps /\ s0 \in 1..25
    <2>1. s0 \in 1..25
        BY <1>5
    <2> QED
        BY <2>1, AllSteps
<1>7. i0 \in 1..Len(Steps[s0]) /\ Len(Steps[s0]) \in Nat
    BY <1>6, OfSteps
<1>8. CASE s0 < s
    <2>0. s0 \in 1..(s - 1)
        BY <1>5, <1>6, <1>8, OneOfThoseBefore
    <2>1. s0 \in ledger
        BY <1>2, <2>0
    <2>2. CASE s0 \notin earlier
        <3>1. Done(Steps[s0][i0])
            BY <1>1, <2>1, <2>2 DEF RecordedDone
        <3> QED
            BY <3>1, <1>4 DEF Done
    <2>3. CASE s0 \in earlier
        <3>1. earlier # {} /\ s0 \in 1..3
            BY <1>1, <2>3
        <3>2. object \in LegacySchema
            BY <1>4, <3>1
        <3> QED
            BY <1>1, <3>1, <3>2 DEF Upgraded
    <2> QED
        BY <2>2, <2>3
<1>9. CASE s0 = s /\ i0 < i
    <2>1. i0 \in 1..(i - 1)
        BY <1>5, <1>7, <1>9
    <2>2. Done(Steps[s0][i0])
        BY <1>2, <1>9, <2>1
    <2> QED
        BY <1>4, <2>2 DEF Done
<1> QED
    BY <1>4, <1>8, <1>9

LEMMA LooksAreThere ==
    ASSUME SchemaInv, NEW m \in Migrator, at[m].pc \in {"guard", "run"}, ~Drops(Op(m))
    PROVE  Op(m).when \subseteq db
<1>1. at[m].step \in DOMAIN Steps /\ at[m].op \in DOMAIN Steps[at[m].step]
    BY DEF SchemaInv, InPlaces, InPlace
<1>2. \A object \in Op(m).when : object \in Kept /\ Before(at[m].step, at[m].op, object)
    BY <1>1, TablesComeFirst DEF Op, Step
<1> QED
    BY <1>2, TablesAreThere

\* The two columns that 008 drops
LEMMA TwoColumns ==
    /\ Provider # ProviderId
    /\ DropBoth.when = {Provider, ProviderId} /\ DropBoth.unless = {}
    /\ DropBoth # DropProviderId /\ DropBoth # DropProvider
    /\ DropProviderId.when = {ProviderId} /\ DropProviderId.unless = {Provider}
    /\ DropProvider.when = {Provider} /\ DropProvider.unless = {ProviderId}
    /\ \A op \in {DropBoth, DropProviderId, DropProvider} :
        /\ Len(op.statements) \in DOMAIN op.statements
        /\ op.statements[Len(op.statements)].verb \in Dropping
        /\ op.statements[Len(op.statements)].objects = op.when
        /\ \A j \in DOMAIN op.statements : op.statements[j].verb \in Dropping \cup Comparing
        /\ \A j \in DOMAIN op.statements : op.statements[j].verb \in Dropping =>
               op.statements[j].objects = op.when
<1>1. Provider # ProviderId
    BY DEF Provider, ProviderId
<1>2. /\ DropBoth.when = {Provider, ProviderId} /\ DropBoth.unless = {}
      /\ DropProviderId.when = {ProviderId} /\ DropProviderId.unless = {Provider}
      /\ DropProvider.when = {Provider} /\ DropProvider.unless = {ProviderId}
    BY DEF DropBoth, DropProviderId, DropProvider, Operation
<1>3. DropBoth # DropProviderId /\ DropBoth # DropProvider
    BY <1>1, <1>2
<1>4. /\ DropBoth.statements = <<Rows("fill", "customers", "customer_bindings"),
                                Rows("verify", "customers", "customer_bindings"),
                                Does("drop", {Provider, ProviderId})>>
      /\ DropProviderId.statements = <<Rows("verify", "customers", "customer_bindings"),
                                      Does("drop", {ProviderId})>>
      /\ DropProvider.statements = <<Does("drop", {Provider})>>
    BY DEF DropBoth, DropProviderId, DropProvider, Operation
<1>5. /\ DropBoth.statements[3] = Does("drop", {Provider, ProviderId})
      /\ DropBoth.statements[2] = Rows("verify", "customers", "customer_bindings")
      /\ DropBoth.statements[1] = Rows("fill", "customers", "customer_bindings")
      /\ DropProviderId.statements[2] = Does("drop", {ProviderId})
      /\ DropProviderId.statements[1] = Rows("verify", "customers", "customer_bindings")
      /\ DropProvider.statements[1] = Does("drop", {Provider})
    BY <1>4
<1>8. /\ DropBoth.statements[3].verb = "drop"
      /\ DropBoth.statements[3].objects = DropBoth.when
      /\ DropProviderId.statements[2].verb = "drop"
      /\ DropProviderId.statements[2].objects = DropProviderId.when
      /\ DropProvider.statements[1].verb = "drop"
      /\ DropProvider.statements[1].objects = DropProvider.when
    BY <1>2, <1>5 DEF Does
<1>9. /\ DropBoth.statements[1].verb = "fill" /\ DropBoth.statements[2].verb = "verify"
      /\ DropProviderId.statements[1].verb = "verify"
    BY <1>5 DEF Rows
<1>7. /\ Len(DropBoth.statements) = 3 /\ DOMAIN DropBoth.statements = {1, 2, 3}
      /\ Len(DropProviderId.statements) = 2 /\ DOMAIN DropProviderId.statements = {1, 2}
      /\ Len(DropProvider.statements) = 1 /\ DOMAIN DropProvider.statements = {1}
    <2>1. \A x, y, z : Len(<<x, y, z>>) = 3 /\ DOMAIN <<x, y, z>> = {1, 2, 3}
        OBVIOUS
    <2>2. \A x, y : Len(<<x, y>>) = 2 /\ DOMAIN <<x, y>> = {1, 2}
        OBVIOUS
    <2>3. \A x : Len(<<x>>) = 1 /\ DOMAIN <<x>> = {1}
        OBVIOUS
    <2> QED
        BY <1>4, <2>1, <2>2, <2>3
<1>6. ASSUME NEW op \in {DropBoth, DropProviderId, DropProvider}
      PROVE  /\ Len(op.statements) \in DOMAIN op.statements
             /\ op.statements[Len(op.statements)].verb \in Dropping
             /\ op.statements[Len(op.statements)].objects = op.when
             /\ \A j \in DOMAIN op.statements : op.statements[j].verb \in Dropping \cup Comparing
             /\ \A j \in DOMAIN op.statements : op.statements[j].verb \in Dropping =>
                    op.statements[j].objects = op.when
    <2>1. CASE op = DropBoth
        <3>1. Len(op.statements) = 3 /\ DOMAIN op.statements = {1, 2, 3}
            BY <1>7, <2>1
        <3>2. op.statements[3].verb = "drop" /\ op.statements[3].objects = op.when
            BY <1>8, <2>1
        <3>3. \A j \in {1, 2, 3} \ {3} : op.statements[j].verb \in Comparing
            BY <1>9, <2>1 DEF Comparing
        <3> QED
            BY <3>1, <3>2, <3>3 DEF Dropping, Comparing
    <2>2. CASE op = DropProviderId
        <3>1. Len(op.statements) = 2 /\ DOMAIN op.statements = {1, 2}
            BY <1>7, <2>2
        <3>2. op.statements[2].verb = "drop" /\ op.statements[2].objects = op.when
            BY <1>8, <2>2
        <3>3. \A j \in {1, 2} \ {2} : op.statements[j].verb \in Comparing
            BY <1>9, <2>2 DEF Comparing
        <3> QED
            BY <3>1, <3>2, <3>3 DEF Dropping, Comparing
    <2>3. CASE op = DropProvider
        <3>1. Len(op.statements) = 1 /\ DOMAIN op.statements = {1}
            BY <1>7, <2>3
        <3>2. op.statements[1].verb = "drop" /\ op.statements[1].objects = op.when
            BY <1>8, <2>3
        <3> QED
            BY <3>1, <3>2 DEF Dropping, Comparing
    <2> QED
        BY <2>1, <2>2, <2>3
<1> QED
    BY <1>1, <1>2, <1>3, <1>6

\* An operation that adds, or looks for nothing, is done when it is needless
LEMMA NeedlessIsDone ==
    ASSUME NEW op \in Operations, Needless(op), ~Drops(op)
    PROVE  Done(op)
<1>1. op.unless # {} /\ op.unless \subseteq db
    BY DEF Needless
<1>2. ASSUME NEW j \in DOMAIN op.statements
      PROVE  /\ op.statements[j].verb \in {"add", "merge"} /\ ~IsCreate(op) =>
                    op.statements[j].objects \subseteq db
             /\ op.statements[j].verb # "fill" /\ op.statements[j].verb \notin Dropping
    <2>1. /\ op.statements[j].verb \in {"merge", "fill"} => op.unless = {}
          /\ op.statements[j].verb = "add" /\ ~IsCreate(op) => op.unless = op.statements[j].objects
        BY OperationsAreShaped
    <2> QED
        BY <1>1, <2>1 DEF Drops
<1> QED
    BY <1>1, <1>2 DEF Done

\* What is tolerant makes something and drops nothing
LEMMA TolerantsAdd ==
    ASSUME NEW op \in Operations, op.tolerant
    PROVE  /\ ~Drops(op)
           /\ \A j \in DOMAIN op.statements : op.statements[j].verb \in {"add", "foreign"}
<1>1. \A j \in DOMAIN op.statements :
          op.statements[j].verb \notin {"add", "foreign"} => ~op.tolerant
    BY OperationsAreShaped
<1> QED
    BY <1>1 DEF Drops, Dropping

LEMMA SkippedIsDone ==
    ASSUME SchemaInv, NEW m \in Migrator, at[m].pc = "guard",
           ~(Op(m).when \subseteq db /\ ~Needless(Op(m)))
    PROVE  Done(Op(m))
<1> DEFINE s == at[m].step
           i == at[m].op
           op == Op(m)
<1>1. /\ s \in DOMAIN Steps /\ i \in DOMAIN Steps[s] /\ op = Steps[s][i]
      /\ \A i0 \in 1..(i - 1) : Done(Steps[s][i0])
    BY DEF SchemaInv, InPlaces, InPlace, Passed, Op, Step
<1>2. op \in Operations
    BY <1>1, OfSteps
<1>3. CASE ~Drops(op)
    <2>1. op.when \subseteq db
        BY <1>3, LooksAreThere
    <2> QED
        BY <1>2, <1>3, <2>1, NeedlessIsDone
<1>4. CASE Drops(op) /\ DropsAlone(op)
    <2>1. PICK x \in op.when : op.when = {x} /\ op.statements[1].objects = {x}
        BY <1>4 DEF DropsAlone
    <2>2. Len(op.statements) = 1 /\ op.unless = {}
        BY <1>4 DEF DropsAlone
    <2>3. DOMAIN op.statements = {1}
        <3>1. DOMAIN op.statements = 1..1
            BY <1>2, <2>2, OfStatements
        <3> QED
            BY <3>1
    <2>4. x \notin db
        BY <2>1, <2>2 DEF Needless
    <2>5. op.statements[1].verb \in Dropping
        BY <1>4, <2>3 DEF Drops
    <2>6. ~op.tolerant
        BY <1>2, <2>3, <2>5, OperationsAreShaped DEF Dropping
    <2> QED
        BY <2>1, <2>3, <2>4, <2>5, <2>6 DEF Done, IsCreate, Dropping
<1>5. CASE Drops(op) /\ ~DropsAlone(op)
    <2>1. s = 8 /\ i \in 7..9
        BY <1>1, <1>5, ColumnsGoLast
    <2>2. Steps[8][7] = DropBoth /\ Steps[8][8] = DropProviderId /\ Steps[8][9] = DropProvider
        BY ColumnsGoLast
    <2>3. op \in {DropBoth, DropProviderId, DropProvider}
        BY <1>1, <2>1, <2>2
    <2>4. /\ ~IsCreate(op)
          /\ \A j \in DOMAIN op.statements :
              /\ op.statements[j].verb \notin {"add", "merge"}
              /\ op.statements[j].verb \in Dropping => op.statements[j].objects = op.when
        <3>1. \A j \in DOMAIN op.statements : op.statements[j].verb \in Dropping \cup Comparing
            BY <2>3, TwoColumns
        <3>2. \A j \in DOMAIN op.statements : op.statements[j].verb \in Dropping =>
                  op.statements[j].objects = op.when
            BY <2>3, TwoColumns
        <3>3. op.when # {}
            BY <2>3, TwoColumns
        <3> QED
            BY <3>1, <3>2, <3>3 DEF Dropping, Comparing, IsCreate
    <2>5. ASSUME /\ op = DropBoth => ~(op.when \subseteq db)
                 /\ op # DropBoth => op.when \cap db = {}
          PROVE  Done(op)
        BY <1>5, <2>4, <2>5 DEF Done
    <2>6. CASE i = 7
        <3>1. op = DropBoth
            BY <1>1, <2>1, <2>2, <2>6
        <3>2. op.unless = {}
            BY <3>1, TwoColumns
        <3> QED
            BY <2>5, <3>1, <3>2 DEF Needless
    <2>7. CASE i = 8
        <3>1. op = DropProviderId
            BY <1>1, <2>1, <2>2, <2>7
        <3>2. 7 \in 1..(i - 1)
            BY <2>7
        <3>3. Done(DropBoth)
            BY <1>1, <2>1, <2>2, <3>2
        <3>4. ~({Provider, ProviderId} \subseteq db)
            <4>1. PICK j \in DOMAIN DropBoth.statements :
                      /\ DropBoth.statements[j].verb \in Dropping
                      /\ DropBoth.statements[j].objects = DropBoth.when
                BY TwoColumns
            <4> QED
                BY <3>3, <4>1, TwoColumns DEF Done
        <3>5. op.when = {ProviderId} /\ op.unless = {Provider} /\ op # DropBoth
            BY <3>1, TwoColumns
        <3> QED
            BY <2>5, <3>4, <3>5 DEF Needless
    <2>8. CASE i = 9
        <3>1. op = DropProvider
            BY <1>1, <2>1, <2>2, <2>8
        <3>2. 8 \in 1..(i - 1)
            BY <2>8
        <3>3. Done(DropProviderId)
            BY <1>1, <2>1, <2>2, <3>2
        <3>4. ProviderId \notin db
            <4>1. PICK j \in DOMAIN DropProviderId.statements :
                      /\ DropProviderId.statements[j].verb \in Dropping
                      /\ DropProviderId.statements[j].objects = DropProviderId.when
                BY TwoColumns
            <4> QED
                BY <3>3, <4>1, TwoColumns DEF Done
        <3>5. op.when = {Provider} /\ op.unless = {ProviderId} /\ op # DropBoth
            BY <3>1, TwoColumns
        <3> QED
            BY <2>5, <3>4, <3>5 DEF Needless
    <2> QED
        BY <2>1, <2>6, <2>7, <2>8
<1> QED
    BY <1>3, <1>4, <1>5

-----------------------------------------------------------------------------
(* The ways a migrator goes.                                               *)

At(pc, step, op, statement) ==
    [pc |-> pc, step |-> step, op |-> op, statement |-> statement, error |-> "none"]

Effect(st) ==
    /\ st.verb \in Adding => st.objects \subseteq db
    /\ st.verb \in Comparing => Uncopied(st) = {}
    /\ st.verb \in Dropping => st.objects \cap db = {}

\* It begins, waits, returns or dies
Rests(m) ==
    /\ UNCHANGED <<db, ledger>> /\ Remaining(m) \subseteq torn'
    /\ at'[m].pc \in {"idle", "waiting"} \/ (at'[m].pc = "step" /\ at'[m].step = 1)
\* It leaves a step that is recorded
GoesOn(m) ==
    /\ at[m].pc \in {"step", "record"} /\ at[m].step \in DOMAIN Steps
    /\ at[m].pc = "step" => at[m].step \in ledger
    /\ ledger' = ledger \cup {at[m].step} /\ UNCHANGED db
    /\ at'[m] = At("step", at[m].step + 1, 0, 0)
Begins(m) ==
    /\ at[m].pc = "step" /\ at[m].step \in DOMAIN Steps \ ledger
    /\ UNCHANGED <<db, ledger>>
    /\ at'[m] = At("guard", at[m].step, 1, 0)
Enters(m) ==
    /\ at[m].pc = "guard" /\ Op(m).when \subseteq db /\ ~Needless(Op(m))
    /\ UNCHANGED <<db, ledger>>
    /\ at'[m] = At("run", at[m].step, at[m].op, 1)
\* It leaves an operation that is done
Completes(m) ==
    /\ at[m].pc \in {"guard", "run"} /\ UNCHANGED ledger
    /\ \E op \in Operations : op = Op(m) /\ Done(op)'
    /\ Remaining(m) \subseteq db' \cup torn'
    /\ at'[m] = IF at[m].op < Len(Step(m)) THEN At("guard", at[m].step, at[m].op + 1, 0)
                                           ELSE At("record", at[m].step, 0, 0)
Continues(m) ==
    /\ at[m].pc = "run" /\ at[m].statement < Len(Op(m).statements) /\ UNCHANGED ledger
    /\ \E st \in Statements : st = Statement(m) /\ Effect(st)'
    /\ at[m].statement = 1 /\ ~Locks => \A j \in DOMAIN Op(m).statements :
           Op(m).statements[j].verb = "foreign" => Op(m).statements[j].objects \subseteq db'
    /\ at'[m] = At("run", at[m].step, at[m].op, at[m].statement + 1)
Stays(m) == at'[m] = at[m] /\ UNCHANGED ledger

Moves(m) ==
    /\ at' \in [Migrator -> Place]
    /\ \A n \in Migrator \ {m} : at'[n] = at[n]
    /\ Rests(m) \/ GoesOn(m) \/ Begins(m) \/ Enters(m) \/ Completes(m) \/ Continues(m) \/ Stays(m)

\* What is new in the database is a row, or what m's statement adds
Brings(m) ==
    \A x \in db' \ db : x[2] \notin Row =>
        /\ at[m].pc = "run" /\ Statement(m).objects \subseteq db'
        /\ at[m].statement < Len(Op(m).statements) => Continues(m)
        /\ \E j \in DOMAIN Op(m).statements :
            /\ Op(m).statements[j].verb \in Adding /\ x \in Op(m).statements[j].objects
            /\ j = at[m].statement \/ Op(m).statements[j].verb = "foreign"

LEMMA Standing ==
    ASSUME SchemaInv, NEW m \in Migrator, NEW pc \in Going, NEW s \in 0..26, NEW i \in Nat,
           NEW j \in Nat, Stands(m, pc, s, i, j)
    PROVE  /\ at' \in [Migrator -> Place] /\ \A n \in Migrator \ {m} : at'[n] = at[n]
           /\ at'[m] = At(pc, s, i, j)
<1>1. at \in [Migrator -> Place]
    BY DEF SchemaInv, InPlaces
<1>2. At(pc, s, i, j) \in Place
    BY DEF At, Place, Going
<1>3. at' = [at EXCEPT ![m] = At(pc, s, i, j)]
    BY DEF Stands, At
<1> QED
    BY <1>1, <1>2, <1>3

LEMMA Leaving ==
    ASSUME SchemaInv, NEW m \in Migrator,
           NEW error \in {"none", "lock", "exists", "absent", "constraint", "rows"},
           Leaves(m, error)
    PROVE  /\ at' \in [Migrator -> Place] /\ \A n \in Migrator \ {m} : at'[n] = at[n]
           /\ at'[m] = Idle(error)
<1>1. at \in [Migrator -> Place]
    BY DEF SchemaInv, InPlaces
<1>2. Idle(error) \in Place
    BY DEF Idle, Place, Going
<1>3. at' = [at EXCEPT ![m] = Idle(error)]
    BY DEF Leaves
<1> QED
    BY <1>1, <1>2, <1>3

LEMMA Placed ==
    ASSUME SchemaInv, NEW m \in Migrator
    PROVE  /\ InPlace(at[m]) /\ InTurn(at[m]) /\ Passed(at[m]) /\ Within(at[m])
           /\ at[m] \in Place /\ at[m].step \in Nat /\ at[m].op \in Nat /\ at[m].statement \in Nat
           /\ at[m].pc \in Going => at[m].step \in 1..26
           /\ at[m].pc \in {"guard", "run", "record"} =>
                  at[m].step \in DOMAIN Steps /\ at[m].step \in 1..25
           /\ at[m].pc \in {"guard", "run"} =>
                  /\ at[m].op \in DOMAIN Step(m) /\ at[m].op \in 1..Len(Step(m))
                  /\ Len(Step(m)) \in Nat /\ Op(m) \in Operations
           /\ at[m].pc = "run" =>
                  /\ at[m].statement \in DOMAIN Op(m).statements /\ Statement(m) \in Statements
                  /\ at[m].statement \in 1..Len(Op(m).statements) /\ Len(Op(m).statements) \in Nat
                  /\ Statement(m).objects \subseteq Makes(Op(m))
<1>1. InPlace(at[m]) /\ InTurn(at[m]) /\ Passed(at[m]) /\ Within(at[m])
    BY DEF SchemaInv, InPlaces
<1>2. /\ at[m] \in Place /\ at[m].step \in Nat /\ at[m].op \in Nat /\ at[m].statement \in Nat
      /\ at[m].pc \in Going => at[m].step \in 1..26
      /\ at[m].pc \in {"guard", "run", "record"} => at[m].step \in DOMAIN Steps
      /\ at[m].pc \in {"guard", "run"} => at[m].op \in DOMAIN Step(m)
      /\ at[m].pc = "run" => at[m].statement \in DOMAIN Op(m).statements
    BY <1>1 DEF InPlace, Place, OpOf, Op, Step
<1>3. at[m].pc \in {"guard", "run", "record"} => at[m].step \in 1..25
    BY <1>2, OfStep
<1>4. ASSUME at[m].pc \in {"guard", "run"}
      PROVE  at[m].op \in 1..Len(Step(m)) /\ Len(Step(m)) \in Nat /\ Op(m) \in Operations
    BY <1>2, <1>4, OfSteps DEF Op, Step
<1>5. ASSUME at[m].pc = "run"
      PROVE  /\ Statement(m) \in Statements
             /\ at[m].statement \in 1..Len(Op(m).statements) /\ Len(Op(m).statements) \in Nat
             /\ Statement(m).objects \subseteq Makes(Op(m))
    BY <1>2, <1>4, <1>5, OfOperation DEF Statement
<1> QED
    BY <1>1, <1>2, <1>3, <1>4, <1>5

LEMMA Running ==
    ASSUME SchemaInv, NEW m \in Migrator, at[m].pc = "run"
    PROVE  /\ Op(m) \in Operations /\ OpOf(at[m]) = Op(m)
           /\ at[m].statement \in DOMAIN Op(m).statements
           /\ Op(m).statements[at[m].statement] = Statement(m)
           /\ at[m].statement \in 1..Len(Op(m).statements) /\ Len(Op(m).statements) \in Nat
           /\ Within(at[m]) /\ InPlace(at[m])
<1>1. OpOf(at[m]) = Op(m) /\ Op(m).statements[at[m].statement] = Statement(m)
    BY DEF OpOf, Op, Step, Statement
<1>2. "run" \in {"guard", "run"}
    OBVIOUS
<1> QED
    BY <1>1, <1>2, Placed

LEMMA NextOpGoes ==
    ASSUME SchemaInv, NEW m \in Migrator, at[m].pc \in {"guard", "run"}, NextOp(m)
    PROVE  /\ at' \in [Migrator -> Place] /\ \A n \in Migrator \ {m} : at'[n] = at[n]
           /\ at'[m] = IF at[m].op < Len(Step(m)) THEN At("guard", at[m].step, at[m].op + 1, 0)
                                                  ELSE At("record", at[m].step, 0, 0)
<1>0. at[m].step \in 1..25 /\ at[m].op \in Nat
    BY Placed
<1>1. at[m].step \in 0..26 /\ at[m].op + 1 \in Nat /\ 0 \in Nat
    BY <1>0
<1> "guard" \in Going /\ "record" \in Going
    BY DEF Going
<1>2. CASE at[m].op < Len(Step(m))
    <2>1. Stands(m, "guard", at[m].step, at[m].op + 1, 0)
        BY <1>2 DEF NextOp
    <2> QED
        BY <1>1, <1>2, <2>1, Standing
<1>3. CASE ~(at[m].op < Len(Step(m)))
    <2>1. Stands(m, "record", at[m].step, 0, 0)
        BY <1>3 DEF NextOp
    <2> QED
        BY <1>1, <1>3, <2>1, Standing
<1> QED
    BY <1>2, <1>3

\* The last statement of an operation leaves it done
LEMMA LastLeavesDone ==
    ASSUME SchemaInv, Grows, NEW m \in Migrator, at[m].pc = "run",
           NEW op \in Operations, op = Op(m), at[m].statement = Len(op.statements),
           NEW st \in Statements, st = Statement(m), Effect(st)'
    PROVE  Done(op)'
<1> DEFINE last == at[m].statement
<1>1. /\ last \in DOMAIN op.statements /\ last \in 1..Len(op.statements)
      /\ Len(op.statements) \in Nat /\ st = op.statements[last] /\ Within(at[m])
      /\ OpOf(at[m]) = op /\ InPlace(at[m])
    BY Running
<1>2. ASSUME IsCreate(op)
      PROVE  op.unless \subseteq db'
    <2>1. op \in Creates
        BY <1>2 DEF Creates
    <2>2. CASE last = 1
        <3>1. op.unless \subseteq st.objects /\ st.verb = "add"
            BY <1>1, <2>1, <2>2, CreatesKeep
        <3> QED
            BY <3>1 DEF Effect, Adding
    <2>3. CASE last > 1
        <3>1. op.unless \subseteq db /\ op.unless \subseteq Kept
            BY <1>1, <1>2, <2>1, <2>3, CreatesKeep DEF Within
        <3> QED
            BY <3>1 DEF Grows
    <2>4. last = 1 \/ last > 1
        <3>1. last \in 1..Len(op.statements) /\ Len(op.statements) \in Nat
            BY <1>1
        <3> HIDE DEF last
        <3> QED
            BY <3>1
    <2> QED
        BY <2>2, <2>3, <2>4
<1>3. ASSUME NEW j \in DOMAIN op.statements
      PROVE  /\ op.statements[j].verb \in {"add", "merge"} /\ ~IsCreate(op) => j = last
             /\ op.statements[j].verb \in Dropping => j = last
    <2>1. j \in 1..Len(op.statements)
        BY OfOperation
    <2>2. /\ op.statements[j].verb \in Adding /\ ~IsCreate(op) => Len(op.statements) = 1
          /\ op.statements[j].verb \in Dropping => j = Len(op.statements)
        BY OperationsAreShaped
    <2> QED
        BY <1>1, <2>1, <2>2 DEF Adding
<1>4. ASSUME NEW j \in DOMAIN op.statements, op.statements[j].verb = "fill"
      PROVE  Uncopied(op.statements[j])' = {}
    <2>1. CASE j = last
        BY <1>1, <1>4, <2>1 DEF Effect, Comparing
    <2>2. CASE j # last
        <3>1. j \in 1..(last - 1)
            BY <1>1, <2>2, OfOperation
        <3>2. Uncopied(op.statements[j]) = {}
            BY <1>1, <1>4, <3>1 DEF Within, Comparing
        <3> QED
            BY <1>4, <3>2, UncopiedStays DEF Comparing
    <2> QED
        BY <2>1, <2>2
<1>5. st.verb \in {"add", "merge"} => st.objects \subseteq db'
    BY DEF Effect, Adding
<1>6. st.verb \in Dropping => st.objects \cap db' = {} /\ st.objects # {}
    <2>1. st.verb \in Dropping => st.objects # {}
        BY <1>1, OperationsAreShaped
    <2> QED
        BY <2>1 DEF Effect
<1>7. ASSUME NEW j \in DOMAIN op.statements
      PROVE  /\ op.statements[j].verb \in {"add", "merge"} /\ ~IsCreate(op) =>
                    op.statements[j].objects \subseteq db'
             /\ op.statements[j].verb \in Dropping =>
                    /\ op.statements[j].objects \cap db' = {}
                    /\ ~(op.statements[j].objects \subseteq db')
    BY <1>1, <1>3, <1>5, <1>6
<1> QED
    BY <1>2, <1>4, <1>7 DEF Done

\* A statement that has its effect takes the migrator on
LEMMA ExecutedMoves ==
    ASSUME SchemaInv, Grows, NEW m \in Migrator, at[m].pc = "run", NextStatement(m),
           UNCHANGED ledger, NEW st \in Statements, st = Statement(m), Effect(st)',
           at[m].statement = 1 /\ ~Locks => \A j \in DOMAIN Op(m).statements :
               Op(m).statements[j].verb = "foreign" => Op(m).statements[j].objects \subseteq db'
    PROVE  /\ Moves(m) /\ (at[m].statement < Len(Op(m).statements) => Continues(m))
<1>1. /\ at[m].statement \in DOMAIN Op(m).statements
      /\ at[m].statement \in 1..Len(Op(m).statements) /\ Len(Op(m).statements) \in Nat
      /\ Op(m) \in Operations /\ at[m].step \in 1..25 /\ at[m].op \in Nat /\ at[m].statement \in Nat
    BY Placed
<1>2. CASE at[m].statement < Len(Op(m).statements)
    <2>1. Stands(m, "run", at[m].step, at[m].op, at[m].statement + 1)
        BY <1>2 DEF NextStatement
    <2>2. at[m].step \in 0..26 /\ at[m].statement + 1 \in Nat
        BY <1>1
    <2>5. "run" \in Going
        BY DEF Going
    <2>3. /\ at' \in [Migrator -> Place] /\ \A n \in Migrator \ {m} : at'[n] = at[n]
          /\ at'[m] = At("run", at[m].step, at[m].op, at[m].statement + 1)
        BY <1>1, <2>1, <2>2, <2>5, Standing
    <2>4. Continues(m)
        BY <1>2, <2>3 DEF Continues
    <2> QED
        BY <2>3, <2>4 DEF Moves
<1>3. CASE ~(at[m].statement < Len(Op(m).statements))
    <2>1. NextOp(m)
        BY <1>3 DEF NextStatement
    <2>2. at[m].statement = Len(Op(m).statements)
        BY <1>1, <1>3
    <2>3. \E op \in Operations : op = Op(m) /\ Done(op)'
        <3>1. PICK op \in Operations : op = Op(m)
            BY <1>1
        <3>2. Done(op)'
            BY <2>2, <3>1, LastLeavesDone
        <3> QED
            BY <3>1, <3>2
    <2>4. Remaining(m) \subseteq db'
        <3>1. CASE IsCreate(Op(m))
            <4>1. st.verb \in Adding
                BY <1>1, <3>1, OperationsAreShaped DEF Statement, Adding
            <4>2. st.objects \subseteq db'
                BY <4>1 DEF Effect
            <4>3. at[m].statement..Len(Op(m).statements) = {at[m].statement}
                BY <1>1, <2>2
            <4> QED
                BY <4>2, <4>3 DEF Remaining, Statement
        <3>2. CASE ~IsCreate(Op(m))
            BY <3>2 DEF Remaining
        <3> QED
            BY <3>1, <3>2
    <2>5. Completes(m)
        BY <2>1, <2>3, <2>4, NextOpGoes DEF Completes
    <2>6. Moves(m)
        BY <2>1, <2>5, NextOpGoes DEF Moves
    <2> QED
        BY <1>3, <2>6
<1> QED
    BY <1>2, <1>3

\* One that fails leaves nothing of a table behind that torn does not have
LEMMA FailedMoves ==
    ASSUME SchemaInv, NEW m \in Migrator, at[m].pc = "run",
           NEW error \in {"exists", "absent", "constraint", "rows"}, Fails(m, error),
           UNCHANGED <<dialect, earlier, ledger>>
    PROVE  Moves(m) /\ UNCHANGED db /\ torn \subseteq torn' /\ Grows
<1>1. UNCHANGED db /\ torn \subseteq torn' /\ Grows
    BY DEF Fails, Grows
<1>2. Op(m) \in Operations /\ Within(at[m]) /\ OpOf(at[m]) = Op(m) /\ InPlace(at[m])
    BY Placed DEF OpOf, Op, Step
<1>3. CASE Op(m).tolerant /\ Needless(Op(m))
    <2>1. NextOp(m) /\ torn' = torn \cup Remaining(m)
        BY <1>3 DEF Fails
    <2>2. PICK op \in Operations : op = Op(m)
        BY <1>2
    <2>3. Done(op)
        BY <1>3, <2>2, TolerantsAdd, NeedlessIsDone
    <2>4. Done(op)'
        BY <1>1, <2>3, DoneStays
    <2>5. Completes(m)
        BY <2>1, <2>2, <2>4, NextOpGoes DEF Completes
    <2> QED
        BY <1>1, <2>1, <2>5, NextOpGoes DEF Moves
<1>4. CASE ~(Op(m).tolerant /\ Needless(Op(m)))
    <2>1. Leaves(m, error)
        BY <1>4 DEF Fails
    <2>2. Remaining(m) = {}
        <3>1. CASE IsCreate(Op(m)) /\ at[m].statement > 1
            <4>1. Op(m).unless \subseteq db
                BY <1>2, <3>1 DEF Within
            <4>2. Op(m).unless # {} /\ Op(m).tolerant
                BY <1>2, <3>1, OperationsAreShaped DEF IsCreate
            <4> QED
                BY <1>4, <4>1, <4>2 DEF Needless
        <3> QED
            BY <3>1 DEF Remaining
    <2>3. /\ at' \in [Migrator -> Place] /\ \A n \in Migrator \ {m} : at'[n] = at[n]
          /\ at'[m] = Idle(error)
        BY <2>1, Leaving
    <2>4. Rests(m)
        BY <1>1, <2>2, <2>3 DEF Rests, Idle
    <2> QED
        BY <1>1, <2>3, <2>4 DEF Moves
<1> QED
    BY <1>3, <1>4

-----------------------------------------------------------------------------
(* The actions, one by one.                                                *)

\* Adds, of Add and Reference: all of X comes, or nothing
LEMMA AddedMoves ==
    ASSUME SchemaInv, NEW m \in Migrator, at[m].pc = "run", Statement(m).verb \in {"add", "foreign"},
           NEW X \in SUBSET Kept, Adds(m, X), UNCHANGED <<dialect, earlier, ledger>>,
           Statement(m).objects \subseteq db \cup X,
           \A x \in X : \E j \in DOMAIN Op(m).statements :
               /\ Op(m).statements[j].verb \in Adding /\ x \in Op(m).statements[j].objects
               /\ j = at[m].statement \/ Op(m).statements[j].verb = "foreign",
           at[m].statement = 1 /\ ~Locks => \A j \in DOMAIN Op(m).statements :
               Op(m).statements[j].verb = "foreign" => Op(m).statements[j].objects \subseteq X
    PROVE  Grows /\ Moves(m) /\ Brings(m)
<1>1. CASE X \cap db # {}
    <2>1. Fails(m, "exists")
        BY <1>1 DEF Adds
    <2>2. Grows /\ Moves(m) /\ UNCHANGED db
        BY <2>1, FailedMoves
    <2> QED
        BY <2>2 DEF Brings
<1>2. CASE X \cap db = {}
    <2>1. db' = db \cup X /\ NextStatement(m) /\ torn' = torn
        BY <1>2 DEF Adds, Executes
    <2>2. Grows
        BY <2>1, DbAdds DEF Grows
    <2>3. Statement(m) \in Statements
        BY Placed
    <2>4. PICK st \in Statements : st = Statement(m)
        BY <2>3
    <2>5. Effect(st)'
        BY <2>1, <2>4 DEF Effect, Adding, Comparing, Dropping
    <2>6. at[m].statement = 1 /\ ~Locks => \A j \in DOMAIN Op(m).statements :
              Op(m).statements[j].verb = "foreign" => Op(m).statements[j].objects \subseteq db'
        BY <2>1
    <2>7. Moves(m) /\ (at[m].statement < Len(Op(m).statements) => Continues(m))
        BY <2>1, <2>2, <2>4, <2>5, <2>6, ExecutedMoves
    <2>8. Brings(m)
        BY <2>1, <2>7 DEF Brings
    <2> QED
        BY <2>2, <2>7, <2>8
<1> QED
    BY <1>1, <1>2

LEMMA AddMoves ==
    ASSUME SchemaInv, NEW m \in Migrator, Add(m)
    PROVE  Grows /\ Moves(m) /\ Brings(m)
<1> DEFINE X == Statement(m).objects \cup Inline(m)
<1>1. at[m].pc = "run" /\ Statement(m).verb = "add" /\ Adds(m, X)
      /\ UNCHANGED <<dialect, earlier, ledger>>
    BY DEF Add, Runs
<1>2. Op(m) \in Operations /\ at[m].statement \in DOMAIN Op(m).statements
    BY <1>1, Placed
<1>3. \A x \in X : \E j \in DOMAIN Op(m).statements :
          /\ Op(m).statements[j].verb \in Adding /\ x \in Op(m).statements[j].objects
          /\ j = at[m].statement \/ Op(m).statements[j].verb = "foreign"
    <2>1. \A x \in Inline(m) : \E j \in DOMAIN Op(m).statements :
              Op(m).statements[j].verb = "foreign" /\ x \in Op(m).statements[j].objects
        BY DEF Inline
    <2> QED
        BY <1>1, <1>2, <2>1 DEF Statement, Adding
<1>4. X \subseteq Kept
    BY <1>2, <1>3, OfOperation
<1>5. at[m].statement = 1 /\ ~Locks => \A j \in DOMAIN Op(m).statements :
          Op(m).statements[j].verb = "foreign" => Op(m).statements[j].objects \subseteq X
    BY DEF Inline
<1> HIDE DEF X
<1>6. Statement(m).objects \subseteq db \cup X
    BY DEF X
<1> QED
    BY <1>1, <1>3, <1>4, <1>5, <1>6, AddedMoves

LEMMA ReferenceMoves ==
    ASSUME SchemaInv, NEW m \in Migrator, Reference(m)
    PROVE  Grows /\ Moves(m) /\ Brings(m)
<1> DEFINE X == IF Locks THEN Statement(m).objects ELSE {}
<1>1. at[m].pc = "run" /\ Statement(m).verb = "foreign" /\ Adds(m, X)
      /\ UNCHANGED <<dialect, earlier, ledger>>
    BY DEF Reference, Runs
<1>2. /\ Op(m) \in Operations /\ at[m].statement \in DOMAIN Op(m).statements
      /\ at[m].statement \in 1..Len(Op(m).statements) /\ Len(Op(m).statements) \in Nat
      /\ Within(at[m]) /\ OpOf(at[m]) = Op(m)
    BY <1>1, Placed DEF OpOf, Op, Step
<1>3. \A x \in X : \E j \in DOMAIN Op(m).statements :
          /\ Op(m).statements[j].verb \in Adding /\ x \in Op(m).statements[j].objects
          /\ j = at[m].statement \/ Op(m).statements[j].verb = "foreign"
    BY <1>1, <1>2 DEF Statement, Adding
<1>4. X \subseteq Kept
    BY <1>2, <1>3, OfOperation
<1>5. IsCreate(Op(m))
    BY <1>1, <1>2, OperationsAreShaped DEF Statement
<1>6. at[m].statement # 1
    BY <1>1, <1>2, <1>5, OperationsAreShaped DEF Statement
<1>7. at[m].statement > 1
    BY <1>2, <1>6
<1>8. ~Locks => Statement(m).objects \subseteq db
    BY <1>1, <1>2, <1>5, <1>7 DEF Within, Statement
<1>9. Statement(m).objects \subseteq db \cup X
    BY <1>8
<1> HIDE DEF X
<1> QED
    BY <1>1, <1>3, <1>4, <1>6, <1>9, AddedMoves

LEMMA UpdateMoves ==
    ASSUME SchemaInv, NEW m \in Migrator, Update(m)
    PROVE  Grows /\ Moves(m) /\ Brings(m)
<1>1. /\ at[m].pc = "run" /\ Statement(m).verb = "merge" /\ db' = db \cup Statement(m).objects
      /\ NextStatement(m) /\ UNCHANGED <<dialect, earlier, ledger, torn>>
    BY DEF Update, Runs, Executes
<1>2. /\ Op(m) \in Operations /\ at[m].statement \in DOMAIN Op(m).statements
      /\ at[m].statement \in 1..Len(Op(m).statements)
    BY <1>1, Placed
<1>3. Statement(m).objects \subseteq Kept
    BY <1>1, <1>2, OfOperation DEF Statement, Adding
<1>4. Grows
    BY <1>1, <1>3, DbAdds DEF Grows
<1>5. PICK st \in Statements : st = Statement(m)
    BY <1>1, Placed
<1>6. Effect(st)'
    BY <1>1, <1>5 DEF Effect, Adding, Comparing, Dropping
<1>7. \A j \in DOMAIN Op(m).statements : Op(m).statements[j].verb # "foreign"
    <2>1. ~IsCreate(Op(m))
        BY <1>1, <1>2, OperationsAreShaped DEF Statement
    <2> QED
        BY <1>2, <2>1, OperationsAreShaped
<1>8. Moves(m) /\ (at[m].statement < Len(Op(m).statements) => Continues(m))
    BY <1>1, <1>4, <1>5, <1>6, <1>7, ExecutedMoves
<1>9. Brings(m)
    BY <1>1, <1>2, <1>8 DEF Brings, Statement, Adding
<1> QED
    BY <1>4, <1>8, <1>9

\* What neither adds nor makes a table goes on without inlined references
LEMMA NoReferences ==
    ASSUME SchemaInv, NEW m \in Migrator, at[m].pc = "run",
           Statement(m).verb \notin {"add", "foreign"}
    PROVE  \A j \in DOMAIN Op(m).statements : Op(m).statements[j].verb # "foreign"
<1>1. Op(m) \in Operations /\ at[m].statement \in DOMAIN Op(m).statements
    BY Placed
<1>2. ~IsCreate(Op(m))
    BY <1>1, OperationsAreShaped DEF Statement
<1> QED
    BY <1>1, <1>2, OperationsAreShaped

LEMMA DropMoves ==
    ASSUME SchemaInv, NEW m \in Migrator, Drop(m)
    PROVE  Grows /\ Moves(m) /\ Brings(m)
<1> DEFINE left == Statement(m).objects \cap db
<1>1. /\ at[m].pc = "run" /\ Statement(m).verb \in Dropping
      /\ UNCHANGED <<dialect, earlier, ledger>>
      /\ \/ Fails(m, "absent")
         \/ Fails(m, "constraint")
         \/ \E gone \in SUBSET left \ {{}} :
                /\ db' = db \ gone
                /\ IF gone = left THEN Executes(m) ELSE UNCHANGED <<at, holder, torn>>
    BY DEF Drop, Runs, Dropping
<1>2. CASE Fails(m, "absent") \/ Fails(m, "constraint")
    <2>1. Grows /\ Moves(m) /\ UNCHANGED db
        BY <1>1, <1>2, FailedMoves
    <2> QED
        BY <2>1 DEF Brings
<1>3. ASSUME NEW gone \in SUBSET left \ {{}}, db' = db \ gone,
             IF gone = left THEN Executes(m) ELSE UNCHANGED <<at, holder, torn>>
      PROVE  Grows /\ Moves(m) /\ Brings(m)
    <2>1. Op(m) \in Operations /\ at[m].statement \in DOMAIN Op(m).statements
          /\ at \in [Migrator -> Place]
        BY <1>1, Placed DEF SchemaInv, InPlaces
    <2>2. Statement(m).objects \subseteq Gone
        BY <1>1, <2>1, OfOperation DEF Statement
    <2>3. UNCHANGED torn
        BY <1>3 DEF Executes
    <2>4. Grows
        BY <1>1, <1>3, <2>2, <2>3, DbDrops DEF Grows
    <2>5. Brings(m)
        BY <1>3 DEF Brings
    <2>6. CASE gone = left
        <3>1. NextStatement(m)
            BY <1>3, <2>6 DEF Executes
        <3>2. PICK st \in Statements : st = Statement(m)
            BY <1>1, Placed
        <3>3. Effect(st)'
            BY <1>1, <1>3, <2>6, <3>2 DEF Effect, Adding, Comparing, Dropping
        <3>4. \A j \in DOMAIN Op(m).statements : Op(m).statements[j].verb # "foreign"
            BY <1>1, NoReferences DEF Dropping
        <3>5. Moves(m)
            BY <1>1, <2>4, <3>1, <3>2, <3>3, <3>4, ExecutedMoves
        <3> QED
            BY <2>4, <2>5, <3>5
    <2>7. CASE gone # left
        <3>1. at' = at
            BY <1>3, <2>7
        <3>2. Moves(m)
            BY <1>1, <2>1, <3>1 DEF Moves, Stays
        <3> QED
            BY <2>4, <2>5, <3>2
    <2> QED
        BY <2>6, <2>7
<1> QED
    BY <1>1, <1>2, <1>3

LEMMA CopyMoves ==
    ASSUME SchemaInv, NEW m \in Migrator, Copy(m)
    PROVE  Grows /\ Moves(m) /\ Brings(m)
<1> DEFINE left == Uncopied(Statement(m))
<1>1. /\ at[m].pc = "run" /\ Statement(m).verb = "fill"
      /\ UNCHANGED <<dialect, earlier, ledger>>
      /\ \/ left = {} /\ UNCHANGED db /\ Executes(m)
         \/ /\ left # {} /\ UNCHANGED <<at, holder, torn>>
            /\ \E batch \in SUBSET left \ {{}} : db' = db \cup ({Statement(m).to} \X batch)
    BY DEF Copy, Runs
<1>2. /\ Op(m) \in Operations /\ at[m].statement \in DOMAIN Op(m).statements
      /\ at \in [Migrator -> Place]
    BY <1>1, Placed DEF SchemaInv, InPlaces
<1>3. CASE left = {} /\ UNCHANGED db /\ Executes(m)
    <2>1. NextStatement(m) /\ UNCHANGED torn
        BY <1>3 DEF Executes
    <2>2. Grows /\ Brings(m)
        BY <1>1, <1>3, <2>1 DEF Grows, Brings
    <2>3. PICK st \in Statements : st = Statement(m)
        BY <1>1, Placed
    <2>4. Uncopied(st)' = {}
        BY <1>3, <2>3 DEF Uncopied
    <2>5. Effect(st)'
        BY <1>1, <2>3, <2>4 DEF Effect, Adding, Comparing, Dropping
    <2>6. \A j \in DOMAIN Op(m).statements : Op(m).statements[j].verb # "foreign"
        BY <1>1, NoReferences
    <2>7. Moves(m)
        BY <1>1, <2>1, <2>2, <2>3, <2>5, <2>6, ExecutedMoves
    <2> QED
        BY <2>2, <2>7
<1>4. CASE /\ left # {} /\ UNCHANGED <<at, holder, torn>>
           /\ \E batch \in SUBSET left \ {{}} : db' = db \cup ({Statement(m).to} \X batch)
    <2>1. PICK batch \in SUBSET left \ {{}} : db' = db \cup ({Statement(m).to} \X batch)
        BY <1>4
    <2>2. batch \in SUBSET Row
        BY <2>1 DEF Uncopied
    <2>3. Statement(m).to \in Targets
        BY <1>1, <1>2, OfOperation DEF Statement, Comparing
    <2>4. Grows /\ \A object \in db' \ db : object[2] \in Row
        BY <1>1, <1>4, <2>1, <2>2, <2>3, DbCopies DEF Grows
    <2>5. Brings(m)
        BY <2>4 DEF Brings
    <2>6. Moves(m)
        BY <1>1, <1>2, <1>4 DEF Moves, Stays
    <2> QED
        BY <2>4, <2>5, <2>6
<1> QED
    BY <1>1, <1>3, <1>4

LEMMA CheckMoves ==
    ASSUME SchemaInv, NEW m \in Migrator, Check(m)
    PROVE  Grows /\ Moves(m) /\ Brings(m)
<1>1. /\ at[m].pc = "run" /\ Statement(m).verb \in {"verify"} \cup Asking
      /\ UNCHANGED <<dialect, earlier, ledger>>
      /\ \/ /\ Executes(m) /\ UNCHANGED db
            /\ Statement(m).verb = "verify" => Uncopied(Statement(m)) = {}
         \/ Fails(m, "rows")
    BY DEF Check, Runs, Asking
<1>2. CASE Fails(m, "rows")
    <2>1. Grows /\ Moves(m) /\ UNCHANGED db
        BY <1>1, <1>2, FailedMoves
    <2> QED
        BY <2>1 DEF Brings
<1>3. CASE /\ Executes(m) /\ UNCHANGED db
           /\ Statement(m).verb = "verify" => Uncopied(Statement(m)) = {}
    <2>1. NextStatement(m) /\ UNCHANGED torn
        BY <1>3 DEF Executes
    <2>2. Grows /\ Brings(m)
        BY <1>1, <1>3, <2>1 DEF Grows, Brings
    <2>3. PICK st \in Statements : st = Statement(m)
        BY <1>1, Placed
    <2>4. st.verb = "verify" => Uncopied(st)' = {}
        BY <1>3, <2>3 DEF Uncopied
    <2>5. Effect(st)'
        BY <1>1, <2>3, <2>4 DEF Effect, Adding, Comparing, Dropping, Asking
    <2>6. \A j \in DOMAIN Op(m).statements : Op(m).statements[j].verb # "foreign"
        BY <1>1, NoReferences DEF Asking
    <2>7. Moves(m)
        BY <1>1, <2>1, <2>2, <2>3, <2>5, <2>6, ExecutedMoves
    <2> QED
        BY <2>2, <2>7
<1> QED
    BY <1>1, <1>2, <1>3

LEMMA MigrateMoves ==
    ASSUME SchemaInv, NEW m \in Migrator, Migrate(m)
    PROVE  Grows /\ Moves(m) /\ Brings(m)
<1>1. /\ at[m].pc = "idle" /\ UNCHANGED <<dialect, earlier, db, ledger, torn>>
      /\ Stands(m, IF Locks THEN "waiting" ELSE "step", 1, 0, 0)
    BY DEF Migrate
<1>2. Grows /\ Brings(m)
    BY <1>1 DEF Grows, Brings
<1>3. at \in [Migrator -> Place]
    BY DEF SchemaInv, InPlaces
<1>4. At("waiting", 1, 0, 0) \in Place /\ At("step", 1, 0, 0) \in Place
    BY DEF At, Place, Going
<1>5. at' = [at EXCEPT ![m] = At(IF Locks THEN "waiting" ELSE "step", 1, 0, 0)]
    BY <1>1 DEF Stands, At
<1>6. /\ at' \in [Migrator -> Place] /\ \A n \in Migrator \ {m} : at'[n] = at[n]
      /\ at'[m] \in {At("waiting", 1, 0, 0), At("step", 1, 0, 0)}
    BY <1>3, <1>4, <1>5
<1>7. Remaining(m) = {}
    BY <1>1 DEF Remaining
<1>8. Rests(m)
    BY <1>1, <1>6, <1>7 DEF Rests, At
<1> QED
    BY <1>2, <1>6, <1>8 DEF Moves

LEMMA AcquireMoves ==
    ASSUME SchemaInv, NEW m \in Migrator, Acquire(m)
    PROVE  Grows /\ Moves(m) /\ Brings(m)
<1>1. /\ at[m].pc = "waiting" /\ UNCHANGED <<dialect, earlier, db, ledger, torn>>
      /\ Stands(m, "step", 1, 0, 0)
    BY DEF Acquire
<1>2. Grows /\ Brings(m)
    BY <1>1 DEF Grows, Brings
<1>3. "step" \in Going /\ 1 \in 0..26 /\ 0 \in Nat
    BY DEF Going
<1>4. /\ at' \in [Migrator -> Place] /\ \A n \in Migrator \ {m} : at'[n] = at[n]
      /\ at'[m] = At("step", 1, 0, 0)
    BY <1>1, <1>3, Standing
<1>5. Remaining(m) = {}
    BY <1>1 DEF Remaining
<1>6. Rests(m)
    BY <1>1, <1>4, <1>5 DEF Rests, At
<1> QED
    BY <1>2, <1>4, <1>6 DEF Moves

\* Whatever leaves and does nothing else
LEMMA LeftMoves ==
    ASSUME SchemaInv, NEW m \in Migrator, NEW error \in {"none", "lock"}, Leaves(m, error),
           UNCHANGED <<dialect, earlier, db, ledger>>,
           torn \subseteq torn', Remaining(m) \subseteq torn'
    PROVE  Grows /\ Moves(m) /\ Brings(m)
<1>1. Grows /\ Brings(m)
    BY DEF Grows, Brings
<1>2. /\ at' \in [Migrator -> Place] /\ \A n \in Migrator \ {m} : at'[n] = at[n]
      /\ at'[m] = Idle(error)
    BY Leaving
<1>3. Rests(m)
    BY <1>2 DEF Rests, Idle
<1> QED
    BY <1>1, <1>2, <1>3 DEF Moves

LEMMA TimeOutMoves ==
    ASSUME SchemaInv, NEW m \in Migrator, TimeOut(m)
    PROVE  Grows /\ Moves(m) /\ Brings(m)
BY LeftMoves DEF TimeOut, Remaining

LEMMA DieMoves ==
    ASSUME SchemaInv, NEW m \in Migrator, Die(m)
    PROVE  Grows /\ Moves(m) /\ Brings(m)
BY LeftMoves DEF Die

LEMMA LookMoves ==
    ASSUME SchemaInv, NEW m \in Migrator, Look(m)
    PROVE  Grows /\ Moves(m) /\ Brings(m)
<1>1. at[m].pc = "step" /\ UNCHANGED <<dialect, earlier, db, ledger, torn>>
    BY DEF Look
<1>2. Grows /\ Brings(m)
    BY <1>1 DEF Grows, Brings
<1>3. at[m].step \in 1..26
    BY <1>1, Placed DEF Going
<1>4. Len(Steps) = 25 /\ DOMAIN Steps = 1..25
    BY AllSteps
<1>5. CASE at[m].step > Len(Steps)
    <2>0. at[m].step \notin ledger
        <3>1. ledger \subseteq DOMAIN Steps
            BY DEF SchemaInv, InPlaces
        <3>2. ledger \subseteq 1..25
            BY <1>4, <3>1
        <3>3. at[m].step > 25
            BY <1>4, <1>5
        <3> QED
            BY <1>3, <3>2, <3>3
    <2>1. Leaves(m, "none")
        BY <1>5, <2>0 DEF Look
    <2>2. Remaining(m) = {}
        BY <1>1 DEF Remaining
    <2> QED
        BY <1>1, <2>1, <2>2, LeftMoves
<1>6. CASE ~(at[m].step > Len(Steps)) /\ at[m].step \in ledger
    <2>1. at[m].step \in DOMAIN Steps /\ at[m].step + 1 \in 0..26
        BY <1>3, <1>4, <1>6
    <2>2. Stands(m, "step", at[m].step + 1, 0, 0)
        BY <1>6 DEF Look
    <2>3. "step" \in Going /\ 0 \in Nat
        BY DEF Going
    <2>4. /\ at' \in [Migrator -> Place] /\ \A n \in Migrator \ {m} : at'[n] = at[n]
          /\ at'[m] = At("step", at[m].step + 1, 0, 0)
        BY <2>1, <2>2, <2>3, Standing
    <2>5. ledger' = ledger \cup {at[m].step}
        BY <1>1, <1>6
    <2>6. GoesOn(m)
        BY <1>1, <1>6, <2>1, <2>4, <2>5 DEF GoesOn
    <2> QED
        BY <1>2, <2>4, <2>6 DEF Moves
<1>7. CASE ~(at[m].step > Len(Steps)) /\ at[m].step \notin ledger
    <2>1. at[m].step \in DOMAIN Steps /\ at[m].step \in 0..26
        BY <1>3, <1>4, <1>7
    <2>2. Stands(m, "guard", at[m].step, 1, 0)
        BY <1>7 DEF Look
    <2>3. "guard" \in Going /\ 0 \in Nat /\ 1 \in Nat
        BY DEF Going
    <2>4. /\ at' \in [Migrator -> Place] /\ \A n \in Migrator \ {m} : at'[n] = at[n]
          /\ at'[m] = At("guard", at[m].step, 1, 0)
        BY <2>1, <2>2, <2>3, Standing
    <2>5. Begins(m)
        BY <1>1, <1>7, <2>1, <2>4 DEF Begins
    <2> QED
        BY <1>2, <2>4, <2>5 DEF Moves
<1> QED
    BY <1>5, <1>6, <1>7

LEMMA GuardMoves ==
    ASSUME SchemaInv, NEW m \in Migrator, Guard(m)
    PROVE  Grows /\ Moves(m) /\ Brings(m)
<1>1. at[m].pc = "guard" /\ UNCHANGED <<dialect, earlier, db, ledger, torn>>
    BY DEF Guard
<1>2. Grows /\ Brings(m)
    BY <1>1 DEF Grows, Brings
<1>3. at[m].step \in 1..25 /\ at[m].op \in Nat /\ Op(m) \in Operations
    BY <1>1, Placed
<1>4. CASE Op(m).when \subseteq db /\ ~Needless(Op(m))
    <2>1. Stands(m, "run", at[m].step, at[m].op, 1)
        BY <1>4 DEF Guard
    <2>2. "run" \in Going /\ 1 \in Nat /\ at[m].step \in 0..26
        BY <1>3 DEF Going
    <2>3. /\ at' \in [Migrator -> Place] /\ \A n \in Migrator \ {m} : at'[n] = at[n]
          /\ at'[m] = At("run", at[m].step, at[m].op, 1)
        BY <1>3, <2>1, <2>2, Standing
    <2>4. Enters(m)
        BY <1>1, <1>4, <2>3 DEF Enters
    <2> QED
        BY <1>2, <2>3, <2>4 DEF Moves
<1>5. CASE ~(Op(m).when \subseteq db /\ ~Needless(Op(m)))
    <2>1. NextOp(m)
        BY <1>5 DEF Guard
    <2>2. PICK op \in Operations : op = Op(m)
        BY <1>3
    <2>3. Done(op)
        BY <1>1, <1>5, <2>2, SkippedIsDone
    <2>4. Done(op)'
        BY <1>2, <2>3, DoneStays
    <2>5. Remaining(m) = {}
        BY <1>1 DEF Remaining
    <2>6. Completes(m)
        BY <1>1, <2>1, <2>2, <2>4, <2>5, NextOpGoes DEF Completes
    <2> QED
        BY <1>1, <1>2, <2>1, <2>6, NextOpGoes DEF Moves
<1> QED
    BY <1>4, <1>5

LEMMA RecordMoves ==
    ASSUME SchemaInv, NEW m \in Migrator, Record(m)
    PROVE  Grows /\ Moves(m) /\ Brings(m)
<1>1. /\ at[m].pc = "record" /\ UNCHANGED <<dialect, earlier, db, torn>>
      /\ ledger' = ledger \cup {at[m].step} /\ Stands(m, "step", at[m].step + 1, 0, 0)
    BY DEF Record
<1>2. Grows /\ Brings(m)
    BY <1>1 DEF Grows, Brings
<1>3. at[m].step \in 1..25 /\ at[m].step \in DOMAIN Steps
    BY <1>1, Placed
<1>4. "step" \in Going /\ 0 \in Nat /\ at[m].step + 1 \in 0..26
    BY <1>3 DEF Going
<1>5. /\ at' \in [Migrator -> Place] /\ \A n \in Migrator \ {m} : at'[n] = at[n]
      /\ at'[m] = At("step", at[m].step + 1, 0, 0)
    BY <1>1, <1>4, Standing
<1>6. GoesOn(m)
    BY <1>1, <1>3, <1>5 DEF GoesOn
<1> QED
    BY <1>2, <1>5, <1>6 DEF Moves

LEMMA RepairMoves ==
    ASSUME SchemaInv, Repair
    PROVE  \E m \in Migrator : Grows /\ Moves(m) /\ Brings(m)
<1>1. PICK m \in Migrator : at[m].error = "rows"
    BY DEF Repair
<1>2. UNCHANGED <<dialect, earlier, ledger, at, torn>> /\ db' = db \ Dirt
    BY DEF Repair
<1>3. Dirt \subseteq Contradictions
    BY SchemaMigrationsAssumption
<1>4. Grows
    BY <1>2, <1>3, DbDrops DEF Grows
<1>5. Brings(m)
    BY <1>2 DEF Brings
<1>6. Moves(m)
    BY <1>2 DEF Moves, Stays, SchemaInv, InPlaces
<1> QED
    BY <1>4, <1>5, <1>6

LEMMA EverythingMoves ==
    ASSUME SchemaInv, SchemaNext
    PROVE  \E m \in Migrator : Grows /\ Moves(m) /\ Brings(m)
<1>1. ASSUME NEW m \in Migrator, Migrate(m) \/ Acquire(m) \/ Works(m) \/ Die(m)
      PROVE  Grows /\ Moves(m) /\ Brings(m)
    <2>1. CASE Migrate(m) \/ Acquire(m) \/ Die(m)
        BY <2>1, MigrateMoves, AcquireMoves, DieMoves
    <2>2. CASE TimeOut(m) \/ Look(m) \/ Guard(m) \/ Record(m)
        BY <2>2, TimeOutMoves, LookMoves, GuardMoves, RecordMoves
    <2>3. CASE Add(m) \/ Reference(m) \/ Update(m) \/ Drop(m) \/ Copy(m) \/ Check(m)
        BY <2>3, AddMoves, ReferenceMoves, UpdateMoves, DropMoves, CopyMoves, CheckMoves
    <2> QED
        BY <1>1, <2>1, <2>2, <2>3 DEF Works
<1> QED
    BY <1>1, RepairMoves DEF SchemaNext

-----------------------------------------------------------------------------
(* The invariant, one part after the other.                                *)

\* The places of all migrators, from the move of one
LEMMA OthersStay ==
    ASSUME SchemaInv, Grows, NEW m \in Migrator, Moves(m), NEW n \in Migrator, at'[n] = at[n]
    PROVE  InPlace(at[n])' /\ InTurn(at[n])' /\ Passed(at[n])' /\ Within(at[n])'
<1>1. PICK a : a = at[n]
    OBVIOUS
<1>2. InPlace(a) /\ InTurn(a) /\ Passed(a) /\ Within(a)
    BY <1>1, Placed
<1>3. InTurn(a)' /\ Passed(a)' /\ Within(a)'
    BY <1>2, InTurnStays, PassedStays, WithinStays
<1> QED
    BY <1>1, <1>2, <1>3

LEMMA RestsHolds ==
    ASSUME SchemaInv, Grows, NEW m \in Migrator, Moves(m), Rests(m)
    PROVE  InPlace(at[m])' /\ InTurn(at[m])' /\ Passed(at[m])' /\ Within(at[m])'
<1>1. PICK b : b = at'[m]
    OBVIOUS
<1>2. b \in Place /\ (b.pc \in {"idle", "waiting"} \/ (b.pc = "step" /\ b.step = 1))
    BY <1>1 DEF Moves, Rests
<1>3. InPlace(b)
    BY <1>2 DEF InPlace, Going
<1>4. 1..(1 - 1) \subseteq ledger'
    OBVIOUS
<1>5. InTurn(b)'
    BY <1>2, <1>4 DEF InTurn, Going
<1>6. Passed(b)' /\ Within(b)'
    BY <1>2 DEF Passed, Within
<1> QED
    BY <1>1, <1>3, <1>5, <1>6

LEMMA GoesOnHolds ==
    ASSUME SchemaInv, Grows, NEW m \in Migrator, Moves(m), GoesOn(m)
    PROVE  InPlace(at[m])' /\ InTurn(at[m])' /\ Passed(at[m])' /\ Within(at[m])'
<1>1. PICK b : b = at'[m]
    OBVIOUS
<1>2. /\ b \in Place /\ b = At("step", at[m].step + 1, 0, 0) /\ at[m].step \in 1..25
      /\ ledger' = ledger \cup {at[m].step} /\ InTurn(at[m]) /\ at[m].pc \in Going
    BY <1>1, Placed, OfStep DEF Moves, GoesOn, Going
<1>3. b.pc = "step" /\ b.step = at[m].step + 1
    BY <1>2 DEF At
<1>4. InPlace(b)
    BY <1>2, <1>3 DEF InPlace, Going
<1>5. 1..(b.step - 1) \subseteq ledger'
    <2>1. 1..(at[m].step - 1) \subseteq ledger
        BY <1>2 DEF InTurn
    <2>2. \A x \in 1..(b.step - 1) : x \in 1..(at[m].step - 1) \/ x = at[m].step
        BY <1>2, <1>3
    <2> QED
        BY <1>2, <2>1, <2>2
<1>6. InTurn(b)'
    BY <1>3, <1>5 DEF InTurn
<1>7. Passed(b)' /\ Within(b)'
    BY <1>3 DEF Passed, Within
<1> QED
    BY <1>1, <1>4, <1>6, <1>7

LEMMA BeginsHolds ==
    ASSUME SchemaInv, Grows, NEW m \in Migrator, Moves(m), Begins(m)
    PROVE  InPlace(at[m])' /\ InTurn(at[m])' /\ Passed(at[m])' /\ Within(at[m])'
<1>1. PICK b : b = at'[m]
    OBVIOUS
<1>2. /\ b \in Place /\ b = At("guard", at[m].step, 1, 0) /\ at[m].step \in DOMAIN Steps
      /\ at[m].step \notin ledger /\ InTurn(at[m]) /\ at[m].pc \in Going
      /\ ledger' = ledger /\ earlier' = earlier /\ earlier \subseteq ledger
    BY <1>1, Placed DEF Moves, Begins, Going, Grows, SchemaInv, InPlaces
<1>3. b.pc = "guard" /\ b.step = at[m].step /\ b.op = 1
    BY <1>2 DEF At
<1>4. InPlace(b)
    <2>1. b.step \in 1..26
        BY <1>2, <1>3, OfStep
    <2>2. 1 \in DOMAIN Steps[b.step]
        <3>1. Len(Steps[b.step]) \in Nat /\ Len(Steps[b.step]) >= 1
              /\ DOMAIN Steps[b.step] = 1..Len(Steps[b.step])
            BY <1>2, <1>3, OfStep
        <3>2. 1 \in 1..Len(Steps[b.step])
            BY <3>1
        <3> QED
            BY <3>1, <3>2
    <2> QED
        BY <1>2, <1>3, <2>1, <2>2 DEF InPlace
<1>5. InTurn(b)'
    BY <1>2, <1>3 DEF InTurn
<1>6. 1..(1 - 1) = {}
    OBVIOUS
<1>7. Passed(b)' /\ Within(b)'
    BY <1>3, <1>6 DEF Passed, Within
<1> QED
    BY <1>1, <1>4, <1>5, <1>7

\* A createIfMissing that runs makes all of its table
LEMMA FullestRuns ==
    ASSUME SchemaInv, NEW m \in Migrator, at[m].pc = "guard", IsCreate(Op(m)), ~Needless(Op(m))
    PROVE  Fullest(Op(m))
<1> DEFINE s == at[m].step
           op == Op(m)
<1>1. /\ s \in DOMAIN Steps /\ at[m].op \in DOMAIN Steps[s] /\ op = Steps[s][at[m].op]
      /\ op \in Operations /\ s \in 1..25 /\ 1..(s - 1) \subseteq ledger
    BY Placed DEF InTurn, Going, Op, Step
<1>2. op \in Creates
    BY <1>1 DEF Creates
<1>3. ~(op.unless \subseteq db)
    BY <1>2, CreatesKeep DEF Needless
<1>4. ASSUME NEW s0 \in 4..(s - 1), NEW i0 \in DOMAIN Steps[s0],
             IsCreate(Steps[s0][i0]), Steps[s0][i0].unless = op.unless
      PROVE  FALSE
    <2>1. s0 \in 1..(s - 1) /\ s0 \notin 1..3
        BY <1>1
    <2>2. s0 \in ledger \ earlier
        BY <1>1, <2>1 DEF SchemaInv, InPlaces
    <2>3. Done(Steps[s0][i0])
        BY <2>2 DEF SchemaInv, RecordedDone
    <2> QED
        BY <1>3, <1>4, <2>3 DEF Done
<1>5. \/ Fullest(Steps[s][at[m].op])
      \/ \E s0 \in 4..(s - 1) : \E i0 \in DOMAIN Steps[s0] :
             IsCreate(Steps[s0][i0]) /\ Steps[s0][i0].unless = Steps[s][at[m].op].unless
    BY <1>1, TablesAreMadeWhole
<1> QED
    BY <1>1, <1>4, <1>5

LEMMA EntersHolds ==
    ASSUME SchemaInv, Grows, NEW m \in Migrator, Moves(m), Enters(m)
    PROVE  InPlace(at[m])' /\ InTurn(at[m])' /\ Passed(at[m])' /\ Within(at[m])'
<1>1. PICK a, b : a = at[m] /\ b = at'[m]
    OBVIOUS
<1>2. /\ b \in Place /\ b = At("run", a.step, a.op, 1) /\ a.pc = "guard"
      /\ InPlace(a) /\ InTurn(a) /\ Passed(a) /\ UNCHANGED <<db, ledger, earlier>>
    BY <1>1, Placed DEF Moves, Enters, Grows
<1>3. b.pc = "run" /\ b.step = a.step /\ b.op = a.op /\ b.statement = 1
    BY <1>2 DEF At
<1>4. OpOf(b) = OpOf(a) /\ OpOf(a) = Op(m) /\ Op(m) \in Operations
    BY <1>1, <1>2, <1>3, Placed DEF OpOf, Op, Step
<1>5. InPlace(b)
    <2>1. 1 \in DOMAIN OpOf(b).statements
        BY <1>4, OfStatements
    <2> QED
        BY <1>2, <1>3, <2>1 DEF InPlace, Going
<1>6. InTurn(a)' /\ Passed(a)'
    BY <1>2, InTurnStays, PassedStays
<1>7. InTurn(b)' /\ Passed(b)'
    BY <1>2, <1>3, <1>6 DEF InTurn, Passed, Going
<1>8. Within(b)'
    <2>1. OpOf(b).when \subseteq db'
        BY <1>2, <1>4 DEF Enters
    <2>2. IsCreate(OpOf(b)) => Fullest(OpOf(b))
        BY <1>4, FullestRuns DEF Enters
    <2>3. 1..(b.statement - 1) = {} /\ ~(b.statement > 1)
        BY <1>3
    <2> QED
        BY <2>1, <2>2, <2>3 DEF Within
<1> QED
    BY <1>1, <1>5, <1>7, <1>8

LEMMA CompletesHolds ==
    ASSUME SchemaInv, Grows, NEW m \in Migrator, Moves(m), Completes(m)
    PROVE  InPlace(at[m])' /\ InTurn(at[m])' /\ Passed(at[m])' /\ Within(at[m])'
<1>1. PICK a, b : a = at[m] /\ b = at'[m]
    OBVIOUS
<1>2. /\ b \in Place /\ a.pc \in {"guard", "run"}
      /\ b = IF a.op < Len(Steps[a.step]) THEN At("guard", a.step, a.op + 1, 0)
                                          ELSE At("record", a.step, 0, 0)
      /\ InPlace(a) /\ InTurn(a) /\ Passed(a)
    BY <1>1, Placed DEF Moves, Completes, Step
<1>3. /\ a.step \in DOMAIN Steps /\ a.step \in 1..25 /\ a.op \in 1..Len(Steps[a.step])
      /\ Len(Steps[a.step]) \in Nat /\ DOMAIN Steps[a.step] = 1..Len(Steps[a.step])
    BY <1>2, OfSteps, OfStep DEF InPlace
<1>4. b.step = a.step /\ b.pc \in {"guard", "record"}
    BY <1>2 DEF At
<1>5. b.pc = "guard" => b.op = a.op + 1 /\ a.op < Len(Steps[a.step])
    BY <1>2 DEF At
<1>6. b.pc = "record" => a.op = Len(Steps[a.step])
    BY <1>2, <1>3 DEF At
<1>7. InPlace(b)
    <2>1. b.pc = "guard" => b.op \in 1..Len(Steps[a.step])
        BY <1>3, <1>5
    <2>2. b.step \in 1..26
        BY <1>3, <1>4
    <2> QED
        BY <1>2, <1>3, <1>4, <2>1, <2>2 DEF InPlace
<1>8. InTurn(b)'
    <2>1. InTurn(a)'
        BY <1>2, InTurnStays
    <2> QED
        BY <1>2, <1>4, <2>1 DEF InTurn, Going
<1>9. \A i \in 1..a.op : Done(Steps[a.step][i])'
    <2>1. Passed(a)'
        BY <1>2, PassedStays
    <2>2. \A i \in 1..(a.op - 1) : Done(Steps[a.step][i])'
        BY <1>2, <2>1 DEF Passed
    <2>3. PICK op \in Operations : op = Op(m) /\ Done(op)'
        BY DEF Completes
    <2>4. op = Steps[a.step][a.op]
        BY <1>1, <2>3 DEF Op, Step
    <2>5. Done(Steps[a.step][a.op])'
        BY <2>3, <2>4
    <2>6. \A i \in 1..a.op : i \in 1..(a.op - 1) \/ i = a.op
        BY <1>3
    <2> QED
        BY <2>2, <2>5, <2>6
<1>10. Passed(b)'
    <2>1. CASE b.pc = "guard"
        <3>1. b.op - 1 = a.op
            BY <1>3, <1>5, <2>1
        <3> QED
            BY <1>4, <1>9, <2>1, <3>1 DEF Passed
    <2>2. CASE b.pc = "record"
        <3>1. DOMAIN Steps[b.step] = 1..a.op
            BY <1>3, <1>4, <1>6, <2>2
        <3> QED
            BY <1>4, <1>9, <2>2, <3>1 DEF Passed
    <2> QED
        BY <1>4, <2>1, <2>2
<1>11. Within(b)'
    BY <1>4 DEF Within
<1> QED
    BY <1>1, <1>7, <1>8, <1>10, <1>11

LEMMA ContinuesHolds ==
    ASSUME SchemaInv, Grows, NEW m \in Migrator, Moves(m), Continues(m)
    PROVE  InPlace(at[m])' /\ InTurn(at[m])' /\ Passed(at[m])' /\ Within(at[m])'
<1>1. PICK a, b : a = at[m] /\ b = at'[m]
    OBVIOUS
<1> DEFINE op == OpOf(a)
<1>2. /\ b \in Place /\ b = At("run", a.step, a.op, a.statement + 1) /\ a.pc = "run"
      /\ InPlace(a) /\ InTurn(a) /\ Passed(a) /\ Within(a) /\ op = Op(m) /\ op \in Operations
      /\ a.statement < Len(op.statements) /\ a.statement \in DOMAIN op.statements
    <2>1. a.pc = "run" /\ a.statement < Len(Op(m).statements)
          /\ b = At("run", a.step, a.op, a.statement + 1)
        BY <1>1 DEF Continues
    <2>2. op = Op(m) /\ op \in Operations /\ a.statement \in DOMAIN op.statements
        BY <1>1, <2>1, Running
    <2>3. b \in Place /\ InPlace(a) /\ InTurn(a) /\ Passed(a) /\ Within(a)
        BY <1>1, Placed DEF Moves
    <2> QED
        BY <2>1, <2>2, <2>3
<1>3. b.pc = "run" /\ b.step = a.step /\ b.op = a.op /\ b.statement = a.statement + 1
    BY <1>2 DEF At
<1>4. OpOf(b) = op
    BY <1>3 DEF OpOf
<1>5. /\ a.statement \in 1..Len(op.statements) /\ Len(op.statements) \in Nat
      /\ DOMAIN op.statements = 1..Len(op.statements)
    BY <1>2, OfStatements
<1>6. InPlace(b)
    <2>1. b.statement \in DOMAIN op.statements
        BY <1>2, <1>3, <1>5
    <2> QED
        BY <1>2, <1>3, <1>4, <2>1 DEF InPlace, Going
<1>7. InTurn(a)' /\ Passed(a)' /\ Within(a)'
    BY <1>2, InTurnStays, PassedStays, WithinStays
<1>8. InTurn(b)' /\ Passed(b)'
    BY <1>2, <1>3, <1>7 DEF InTurn, Passed, Going
<1>9. PICK st \in Statements : st = Statement(m) /\ Effect(st)'
    BY DEF Continues
<1>10. st = op.statements[a.statement]
    BY <1>1, <1>2, <1>9 DEF Statement
<1>11. Within(b)'
    <2>1. ~Drops(op) => op.when \subseteq db'
        BY <1>2, <1>7 DEF Within
    <2>2. IsCreate(op) => Fullest(op)
        BY <1>2 DEF Within
    <2>3. ASSUME NEW j \in 1..(b.statement - 1), op.statements[j].verb \in Comparing
          PROVE  Uncopied(op.statements[j])' = {}
        <3>1. j \in 1..(a.statement - 1) \/ j = a.statement
            BY <1>3, <1>5
        <3>2. CASE j \in 1..(a.statement - 1)
            BY <1>2, <1>7, <2>3, <3>2 DEF Within
        <3>3. CASE j = a.statement
            BY <1>9, <1>10, <2>3, <3>3 DEF Effect
        <3> QED
            BY <3>1, <3>2, <3>3
    <2>4. ASSUME IsCreate(op)
          PROVE  /\ op.unless \subseteq db'
                 /\ ~Locks' => \A j \in DOMAIN op.statements :
                        op.statements[j].verb = "foreign" => op.statements[j].objects \subseteq db'
        <3>1. CASE a.statement > 1
            BY <1>2, <1>7, <2>4, <3>1 DEF Within
        <3>2. CASE a.statement = 1
            <4>1. op.unless \subseteq st.objects /\ st.verb = "add"
                BY <1>2, <1>10, <2>4, <3>2, CreatesKeep DEF Creates
            <4>2. op.unless \subseteq db'
                BY <1>9, <4>1 DEF Effect, Adding
            <4>3. Locks' = Locks
                BY DEF Grows, Locks
            <4>4. ~Locks => \A j \in DOMAIN op.statements :
                      op.statements[j].verb = "foreign" => op.statements[j].objects \subseteq db'
                BY <1>1, <1>2, <3>2 DEF Continues
            <4> QED
                BY <4>2, <4>3, <4>4
        <3>3. a.statement = 1 \/ a.statement > 1
            BY <1>5
        <3> QED
            BY <3>1, <3>2, <3>3
    <2> HIDE DEF op
    <2> QED
        BY <1>4, <2>1, <2>2, <2>3, <2>4 DEF Within
<1> QED
    BY <1>1, <1>6, <1>8, <1>11

LEMMA InPlacesStep ==
    ASSUME SchemaInv, Grows, NEW m \in Migrator, Moves(m)
    PROVE  InPlaces' /\ \A n \in Migrator : InTurn(at[n])' /\ Passed(at[n])' /\ Within(at[n])'
<1>1. InPlace(at[m])' /\ InTurn(at[m])' /\ Passed(at[m])' /\ Within(at[m])'
    <2>1. CASE Rests(m) \/ GoesOn(m) \/ Begins(m) \/ Enters(m) \/ Completes(m) \/ Continues(m)
        BY <2>1, RestsHolds, GoesOnHolds, BeginsHolds, EntersHolds, CompletesHolds, ContinuesHolds
    <2>2. CASE Stays(m)
        BY <2>2, OthersStay DEF Stays
    <2> QED
        BY <2>1, <2>2 DEF Moves
<1>2. ASSUME NEW n \in Migrator
      PROVE  InPlace(at[n])' /\ InTurn(at[n])' /\ Passed(at[n])' /\ Within(at[n])'
    <2>1. CASE n = m
        BY <1>1, <2>1
    <2>2. CASE n # m
        BY <2>2, OthersStay DEF Moves
    <2> QED
        BY <2>1, <2>2
<1>3. ledger' \subseteq DOMAIN Steps
    <2>1. ledger \subseteq DOMAIN Steps
        BY DEF SchemaInv, InPlaces
    <2>2. ledger' = ledger \/ GoesOn(m)
        BY DEF Moves, Rests, Begins, Enters, Completes, Continues, Stays
    <2> QED
        BY <2>1, <2>2 DEF GoesOn
<1>4. earlier' \in {{}, 1..3} /\ earlier' \subseteq ledger'
    BY DEF Grows, SchemaInv, InPlaces
<1>5. at' \in [Migrator -> Place]
    BY DEF Moves
<1> QED
    BY <1>2, <1>3, <1>4, <1>5 DEF InPlaces

LEMMA RecordedDoneStep ==
    ASSUME SchemaInv, Grows, NEW m \in Migrator, Moves(m)
    PROVE  RecordedDone'
<1> SUFFICES ASSUME NEW s \in ledger' \ earlier', NEW i \in DOMAIN Steps[s]
             PROVE  Done(Steps[s][i])'
    BY DEF RecordedDone
<1>1. ledger' \subseteq DOMAIN Steps
    BY InPlacesStep DEF InPlaces
<1>2. Steps[s][i] \in Operations
    BY <1>1, OfSteps
<1>3. CASE s \in ledger
    <2>1. Done(Steps[s][i])
        BY <1>3 DEF SchemaInv, RecordedDone, Grows
    <2> QED
        BY <1>2, <2>1, DoneStays
<1>4. CASE s \notin ledger
    <2>1. GoesOn(m)
        BY <1>4 DEF Moves, Rests, Begins, Enters, Completes, Continues, Stays
    <2>2. at[m].pc = "record" /\ s = at[m].step
        BY <1>4, <2>1 DEF GoesOn
    <2>3. Done(Steps[s][i])
        BY <2>2, Placed DEF Passed
    <2> QED
        BY <1>2, <2>3, DoneStays
<1> QED
    BY <1>3, <1>4

LEMMA RemainingSays ==
    ASSUME NEW n \in Migrator, NEW x
    PROVE  x \in Remaining(n) <=>
               /\ at[n].pc = "run" /\ IsCreate(Op(n)) /\ at[n].statement > 1 /\ x \notin db
               /\ \E i \in at[n].statement..Len(Op(n).statements) : x \in Op(n).statements[i].objects
BY DEF Remaining

\* The same of the next state
LEMMA RemainingSaysNext ==
    ASSUME NEW n \in Migrator, NEW x
    PROVE  x \in Remaining(n)' <=>
               /\ at'[n].pc = "run" /\ IsCreate(Op(n)') /\ at'[n].statement > 1 /\ x \notin db'
               /\ \E i \in at'[n].statement..Len(Op(n)'.statements) : x \in Op(n)'.statements[i].objects
BY DEF Remaining

\* What is missing of a table never grows
LEMMA CoverStays ==
    ASSUME SchemaInv, Grows, NEW m \in Migrator, Moves(m)
    PROVE  Kept \cap Cover \subseteq Cover'
<1> SUFFICES ASSUME NEW x \in Kept \cap Cover, x \notin db'
             PROVE  x \in Missing'
    BY DEF Cover
<1>1. x \notin db
    BY DEF Grows
<1>2. CASE x \in torn
    BY <1>2 DEF Grows, Missing
<1>3. CASE \E n \in Migrator : x \in Remaining(n)
    <2>1. PICK n \in Migrator : x \in Remaining(n)
        BY <1>3
    <2>2. ASSUME at'[n] = at[n]
          PROVE  x \in Remaining(n)'
        <3>1. Op(n)' = Op(n)
            BY <2>2 DEF Op, Step
        <3>2. /\ at[n].pc = "run" /\ IsCreate(Op(n)) /\ at[n].statement > 1
              /\ \E i \in at[n].statement..Len(Op(n).statements) :
                     x \in Op(n).statements[i].objects
            BY <2>1, RemainingSays
        <3> QED
            BY <2>2, <3>1, <3>2, RemainingSaysNext
    <2>3. CASE at'[n] = at[n]
        BY <2>2, <2>3 DEF Missing
    <2>4. CASE at'[n] # at[n]
        <3>1. n = m
            BY <2>4 DEF Moves
        <3>2. at[m].pc = "run" /\ IsCreate(Op(m))
            BY <2>1, <3>1 DEF Remaining
        <3>3. CASE Rests(m) \/ Completes(m)
            BY <2>1, <3>1, <3>3 DEF Rests, Completes, Missing
        <3>4. CASE Continues(m)
            <4>1. /\ at'[m] = At("run", at[m].step, at[m].op, at[m].statement + 1)
                  /\ at[m].statement \in 1..Len(Op(m).statements)
                  /\ Len(Op(m).statements) \in Nat /\ Op(m) \in Operations
                  /\ at[m].statement \in DOMAIN Op(m).statements
                BY <3>2, <3>4, Placed DEF Continues
            <4>2. /\ Op(m)' = Op(m) /\ at'[m].pc = "run" /\ at'[m].statement = at[m].statement + 1
                BY <4>1 DEF At, Op, Step
            <4>3. Statement(m).objects \subseteq db'
                <5>1. PICK st \in Statements : st = Statement(m) /\ Effect(st)'
                    BY <3>4 DEF Continues
                <5>2. st.verb \in Adding
                    BY <3>2, <4>1, <5>1, OperationsAreShaped DEF Statement, Adding
                <5> QED
                    BY <5>1, <5>2 DEF Effect
            <4>4. PICK i \in at[m].statement..Len(Op(m).statements) : x \in Op(m).statements[i].objects
                BY <2>1, <3>1 DEF Remaining
            <4>5. i # at[m].statement
                BY <4>3, <4>4 DEF Statement
            <4>6. i \in (at[m].statement + 1)..Len(Op(m).statements) /\ at[m].statement + 1 > 1
                BY <4>1, <4>4, <4>5
            <4>7. x \in Remaining(m)'
                BY <3>2, <4>2, <4>4, <4>6, RemainingSaysNext
            <4> QED
                BY <4>7 DEF Missing
        <3>5. ~(GoesOn(m) \/ Begins(m) \/ Enters(m) \/ Stays(m))
            BY <2>4, <3>1, <3>2 DEF GoesOn, Begins, Enters, Stays
        <3> QED
            BY <3>3, <3>4, <3>5 DEF Moves
    <2> QED
        BY <2>3, <2>4
<1> QED
    BY <1>1, <1>2, <1>3 DEF Cover, Missing

\* Who makes a part that was not there, and at which of its statements
LEMMA Makers ==
    ASSUME SchemaInv, NEW m \in Migrator, Brings(m), NEW op \in Operations,
           NEW x \in Makes(op), x \in db' \ db
    PROVE  /\ at[m].pc = "run" /\ Op(m) \in Operations
           /\ Statement(m).objects \subseteq db'
           /\ at[m].statement < Len(Op(m).statements) => Continues(m)
           /\ \E j \in DOMAIN Op(m).statements :
               /\ Op(m).statements[j].verb \in Adding /\ x \in Op(m).statements[j].objects
               /\ j = at[m].statement \/ Op(m).statements[j].verb = "foreign"
<1>1. x[2] \notin Row
    BY MadeAreNoRows
<1>2. at[m].pc = "run"
    BY <1>1 DEF Brings
<1>3. Op(m) \in Operations
    BY <1>2, Placed
<1> QED
    BY <1>1, <1>2, <1>3 DEF Brings

LEMMA OneOrMore ==
    ASSUME NEW n \in Nat, NEW k \in 1..n, k # 1
    PROVE  1 < n /\ k \in 2..n /\ k \in (1 + 1)..n
OBVIOUS

LEMMA WholeStep ==
    ASSUME SchemaInv, Grows, NEW m \in Migrator, Moves(m), Brings(m)
    PROVE  Whole'
<1> SUFFICES ASSUME NEW c \in Creates
             PROVE  /\ c.unless \subseteq db' => Makes(c) \subseteq Cover'
                    /\ Makes(c) \cap db' # {} => c.unless \subseteq db'
    BY DEF Whole
<1>1. /\ c \in Operations /\ c.unless \subseteq Kept /\ Makes(c) \subseteq Kept
      /\ c.unless \subseteq Makes(c)
    BY CreatesKeep
<1>2. /\ c.unless \subseteq db => Makes(c) \subseteq Cover
      /\ Makes(c) \cap db # {} => c.unless \subseteq db
    BY DEF SchemaInv, Whole
<1>3. ASSUME c.unless \subseteq db', ~(c.unless \subseteq db)
      PROVE  Makes(c) \subseteq Cover'
    <2>1. PICK x \in c.unless : x \in db' \ db
        BY <1>3
    <2>2. PICK op \in Operations : op = Op(m)
        BY <1>1, <2>1, Makers
    <2>3. PICK j \in DOMAIN op.statements :
              /\ op.statements[j].verb \in Adding /\ x \in op.statements[j].objects
              /\ j = at[m].statement \/ op.statements[j].verb = "foreign"
        BY <1>1, <2>1, <2>2, Makers
    <2>4. IsCreate(op) /\ j = 1 /\ c.unless = op.unless
        BY <2>1, <2>3, TablesAreMadeWhole
    <2>5. op.statements[1].verb = "add"
        BY <2>4, OperationsAreShaped
    <2>6. at[m].statement = 1 /\ at[m].pc = "run"
        BY <1>1, <2>1, <2>3, <2>4, <2>5, Makers
    <2>7. Fullest(op)
        BY <2>2, <2>4, <2>6, Running DEF Within
    <2>8. Makes(c) \subseteq Makes(op)
        BY <2>4, <2>7 DEF Fullest
    <2>9. ASSUME NEW k \in DOMAIN op.statements
          PROVE  op.statements[k].objects \subseteq Cover'
        <3>1. k \in 1..Len(op.statements) /\ Len(op.statements) \in Nat
            BY OfStatements
        <3>2. CASE k = 1
            BY <1>1, <2>1, <2>2, <2>6, <3>2, Makers DEF Statement, Cover
        <3>3. CASE k # 1
            <4>1. 1 < Len(op.statements) /\ k \in 2..Len(op.statements)
                BY <3>1, <3>3, OneOrMore
            <4>2. Continues(m)
                BY <1>1, <2>1, <2>2, <2>6, <4>1, Makers
            <4>3. at'[m] = At("run", at[m].step, at[m].op, 2)
                BY <2>6, <4>2 DEF Continues
            <4>4. at'[m].pc = "run" /\ Op(m)' = op /\ at'[m].statement = 2
                BY <2>2, <4>3 DEF At, Op, Step
            <4>5. \A y \in op.statements[k].objects : y \in db' \/ y \in Remaining(m)'
                BY <2>4, <4>1, <4>4, RemainingSaysNext
            <4> QED
                BY <4>5 DEF Cover, Missing
        <3> QED
            BY <3>2, <3>3
    <2>10. Makes(op) \subseteq Cover'
        BY <2>9 DEF Makes
    <2> QED
        BY <2>8, <2>10
<1>4. ASSUME NEW x \in Makes(c), x \in db' \ db
      PROVE  c.unless \subseteq db'
    <2>1. PICK op \in Operations : op = Op(m)
        BY <1>1, <1>4, Makers
    <2>2. PICK j \in DOMAIN op.statements :
              op.statements[j].verb \in Adding /\ x \in op.statements[j].objects
        BY <1>1, <1>4, <2>1, Makers
    <2>3. c.unless \subseteq IF IsCreate(op) THEN op.unless ELSE op.when
        BY <1>4, <2>2, TablesAreMadeWhole
    <2>4. at[m].pc = "run" /\ Within(at[m]) /\ at[m].statement \in 1..Len(op.statements)
          /\ op = OpOf(at[m])
        <3>1. at[m].pc = "run"
            BY <1>1, <1>4, Makers
        <3> QED
            BY <2>1, <3>1, Running
    <2>5. CASE IsCreate(op)
        <3>1. CASE at[m].statement = 1
            <4>1. op.unless \subseteq op.statements[1].objects
                BY <2>5, OperationsAreShaped
            <4>2. Statement(m).objects \subseteq db'
                BY <1>1, <1>4, Makers
            <4> QED
                BY <2>1, <2>3, <2>5, <3>1, <4>1, <4>2 DEF Statement
        <3>2. CASE at[m].statement # 1
            <4>1. at[m].statement > 1
                BY <2>4, <3>2, OneOrMore, OfStatements
            <4>2. op.unless \subseteq db
                BY <2>4, <2>5, <4>1 DEF Within
            <4> QED
                BY <1>1, <2>3, <2>5, <4>2 DEF Grows
        <3> QED
            BY <3>1, <3>2
    <2>6. CASE ~IsCreate(op)
        <3>1. Len(op.statements) = 1
            BY <2>2, <2>6, OperationsAreShaped
        <3>2. \A k \in DOMAIN op.statements : k = j
            BY <3>1, OfStatements
        <3>3. ~Drops(op)
            BY <2>2, <3>2 DEF Drops, Adding, Dropping
        <3>4. op.when \subseteq db
            BY <2>4, <3>3 DEF Within
        <3> QED
            BY <1>1, <2>3, <2>6, <3>4 DEF Grows
    <2> QED
        BY <2>5, <2>6
<1>5. c.unless \subseteq db => c.unless \subseteq db'
    BY <1>1 DEF Grows
<1>6. c.unless \subseteq db => Makes(c) \subseteq Cover'
    BY <1>1, <1>2, CoverStays
<1> QED
    BY <1>2, <1>3, <1>4, <1>5, <1>6

-----------------------------------------------------------------------------
(* What an upgrade may not lose.                                           *)

\* What goes is a row that contradicts a key, or a statement drops it
LEMMA Takers ==
    ASSUME SchemaInv, SchemaNext, NEW x \in db \ db'
    PROVE  x \in Contradictions \/ \E m \in Migrator : /\ at[m].pc = "run"
                                                       /\ Statement(m).verb \in Dropping
                                                       /\ x \in Statement(m).objects
<1>1. CASE Repair
    BY <1>1, SchemaMigrationsAssumption DEF Repair
<1>2. ASSUME NEW m \in Migrator, Migrate(m) \/ Acquire(m) \/ Works(m) \/ Die(m)
      PROVE  /\ at[m].pc = "run" /\ Statement(m).verb \in Dropping
             /\ x \in Statement(m).objects
    <2>1. ~(Migrate(m) \/ Acquire(m) \/ Die(m))
        BY DEF Migrate, Acquire, Die
    <2>2. ~(TimeOut(m) \/ Look(m) \/ Guard(m) \/ Record(m))
        BY DEF TimeOut, Look, Guard, Record
    <2>3. ~(Add(m) \/ Reference(m))
        BY DEF Add, Reference, Adds, Fails
    <2>4. ~(Update(m) \/ Copy(m) \/ Check(m))
        <3>1. ~Update(m)
            BY DEF Update
        <3>2. ~Copy(m)
            BY DEF Copy
        <3>3. ~Check(m)
            BY DEF Check, Fails
        <3> QED
            BY <3>1, <3>2, <3>3
    <2>5. CASE Drop(m)
        BY <2>5 DEF Drop, Fails, Runs, Dropping
    <2> QED
        BY <1>2, <2>1, <2>2, <2>3, <2>4, <2>5 DEF Works
<1> QED
    BY <1>1, <1>2 DEF SchemaNext

LEMMA UpgradedStep ==
    ASSUME SchemaInv, SchemaNext, Grows
    PROVE  Upgraded'
<1>1. RowsBound /\ (earlier # {} => LegacySchema \cap Kept \subseteq db /\ KeysReplaced)
    BY DEF SchemaInv, Upgraded
<1>2. RowsBound'
    <2> SUFFICES ASSUME NEW r \in Row, <<"customers", r>> \in db', ProviderId \notin db'
                 PROVE  <<"customer_bindings", r>> \in db'
        BY DEF RowsBound, ProviderId
    <2>1. <<"customers", r>> \in db
        BY NothingIsUndone DEF Grows
    <2>2. <<"customer_bindings", r>> \in db => <<"customer_bindings", r>> \in db'
        BY NothingIsUndone DEF Grows
    <2>3. CASE ProviderId \in db
        <3>1. ProviderId \notin Contradictions
            BY DEF ProviderId, Contradictions
        <3>2. PICK m \in Migrator : /\ at[m].pc = "run" /\ Statement(m).verb \in Dropping
                                    /\ ProviderId \in Statement(m).objects
            BY <2>3, <3>1, Takers
        <3>3. PICK op \in Operations : op = Op(m)
            BY <3>2, Placed
        <3>4. PICK j \in DOMAIN op.statements : j = at[m].statement
            BY <3>2, <3>3, Placed
        <3>5. op.statements[j].verb \in Dropping /\ ProviderId \in op.statements[j].objects
            BY <3>2, <3>3, <3>4 DEF Statement
        <3>6. PICK j0 \in 1..(j - 1) : /\ op.statements[j0].verb \in Comparing
                                       /\ Binds(op.statements[j0])
            BY <3>5, ColumnsGoLast
        <3>7. op = OpOf(at[m]) /\ Within(at[m])
            BY <3>3, Placed DEF OpOf, Op, Step
        <3>8. Uncopied(op.statements[j0]) = {}
            BY <3>2, <3>4, <3>6, <3>7 DEF Within
        <3>9. <<"customer_bindings", r>> \in db
            BY <2>1, <3>6, <3>8 DEF Uncopied, Binds
        <3> QED
            BY <2>2, <3>9
    <2>4. CASE ProviderId \notin db
        BY <1>1, <2>1, <2>2, <2>4 DEF RowsBound
    <2> QED
        BY <2>3, <2>4
<1>3. ASSUME earlier' # {}
      PROVE  LegacySchema \cap Kept \subseteq db'
    BY <1>1, <1>3 DEF Grows
<1>4. ASSUME earlier' # {}, NEW pair \in Successors, pair[1] \notin db'
      PROVE  pair[2] \in db'
    <2>1. pair[2] \in Kept
        BY NewKeysComeFirst
    <2>2. pair[1] \in db \/ pair[2] \in db
        BY <1>1, <1>4 DEF KeysReplaced, Grows
    <2>3. CASE pair[1] \in db
        <3>1. pair[1] \notin Contradictions
            BY DEF Successors, Contradictions
        <3>2. PICK m \in Migrator : /\ at[m].pc = "run" /\ Statement(m).verb \in Dropping
                                    /\ pair[1] \in Statement(m).objects
            BY <1>4, <2>3, <3>1, Takers
        <3>3. /\ at[m].step \in DOMAIN Steps /\ at[m].op \in DOMAIN Step(m)
              /\ pair[1] \in Makes(Op(m)) /\ Passed(at[m])
            BY <3>2, Placed
        <3>4. PICK s \in DOMAIN Steps : s = at[m].step
            BY <3>3
        <3>5. PICK i \in DOMAIN Steps[s] : i = at[m].op
            BY <3>3, <3>4 DEF Step
        <3>6. pair[1] \in Makes(Steps[s][i])
            BY <3>3, <3>4, <3>5 DEF Op, Step
        <3>7. PICK i0 \in 1..(i - 1) : /\ ~IsCreate(Steps[s][i0])
                                       /\ Steps[s][i0].statements[1].verb = "add"
                                       /\ Steps[s][i0].statements[1].objects = {pair[2]}
            BY <3>6, NewKeysComeFirst
        <3>8. Done(Steps[s][i0])
            BY <3>2, <3>3, <3>4, <3>5 DEF Passed
        <3>9. i0 \in DOMAIN Steps[s]
            BY OfSteps, OfStep
        <3>10. 1 \in DOMAIN Steps[s][i0].statements
            BY <3>9, OfSteps, OfStatements
        <3>11. pair[2] \in db
            BY <3>7, <3>8, <3>10 DEF Done
        <3> QED
            BY <2>1, <3>11 DEF Grows
    <2>4. CASE pair[2] \in db
        BY <2>1, <2>4 DEF Grows
    <2> QED
        BY <2>2, <2>3, <2>4
<1> QED
    BY <1>2, <1>3, <1>4 DEF Upgraded, KeysReplaced

-----------------------------------------------------------------------------
(* It holds from the start and for good.                                   *)

LEMMA SchemaInvInit ==
    ASSUME SchemaInit
    PROVE  SchemaInv
<1>1. \/ db = {} /\ earlier = {}
      \/ /\ earlier = 1..3 /\ LegacySchema \subseteq db
         /\ \A x \in db : x \in LegacySchema \cup Contradictions \/ x[2] \in Row
    <2>1. CASE db = {} /\ earlier = {}
        BY <2>1
    <2>2. CASE earlier = 1..3 /\ \E dirt \in SUBSET Dirt : db = Legacy \cup dirt
        <3>1. PICK dirt \in SUBSET Dirt : db = Legacy \cup dirt
            BY <2>2
        <3>2. \A x \in Legacy : x \in LegacySchema \/ x[2] \in Row
            BY DEF Legacy
        <3>3. LegacySchema \subseteq Legacy
            BY DEF Legacy
        <3> QED
            BY <2>2, <3>1, <3>2, <3>3, SchemaMigrationsAssumption
    <2> QED
        BY <2>1, <2>2 DEF SchemaInit
<1>2. ASSUME NEW m \in Migrator
      PROVE  at[m] = Idle("none")
    BY <1>2 DEF SchemaInit
<1>3. Idle("none") \in Place
    BY DEF Idle, Place
<1>4. at \in [Migrator -> Place]
    BY <1>3 DEF SchemaInit
<1>5. InPlaces
    <2>1. ledger = earlier
        BY DEF SchemaInit
    <2>2. earlier \subseteq DOMAIN Steps
        BY <1>1, AllSteps
    <2>3. \A m \in Migrator : InPlace(at[m])
        BY <1>2, <1>3 DEF InPlace, Idle, Going
    <2> QED
        BY <1>1, <1>4, <2>1, <2>2, <2>3 DEF InPlaces
<1>6. \A m \in Migrator : InTurn(at[m]) /\ Passed(at[m]) /\ Within(at[m])
    BY <1>2 DEF InTurn, Passed, Within, Idle, Going
<1>7. RecordedDone
    BY DEF RecordedDone, SchemaInit
<1>8. Whole
    <2> SUFFICES ASSUME NEW c \in Creates
                 PROVE  /\ c.unless \subseteq db => Makes(c) \subseteq Cover
                        /\ Makes(c) \cap db # {} => c.unless \subseteq db
        BY DEF Whole
    <2>1. c.unless \subseteq db => Makes(c) \subseteq db \cup LeftOut(db)
        BY DEF LeftOut
    <2>2. torn = LeftOut(db)
        BY DEF SchemaInit
    <2>3. ASSUME NEW x \in Makes(c), x \in db
          PROVE  c.unless \subseteq db
        <3>1. x[2] \notin Row
            BY CreatesKeep, MadeAreNoRows
        <3>2. x \in LegacySchema
            BY <1>1, <2>3, <3>1, TablesAreMadeWhole
        <3> QED
            BY <1>1, <2>3, <3>2, TablesAreMadeWhole
    <2> QED
        BY <2>1, <2>2, <2>3 DEF Cover, Missing
<1>9. Upgraded
    <2>1. RowsBound
        BY <1>1, NewKeysComeFirst DEF RowsBound
    <2>2. earlier # {} => LegacySchema \cap Kept \subseteq db /\ KeysReplaced
        BY <1>1, NewKeysComeFirst DEF KeysReplaced
    <2> QED
        BY <2>1, <2>2 DEF Upgraded
<1> QED
    BY <1>5, <1>6, <1>7, <1>8, <1>9 DEF SchemaInv

LEMMA SchemaInvStep ==
    ASSUME SchemaInv, [SchemaNext]_schemaVars
    PROVE  SchemaInv'
<1>1. CASE SchemaNext
    <2>1. PICK m \in Migrator : Grows /\ Moves(m) /\ Brings(m)
        BY <1>1, EverythingMoves
    <2>2. InPlaces' /\ \A n \in Migrator : InTurn(at[n])' /\ Passed(at[n])' /\ Within(at[n])'
        BY <2>1, InPlacesStep
    <2>3. RecordedDone' /\ Whole' /\ Upgraded'
        BY <1>1, <2>1, RecordedDoneStep, WholeStep, UpgradedStep
    <2> QED
        BY <2>2, <2>3 DEF SchemaInv
<1>2. CASE UNCHANGED schemaVars
    <2>1. UNCHANGED <<dialect, earlier, db, ledger, at, torn>>
        BY <1>2 DEF schemaVars
    <2>2. Grows
        BY <2>1 DEF Grows
    <2>3. ASSUME NEW n \in Migrator
          PROVE  InPlace(at[n])' /\ InTurn(at[n])' /\ Passed(at[n])' /\ Within(at[n])'
        <3>1. PICK a : a = at[n]
            OBVIOUS
        <3>2. InPlace(a) /\ InTurn(a) /\ Passed(a) /\ Within(a)
            BY <3>1, Placed
        <3>3. InTurn(a)' /\ Passed(a)' /\ Within(a)'
            BY <2>2, <3>2, InTurnStays, PassedStays, WithinStays
        <3> QED
            BY <2>1, <3>1, <3>2, <3>3
    <2>4. InPlaces'
        BY <2>1, <2>3 DEF SchemaInv, InPlaces
    <2>5. RecordedDone'
        <3> SUFFICES ASSUME NEW s \in ledger \ earlier, NEW i \in DOMAIN Steps[s]
                     PROVE  Done(Steps[s][i])'
            BY <2>1 DEF RecordedDone
        <3>1. Steps[s][i] \in Operations
            BY OfSteps DEF SchemaInv, InPlaces
        <3>2. Done(Steps[s][i])
            BY DEF SchemaInv, RecordedDone
        <3> QED
            BY <2>2, <3>1, <3>2, DoneStays
    <2>6. Whole' /\ Upgraded'
        <3>1. \A n \in Migrator : Remaining(n)' = Remaining(n)
            BY <2>1 DEF Remaining, Op, Step
        <3>2. Cover' = Cover
            BY <2>1, <3>1 DEF Cover, Missing
        <3> QED
            BY <2>1, <3>2 DEF SchemaInv, Whole, Upgraded, RowsBound, KeysReplaced
    <2> QED
        BY <2>3, <2>4, <2>5, <2>6 DEF SchemaInv
<1> QED
    BY <1>1, <1>2

\* Whatever migrate() does, and wherever it dies: what a call has passed is done, a
\* table is whole or known to be torn, and the old schema's knowledge is kept
THEOREM SchemaInvariant == SchemaSpec => []SchemaInv
<1>1. SchemaInit => SchemaInv
    BY SchemaInvInit
<1>2. SchemaInv /\ [SchemaNext]_schemaVars => SchemaInv'
    BY SchemaInvStep
<1> QED
    BY <1>1, <1>2, PTL DEF SchemaSpec

-----------------------------------------------------------------------------
(* What a recorded step leaves.                                            *)

\* What an operation lists of a step's statements it is a statement of
LEMMA OfObjects ==
    ASSUME NEW s \in DOMAIN Steps, NEW x
    PROVE  /\ x \in Ensured[s] => \E i \in DOMAIN Steps[s] : \E j \in DOMAIN Steps[s][i].statements :
                  /\ ~IsCreate(Steps[s][i]) /\ Steps[s][i].statements[j].verb \in {"add", "merge"}
                  /\ x \in Steps[s][i].statements[j].objects
           /\ x \in Created[s] => \E i \in DOMAIN Steps[s] : \E j \in DOMAIN Steps[s][i].statements :
                  IsCreate(Steps[s][i]) /\ x \in Steps[s][i].statements[j].objects
           /\ x \in Dropped[s] => \E i \in DOMAIN Steps[s] : \E j \in DOMAIN Steps[s][i].statements :
                  /\ Steps[s][i].statements[j].verb \in Dropping
                  /\ x \in Steps[s][i].statements[j].objects
           /\ x \in Copied[s] => \E i \in DOMAIN Steps[s] : \E j \in DOMAIN Steps[s][i].statements :
                  /\ Steps[s][i].statements[j].verb = "fill" /\ x = Steps[s][i].statements[j]
<1>1. ASSUME x \in Ensured[s]
      PROVE  \E i \in DOMAIN Steps[s] : \E j \in DOMAIN Steps[s][i].statements :
                  /\ ~IsCreate(Steps[s][i]) /\ Steps[s][i].statements[j].verb \in {"add", "merge"}
                  /\ x \in Steps[s][i].statements[j].objects
    BY <1>1 DEF Ensured, Objects, StatementsOf
<1>2. ASSUME x \in Created[s]
      PROVE  \E i \in DOMAIN Steps[s] : \E j \in DOMAIN Steps[s][i].statements :
                  IsCreate(Steps[s][i]) /\ x \in Steps[s][i].statements[j].objects
    BY <1>2 DEF Created, Objects, StatementsOf
<1>3. ASSUME x \in Dropped[s]
      PROVE  \E i \in DOMAIN Steps[s] : \E j \in DOMAIN Steps[s][i].statements :
                  /\ Steps[s][i].statements[j].verb \in Dropping
                  /\ x \in Steps[s][i].statements[j].objects
    BY <1>3 DEF Dropped, Objects, StatementsOf, Dropping
<1>4. ASSUME x \in Copied[s]
      PROVE  \E i \in DOMAIN Steps[s] : \E j \in DOMAIN Steps[s][i].statements :
                  Steps[s][i].statements[j].verb = "fill" /\ x = Steps[s][i].statements[j]
    BY <1>4 DEF Copied, StatementsOf
<1> QED
    BY <1>1, <1>2, <1>3, <1>4

\* When 008 is done, neither of the two columns is there
LEMMA ColumnsAreGone ==
    ASSUME NEW s \in DOMAIN Steps, NEW i \in DOMAIN Steps[s], Steps[s][i] = DropBoth,
           \A k \in DOMAIN Steps[s] : Done(Steps[s][k])
    PROVE  Provider \notin db /\ ProviderId \notin db
<1>1. Drops(DropBoth)
    BY TwoColumns DEF Drops
<1>2. ~DropsAlone(DropBoth)
    <2>1. \A x : DropBoth.when # {x}
        BY TwoColumns
    <2> QED
        BY <2>1 DEF DropsAlone
<1>3. s = 8
    BY <1>1, <1>2, ColumnsGoLast
<1>4. 8 \in DOMAIN Steps[8] /\ 9 \in DOMAIN Steps[8]
    BY <1>3, ColumnsGoLast, OfStep
<1>5. Done(DropProviderId) /\ Done(DropProvider)
    BY <1>3, <1>4, ColumnsGoLast
<1>6. ASSUME NEW op \in {DropProviderId, DropProvider}
      PROVE  op.when \cap db = {}
    <2>1. Done(op) /\ op # DropBoth
        BY <1>5, TwoColumns
    <2>2. PICK j \in DOMAIN op.statements :
              op.statements[j].verb \in Dropping /\ op.statements[j].objects = op.when
        BY TwoColumns
    <2> QED
        BY <2>1, <2>2 DEF Done
<1> QED
    BY <1>6, TwoColumns

\* Whatever died, was repeated or was overtaken, a step that migrate recorded has
\* been done and stays so: for any number of migrators, of deaths and of rows, on
\* each dialect and from each of the two starts
THEOREM SchemaRecordedStepsHold == SchemaSpec => []RecordedStepsHold
<1>1. ASSUME SchemaInv
      PROVE  RecordedStepsHold
    <2> SUFFICES ASSUME NEW s \in ledger \ earlier
                 PROVE  /\ Ensured[s] \subseteq db
                        /\ Created[s] \subseteq db \cup Missing
                        /\ Dropped[s] \cap db = {}
                        /\ \A copy \in Copied[s] : Uncopied(copy) = {}
        BY DEF RecordedStepsHold
    <2>1. s \in DOMAIN Steps
        BY <1>1 DEF SchemaInv, InPlaces
    <2>2. ASSUME NEW i \in DOMAIN Steps[s]
          PROVE  Done(Steps[s][i]) /\ Steps[s][i] \in Operations
        BY <1>1, <2>1, OfSteps DEF SchemaInv, RecordedDone
    <2>3. ASSUME NEW x \in Ensured[s]
          PROVE  x \in db
        <3>1. PICK i \in DOMAIN Steps[s] : \E j \in DOMAIN Steps[s][i].statements :
                  /\ ~IsCreate(Steps[s][i]) /\ Steps[s][i].statements[j].verb \in {"add", "merge"}
                  /\ x \in Steps[s][i].statements[j].objects
            BY <2>1, OfObjects
        <3> QED
            BY <2>2, <3>1 DEF Done
    <2>4. ASSUME NEW x \in Created[s]
          PROVE  x \in db \cup Missing
        <3>1. PICK i \in DOMAIN Steps[s] : \E j \in DOMAIN Steps[s][i].statements :
                  IsCreate(Steps[s][i]) /\ x \in Steps[s][i].statements[j].objects
            BY <2>1, OfObjects
        <3>2. Steps[s][i] \in Creates /\ x \in Makes(Steps[s][i])
            BY <2>2, <3>1 DEF Creates, Makes
        <3>3. Steps[s][i].unless \subseteq db
            BY <2>2, <3>1 DEF Done
        <3> QED
            BY <1>1, <3>2, <3>3 DEF SchemaInv, Whole, Cover
    <2>5. ASSUME NEW x \in Dropped[s]
          PROVE  x \notin db
        <3>1. PICK i \in DOMAIN Steps[s] : \E j \in DOMAIN Steps[s][i].statements :
                  /\ Steps[s][i].statements[j].verb \in Dropping
                  /\ x \in Steps[s][i].statements[j].objects
            BY <2>1, OfObjects
        <3>2. CASE Steps[s][i] # DropBoth
            BY <2>2, <3>1, <3>2 DEF Done
        <3>3. CASE Steps[s][i] = DropBoth
            <4>1. x \in {Provider, ProviderId}
                BY <3>1, <3>3, TwoColumns
            <4> QED
                BY <2>1, <2>2, <3>3, <4>1, ColumnsAreGone
        <3> QED
            BY <3>2, <3>3
    <2>6. ASSUME NEW copy \in Copied[s]
          PROVE  Uncopied(copy) = {}
        <3>1. PICK i \in DOMAIN Steps[s] : \E j \in DOMAIN Steps[s][i].statements :
                  Steps[s][i].statements[j].verb = "fill" /\ copy = Steps[s][i].statements[j]
            BY <2>1, OfObjects
        <3>2. CASE ~Drops(Steps[s][i])
            BY <2>2, <3>1, <3>2 DEF Done
        <3>3. CASE Drops(Steps[s][i])
            <4>1. Steps[s][i] = DropBoth /\ Binds(copy)
                BY <2>2, <3>1, <3>3, ColumnsGoLast
            <4>2. ProviderId \notin db
                BY <2>1, <2>2, <4>1, ColumnsAreGone
            <4>3. \A r \in Row : <<"customers", r>> \in db => <<"customer_bindings", r>> \in db
                BY <1>1, <4>2 DEF SchemaInv, Upgraded, RowsBound
            <4> QED
                BY <4>1, <4>3 DEF Uncopied, Binds
        <3> QED
            BY <3>2, <3>3
    <2> QED
        BY <2>3, <2>4, <2>5, <2>6
<1> QED
    BY <1>1, SchemaInvariant, PTL

\* No customer loses the provider's name, and no table is ever without a unique
\* key, while 008, 009 and 015 replace them, wherever a call dies
THEOREM SchemaUpgradeLosesNothing == SchemaSpec => []UpgradeLosesNothing
<1>1. ASSUME SchemaInv
      PROVE  UpgradeLosesNothing
    <2>1. RowsBound /\ (earlier # {} => KeysReplaced)
        BY <1>1 DEF SchemaInv, Upgraded
    <2>2. ASSUME KeysReplaced
          PROVE  /\ \A t \in {"products", "prices"} :
                        <<t, "legacy_unique">> \in db \/ <<t, "tenant_unique">> \in db
                 /\ \A k \in {<<"legacy_name_unique", "customer_name_unique">>,
                              <<"legacy_provider_unique", "provider_id_unique">>} :
                        <<"subscriptions", k[1]>> \in db \/ <<"subscriptions", k[2]>> \in db
        BY <2>2 DEF KeysReplaced, Successors
    <2> QED
        BY <2>1, <2>2 DEF UpgradeLosesNothing, RowsBound
<1> QED
    BY <1>1, SchemaInvariant, PTL

-----------------------------------------------------------------------------
(* Under the lock.                                                         *)

\* What an operation under way looked for is as it found it
Fits(a, there) ==
    a.pc = "run" => \A j \in DOMAIN OpOf(a).statements :
        /\ OpOf(a).statements[j].verb = "add" /\ ~IsCreate(OpOf(a)) =>
               OpOf(a).statements[j].objects \cap there = {}
        /\ OpOf(a).statements[j].verb \in Dropping => OpOf(a).statements[j].objects \cap there # {}

LockInv ==
    Locks => \A m \in Migrator :
        /\ at[m].pc \in Going => holder = m
        /\ at[m].error \notin {"exists", "absent"}
        /\ Fits(at[m], db)

\* What one that moves leaves to itself and to the others
Minds(m) ==
    /\ \A n \in Migrator \ {m} : at'[n] = at[n] /\ (holder = n => holder' = n)
    /\ at'[m].pc \in Going => holder' = m
    /\ at'[m].error \notin {"exists", "absent"}
    /\ Fits(at'[m], db')

LEMMA FitsStays ==
    ASSUME NEW a, NEW b, NEW there, NEW then, Fits(a, there), a.pc = "run", b.pc = "run",
           OpOf(b) = OpOf(a), OpOf(a) \in Operations,
           \A x \in Kept \cup Gone : x \in then <=> x \in there
    PROVE  Fits(b, then)
<1> SUFFICES ASSUME NEW j \in DOMAIN OpOf(a).statements
             PROVE  /\ OpOf(a).statements[j].verb = "add" /\ ~IsCreate(OpOf(a)) =>
                           OpOf(a).statements[j].objects \cap then = {}
                    /\ OpOf(a).statements[j].verb \in Dropping =>
                           OpOf(a).statements[j].objects \cap then # {}
    BY DEF Fits
<1>1. PICK op \in Operations : op = OpOf(a)
    OBVIOUS
<1>2. op.statements[j].verb \in {"add"} \cup Dropping => op.statements[j].objects \subseteq Kept \cup Gone
    BY <1>1, OfOperation DEF Adding
<1>3. /\ op.statements[j].verb = "add" /\ ~IsCreate(op) => op.statements[j].objects \cap there = {}
      /\ op.statements[j].verb \in Dropping => op.statements[j].objects \cap there # {}
    BY <1>1 DEF Fits
<1> QED
    BY <1>1, <1>2, <1>3

LEMMA CreatesFit ==
    ASSUME NEW b, NEW then, OpOf(b) \in Operations, IsCreate(OpOf(b))
    PROVE  Fits(b, then)
<1>1. \A j \in DOMAIN OpOf(b).statements : OpOf(b).statements[j].verb \notin Dropping
    BY OperationsAreShaped DEF Dropping
<1> QED
    BY <1>1 DEF Fits

\* An operation that looks, and finds what it looks for, begins
LEMMA LookedFor ==
    ASSUME NEW b, OpOf(b) \in Operations, OpOf(b).when \subseteq db, ~Needless(OpOf(b))
    PROVE  Fits(b, db)
<1> SUFFICES ASSUME NEW j \in DOMAIN OpOf(b).statements
             PROVE  /\ OpOf(b).statements[j].verb = "add" /\ ~IsCreate(OpOf(b)) =>
                           OpOf(b).statements[j].objects \cap db = {}
                    /\ OpOf(b).statements[j].verb \in Dropping =>
                           OpOf(b).statements[j].objects \cap db # {}
    BY DEF Fits
<1>1. PICK op \in Operations : op = OpOf(b)
    OBVIOUS
<1>2. ASSUME op.statements[j].verb = "add", ~IsCreate(op)
      PROVE  op.statements[j].objects \cap db = {}
    <2>1. op.unless = op.statements[j].objects /\ \E x \in op.unless : op.unless = {x}
        BY <1>1, <1>2, OperationsAreShaped
    <2> QED
        BY <1>1, <2>1 DEF Needless
<1>3. ASSUME op.statements[j].verb \in Dropping
      PROVE  op.statements[j].objects \cap db # {}
    <2>1. op.statements[j].objects # {} /\ op.statements[j].objects \subseteq op.when
        BY <1>1, <1>3, OperationsAreShaped
    <2> QED
        BY <1>1, <2>1
<1> QED
    BY <1>1, <1>2, <1>3

LEMMA StandsMinds ==
    ASSUME SchemaInv, NEW m \in Migrator, NEW pc \in Going, NEW s, NEW i, NEW j,
           Stands(m, pc, s, i, j), holder' = m, holder \in {NoOne, m},
           pc = "run" => Fits(At("run", s, i, j), db')
    PROVE  Minds(m) /\ at'[m] = At(pc, s, i, j)
<1>1. at \in [Migrator -> Place]
    BY DEF SchemaInv, InPlaces
<1>2. at'[m] = At(pc, s, i, j) /\ \A n \in Migrator \ {m} : at'[n] = at[n]
    BY <1>1 DEF Stands, At
<1>3. at'[m].error = "none" /\ at'[m].pc = pc
    BY <1>2 DEF At
<1>4. Fits(at'[m], db')
    BY <1>2, <1>3 DEF Fits
<1>5. \A n \in Migrator \ {m} : holder # n
    BY SchemaMigrationsAssumption
<1> QED
    BY <1>2, <1>3, <1>4, <1>5 DEF Minds

LEMMA LeavesMinds ==
    ASSUME SchemaInv, NEW m \in Migrator, NEW error \in {"none", "lock", "constraint", "rows"},
           Leaves(m, error)
    PROVE  Minds(m)
<1>1. at'[m] = Idle(error) /\ \A n \in Migrator \ {m} : at'[n] = at[n]
    BY Leaving
<1>2. at'[m].error = error /\ at'[m].pc = "idle"
    BY <1>1 DEF Idle
<1>3. \A n \in Migrator \ {m} : holder = n => holder' = n
    BY DEF Leaves
<1> QED
    BY <1>1, <1>2, <1>3 DEF Minds, Going, Fits

LEMMA NextOpMinds ==
    ASSUME SchemaInv, NEW m \in Migrator, NextOp(m), holder = m, holder' = m
    PROVE  Minds(m)
<1>1. CASE at[m].op < Len(Step(m))
    <2>1. Stands(m, "guard", at[m].step, at[m].op + 1, 0)
        BY <1>1 DEF NextOp
    <2> QED
        BY <2>1, StandsMinds DEF Going
<1>2. CASE ~(at[m].op < Len(Step(m)))
    <2>1. Stands(m, "record", at[m].step, 0, 0)
        BY <1>2 DEF NextOp
    <2> QED
        BY <2>1, StandsMinds DEF Going
<1> QED
    BY <1>1, <1>2

\* After a statement, if those to come still fit
LEMMA ExecutedMinds ==
    ASSUME SchemaInv, NEW m \in Migrator, at[m].pc = "run", Executes(m), holder = m,
           at[m].statement < Len(Op(m).statements) =>
               \A b : b.pc = "run" /\ OpOf(b) = Op(m) => Fits(b, db')
    PROVE  Minds(m)
<1>1. holder' = m /\ NextStatement(m)
    BY DEF Executes
<1>2. CASE at[m].statement < Len(Op(m).statements)
    <2>1. Stands(m, "run", at[m].step, at[m].op, at[m].statement + 1)
        BY <1>1, <1>2 DEF NextStatement
    <2> DEFINE b == At("run", at[m].step, at[m].op, at[m].statement + 1)
    <2>2. b.pc = "run" /\ OpOf(b) = Op(m)
        BY DEF At, OpOf, Op, Step
    <2>3. Fits(b, db')
        BY <1>2, <2>2
    <2> QED
        BY <1>1, <2>1, <2>3, StandsMinds DEF Going
<1>3. CASE ~(at[m].statement < Len(Op(m).statements))
    BY <1>1, <1>3, NextOpMinds DEF NextStatement
<1> QED
    BY <1>2, <1>3

\* Of createIfMissing, nothing is there but its table is
LEMMA CreatesAreNeedless ==
    ASSUME SchemaInv, NEW op \in Operations, IsCreate(op), Makes(op) \cap db # {}
    PROVE  op.tolerant /\ Needless(op)
<1>1. op \in Creates
    BY DEF Creates
<1>2. op.unless \subseteq db
    BY <1>1 DEF SchemaInv, Whole
<1> QED
    BY <1>1, <1>2, CreatesKeep DEF Needless, IsCreate

LEMMA NotTheLast ==
    ASSUME NEW n \in Nat, NEW k \in 1..n, k < n
    PROVE  n # 1
OBVIOUS

LEMMA AddedMinds ==
    ASSUME SchemaInv, LockInv, Locks, NEW m \in Migrator, at[m].pc = "run",
           Statement(m).verb \in {"add", "foreign"}, Adds(m, Statement(m).objects)
    PROVE  Minds(m)
<1>1. holder = m /\ Fits(at[m], db)
    BY DEF LockInv, Going
<1>2. PICK op \in Operations : op = Op(m)
    BY Running
<1>3. PICK j \in DOMAIN op.statements : j = at[m].statement
    BY <1>2, Running
<1>4. /\ op = OpOf(at[m]) /\ Statement(m) = op.statements[j]
      /\ j \in 1..Len(op.statements) /\ Len(op.statements) \in Nat
      /\ op.statements[j].objects \subseteq Makes(op)
    <2>1. op = OpOf(at[m]) /\ Statement(m) = op.statements[j]
        BY <1>2, <1>3, Running
    <2> QED
        BY <2>1, OfOperation
<1>5. CASE Statement(m).objects \cap db # {}
    <2>1. Fails(m, "exists")
        BY <1>5 DEF Adds
    <2>2. IsCreate(op)
        BY <1>1, <1>4, <1>5, OperationsAreShaped DEF Fits
    <2>3. op.tolerant /\ Needless(op)
        BY <1>4, <1>5, <2>2, CreatesAreNeedless
    <2>4. NextOp(m) /\ holder' = holder
        BY <1>2, <2>1, <2>3 DEF Fails
    <2> QED
        BY <1>1, <2>4, NextOpMinds
<1>6. CASE Statement(m).objects \cap db = {}
    <2>1. Executes(m)
        BY <1>6 DEF Adds
    <2>2. ASSUME at[m].statement < Len(op.statements)
          PROVE  IsCreate(op)
        <3>1. j < Len(op.statements)
            BY <1>3, <2>2
        <3>2. Len(op.statements) # 1
            BY <1>4, <3>1, NotTheLast
        <3> QED
            BY <1>4, <3>2, OperationsAreShaped DEF Adding
    <2> QED
        BY <1>1, <1>2, <2>1, <2>2, CreatesFit, ExecutedMinds
<1> QED
    BY <1>5, <1>6

\* What does not touch the parts of tables leaves what comes next as it was
LEMMA KeptMinds ==
    ASSUME SchemaInv, LockInv, Locks, NEW m \in Migrator, at[m].pc = "run", Executes(m),
           \A x \in Kept \cup Gone : x \in db' <=> x \in db
    PROVE  Minds(m)
<1>1. holder = m /\ Fits(at[m], db) /\ Op(m) \in Operations /\ OpOf(at[m]) = Op(m)
    BY Placed DEF LockInv, Going, OpOf, Op, Step
<1>2. ASSUME NEW b, b.pc = "run", OpOf(b) = Op(m)
      PROVE  Fits(b, db')
    BY <1>1, <1>2, FitsStays
<1> QED
    BY <1>1, <1>2, ExecutedMinds

\* A batch, or the rest of a drop, is still to come
LEMMA PausedMinds ==
    ASSUME SchemaInv, LockInv, Locks, NEW m \in Migrator, at[m].pc \in Going,
           UNCHANGED <<at, holder>>, Fits(at[m], db')
    PROVE  Minds(m)
BY DEF Minds, LockInv

LEMMA CopyMinds ==
    ASSUME SchemaInv, LockInv, Locks, NEW m \in Migrator, Copy(m)
    PROVE  Minds(m)
<1> DEFINE left == Uncopied(Statement(m))
<1>1. /\ at[m].pc = "run" /\ Statement(m).verb = "fill"
      /\ \/ left = {} /\ UNCHANGED db /\ Executes(m)
         \/ /\ UNCHANGED <<at, holder, torn>>
            /\ \E batch \in SUBSET left : db' = db \cup ({Statement(m).to} \X batch)
    BY DEF Copy, Runs
<1>2. CASE UNCHANGED db /\ Executes(m)
    BY <1>1, <1>2, KeptMinds
<1>3. ASSUME UNCHANGED <<at, holder, torn>>, NEW batch \in SUBSET left,
             db' = db \cup ({Statement(m).to} \X batch)
      PROVE  Minds(m)
    <2>1. Statement(m).to \in Targets /\ left \subseteq Row
        <3>1. PICK op \in Operations : op = Op(m) /\ at[m].statement \in DOMAIN op.statements
            BY <1>1, Running
        <3>2. Statement(m) = op.statements[at[m].statement]
            BY <1>1, <3>1, Running
        <3>3. Statement(m).to \in Targets
            BY <1>1, <3>1, <3>2, OfOperation DEF Comparing
        <3> QED
            BY <3>3 DEF Uncopied
    <2>2. \A x \in db' \ db : x[2] \in Row
        BY <1>3, <2>1, DbCopies
    <2>3. \A x \in Kept \cup Gone : x \in db' <=> x \in db
        BY <1>3, <2>2, PartsAreNoRows
    <2>4. Fits(at[m], db) /\ OpOf(at[m]) \in Operations
        BY <1>1, Placed DEF LockInv, OpOf, Op, Step
    <2>5. Fits(at[m], db')
        BY <1>1, <2>3, <2>4, FitsStays
    <2> QED
        BY <1>1, <1>3, <2>5, PausedMinds DEF Going
<1> QED
    BY <1>1, <1>2, <1>3

LEMMA CheckMinds ==
    ASSUME SchemaInv, LockInv, Locks, NEW m \in Migrator, Check(m)
    PROVE  Minds(m)
<1>1. at[m].pc = "run" /\ holder = m
    BY DEF Check, Runs, LockInv, Going
<1>2. (Executes(m) /\ UNCHANGED db) \/ Fails(m, "rows")
    BY DEF Check
<1>3. CASE Executes(m) /\ UNCHANGED db
    BY <1>1, <1>3, KeptMinds
<1>4. CASE Fails(m, "rows")
    <2>1. (NextOp(m) /\ holder' = holder) \/ Leaves(m, "rows")
        BY <1>4 DEF Fails
    <2> QED
        BY <1>1, <2>1, NextOpMinds, LeavesMinds
<1> QED
    BY <1>2, <1>3, <1>4

LEMMA DropMinds ==
    ASSUME SchemaInv, LockInv, Locks, NEW m \in Migrator, Drop(m)
    PROVE  Minds(m)
<1> DEFINE left == Statement(m).objects \cap db
<1>1. /\ at[m].pc = "run" /\ Statement(m).verb \in Dropping
      /\ \/ left = {}
         \/ Fails(m, "constraint")
         \/ \E gone \in SUBSET left \ {{}} :
                /\ db' = db \ gone
                /\ IF gone = left THEN Executes(m) ELSE UNCHANGED <<at, holder, torn>>
    BY DEF Drop, Runs, Dropping
<1>2. holder = m /\ Fits(at[m], db)
    BY <1>1 DEF LockInv, Going
<1>3. PICK op \in Operations : op = Op(m)
    BY <1>1, Placed
<1>4. PICK j \in DOMAIN op.statements : j = at[m].statement
    BY <1>1, <1>3, Placed
<1>5. op = OpOf(at[m]) /\ Statement(m) = op.statements[j]
    BY <1>3, <1>4 DEF OpOf, Op, Step, Statement
<1>6. /\ j = Len(op.statements) /\ ~IsCreate(op)
      /\ \A k \in DOMAIN op.statements :
          /\ op.statements[k].verb \in Dropping => k = j
          /\ ~(op.statements[k].verb = "add" /\ Len(op.statements) # 1)
    <2>1. j = Len(op.statements) /\ ~IsCreate(op)
        BY <1>1, <1>5, OperationsAreShaped DEF Dropping
    <2>2. ASSUME NEW k \in DOMAIN op.statements
          PROVE  /\ op.statements[k].verb \in Dropping => k = j
                 /\ ~(op.statements[k].verb = "add" /\ Len(op.statements) # 1)
        BY <2>1, OperationsAreShaped DEF Adding
    <2> QED
        BY <2>1, <2>2
<1>7. left # {}
    BY <1>1, <1>2, <1>5 DEF Fits
<1>8. CASE Fails(m, "constraint")
    <2>1. (NextOp(m) /\ holder' = holder) \/ Leaves(m, "constraint")
        BY <1>8 DEF Fails
    <2> QED
        BY <1>2, <2>1, NextOpMinds, LeavesMinds
<1>9. ASSUME NEW gone \in SUBSET left \ {{}}, db' = db \ gone,
             IF gone = left THEN Executes(m) ELSE UNCHANGED <<at, holder, torn>>
      PROVE  Minds(m)
    <2>1. CASE gone = left
        <3>1. ~(at[m].statement < Len(op.statements))
            BY <1>4, <1>6, OfStatements
        <3>2. ~(at[m].statement < Len(Op(m).statements))
            BY <1>3, <3>1
        <3>3. Executes(m)
            BY <1>9, <2>1
        <3> QED
            BY <1>1, <1>2, <3>2, <3>3, ExecutedMinds
    <2>2. CASE gone # left
        <3>1. Fits(at[m], db')
            <4> SUFFICES ASSUME NEW k \in DOMAIN op.statements
                         PROVE  /\ op.statements[k].verb = "add" /\ ~IsCreate(op) =>
                                       op.statements[k].objects \cap db' = {}
                                /\ op.statements[k].verb \in Dropping =>
                                       op.statements[k].objects \cap db' # {}
                BY <1>5 DEF Fits
            <4>1. op.statements[k].verb = "add" /\ ~IsCreate(op) =>
                      op.statements[k].objects \cap db = {}
                BY <1>1, <1>2, <1>5 DEF Fits
            <4>2. op.statements[j].objects \cap db' # {}
                BY <1>5, <1>9, <2>2
            <4> QED
                BY <1>6, <1>9, <4>1, <4>2
        <3> QED
            BY <1>1, <1>9, <2>2, <3>1, PausedMinds DEF Going
    <2> QED
        BY <2>1, <2>2
<1> QED
    BY <1>1, <1>7, <1>8, <1>9

\* Any action of m
LEMMA ActionMinds ==
    ASSUME SchemaInv, LockInv, Locks, NEW m \in Migrator,
           Migrate(m) \/ Acquire(m) \/ Works(m) \/ Die(m)
    PROVE  Minds(m) /\ (db' = db \/ at[m].pc = "run")
<1>0. at[m].pc \in Going => holder = m
    BY DEF LockInv
<1>1. CASE Migrate(m)
    <2>1. /\ at[m].pc = "idle" /\ Stands(m, "waiting", 1, 0, 0) /\ UNCHANGED <<holder, db>>
        BY <1>1 DEF Migrate
    <2>2. at \in [Migrator -> Place]
        BY DEF SchemaInv, InPlaces
    <2>3. /\ \A n \in Migrator \ {m} : at'[n] = at[n]
          /\ at'[m].pc = "waiting" /\ at'[m].error = "none"
        BY <2>1, <2>2 DEF Stands
    <2> QED
        BY <2>1, <2>3 DEF Minds, Going, Fits
<1>2. CASE Acquire(m)
    <2>1. holder = NoOne /\ holder' = m /\ Stands(m, "step", 1, 0, 0) /\ UNCHANGED db
        BY <1>2 DEF Acquire
    <2> QED
        BY <2>1, StandsMinds DEF Going
<1>3. CASE TimeOut(m) \/ Die(m)
    <2>1. (Leaves(m, "lock") \/ Leaves(m, "none")) /\ UNCHANGED db
        BY <1>3 DEF TimeOut, Die
    <2> QED
        BY <2>1, LeavesMinds
<1>4. CASE Look(m)
    <2>1. holder = m /\ UNCHANGED db
        BY <1>0, <1>4 DEF Look, Going
    <2>2. \/ Leaves(m, "none")
          \/ Stands(m, "step", at[m].step + 1, 0, 0) /\ UNCHANGED holder
          \/ Stands(m, "guard", at[m].step, 1, 0) /\ UNCHANGED holder
        BY <1>4 DEF Look
    <2>3. CASE Leaves(m, "none")
        BY <2>1, <2>3, LeavesMinds
    <2>4. CASE Stands(m, "step", at[m].step + 1, 0, 0) /\ UNCHANGED holder
        BY <2>1, <2>4, StandsMinds DEF Going
    <2>5. CASE Stands(m, "guard", at[m].step, 1, 0) /\ UNCHANGED holder
        BY <2>1, <2>5, StandsMinds DEF Going
    <2> QED
        BY <2>2, <2>3, <2>4, <2>5
<1>5. CASE Guard(m)
    <2>1. at[m].pc = "guard" /\ holder = m /\ UNCHANGED <<db, holder>>
        BY <1>0, <1>5 DEF Guard, Going
    <2>2. CASE Op(m).when \subseteq db /\ ~Needless(Op(m))
        <3>1. Stands(m, "run", at[m].step, at[m].op, 1)
            BY <1>5, <2>2 DEF Guard
        <3> DEFINE b == At("run", at[m].step, at[m].op, 1)
        <3>2. OpOf(b) = Op(m) /\ Op(m) \in Operations
            BY <2>1, Placed DEF At, OpOf, Op, Step
        <3>3. Fits(b, db)
            BY <2>2, <3>2, LookedFor
        <3> QED
            BY <2>1, <3>1, <3>3, StandsMinds DEF Going
    <2>3. CASE ~(Op(m).when \subseteq db /\ ~Needless(Op(m)))
        <3>1. NextOp(m)
            BY <1>5, <2>3 DEF Guard
        <3> QED
            BY <2>1, <3>1, NextOpMinds
    <2> QED
        BY <2>2, <2>3
<1>6. CASE Record(m)
    <2>1. holder = m /\ UNCHANGED <<db, holder>> /\ Stands(m, "step", at[m].step + 1, 0, 0)
        BY <1>0, <1>6 DEF Record, Going
    <2> QED
        BY <2>1, StandsMinds DEF Going
<1>7. CASE Add(m) \/ Reference(m)
    <2>1. /\ at[m].pc = "run" /\ Statement(m).verb \in {"add", "foreign"}
          /\ Adds(m, Statement(m).objects)
        <3>1. Inline(m) = {}
            BY DEF Inline
        <3> QED
            BY <1>7, <3>1 DEF Add, Reference, Runs
    <2> QED
        BY <2>1, AddedMinds
<1>8. CASE Update(m)
    <2>1. at[m].pc = "run" /\ Statement(m).verb = "merge" /\ Executes(m) /\ holder = m
        BY <1>0, <1>8 DEF Update, Runs, Going
    <2>2. PICK op \in Operations : op = Op(m) /\ at[m].statement \in DOMAIN op.statements
        BY <2>1, Placed
    <2>3. Len(op.statements) = 1
        <3>1. op.statements[at[m].statement].verb = "merge"
            BY <2>1, <2>2 DEF Statement
        <3>2. ~IsCreate(op)
            BY <2>2, <3>1, OperationsAreShaped
        <3> QED
            BY <2>2, <3>1, <3>2, OperationsAreShaped DEF Adding
    <2>4. ~(at[m].statement < Len(Op(m).statements))
        BY <2>1, <2>2, <2>3, Placed
    <2> QED
        BY <2>1, <2>4, ExecutedMinds
<1>9. CASE Drop(m) \/ Copy(m) \/ Check(m)
    <2>1. at[m].pc = "run"
        BY <1>9 DEF Drop, Copy, Check, Runs
    <2> QED
        BY <1>9, <2>1, DropMinds, CopyMinds, CheckMinds
<1> QED
    BY <1>1, <1>2, <1>3, <1>4, <1>5, <1>6, <1>7, <1>8, <1>9 DEF Works

LEMMA LockInvStep ==
    ASSUME SchemaInv, LockInv, [SchemaNext]_schemaVars
    PROVE  LockInv'
<1> SUFFICES ASSUME Locks', NEW n \in Migrator
             PROVE  /\ at'[n].pc \in Going => holder' = n
                    /\ at'[n].error \notin {"exists", "absent"}
                    /\ Fits(at'[n], db')
    BY DEF LockInv
<1>1. Locks
    <2>1. dialect' = dialect
        <3>1. CASE SchemaNext
            BY <3>1, EverythingMoves DEF Grows
        <3>2. CASE UNCHANGED schemaVars
            BY <3>2 DEF schemaVars
        <3> QED
            BY <3>1, <3>2
    <2> QED
        BY <2>1 DEF Locks
<1>2. /\ at[n].pc \in Going => holder = n
      /\ at[n].error \notin {"exists", "absent"}
      /\ Fits(at[n], db)
    BY <1>1 DEF LockInv
<1>3. ASSUME NEW m \in Migrator, Migrate(m) \/ Acquire(m) \/ Works(m) \/ Die(m)
      PROVE  /\ at'[n].pc \in Going => holder' = n
             /\ at'[n].error \notin {"exists", "absent"}
             /\ Fits(at'[n], db')
    <2>1. Minds(m) /\ (db' = db \/ at[m].pc = "run")
        BY <1>1, <1>3, ActionMinds
    <2>2. CASE n = m
        BY <2>1, <2>2 DEF Minds
    <2>3. CASE n # m
        <3>1. at'[n] = at[n] /\ (holder = n => holder' = n)
            BY <2>1, <2>3 DEF Minds
        <3>2. at[m].pc = "run" => at[n].pc # "run"
            BY <1>1, <2>3 DEF LockInv, Going
        <3>3. Fits(at[n], db')
            BY <1>2, <2>1, <3>2 DEF Fits
        <3> QED
            BY <1>2, <3>1, <3>3
    <2> QED
        BY <2>2, <2>3
<1>4. CASE Repair
    <2>1. UNCHANGED <<at, holder>> /\ db' = db \ Dirt
        BY <1>4 DEF Repair
    <2>2. \A x \in Kept \cup Gone : x \in db' <=> x \in db
        BY <2>1, SchemaMigrationsAssumption, NothingIsUndone
    <2>3. CASE at[n].pc = "run"
        <3>1. OpOf(at[n]) \in Operations
            BY <2>3, Placed DEF OpOf, Op, Step
        <3>2. Fits(at[n], db')
            BY <1>2, <2>2, <2>3, <3>1, FitsStays
        <3> QED
            BY <1>2, <2>1, <3>2
    <2>4. CASE at[n].pc # "run"
        BY <1>2, <2>1, <2>4 DEF Fits
    <2> QED
        BY <2>3, <2>4
<1>5. CASE UNCHANGED schemaVars
    <2>1. UNCHANGED <<db, at, holder>>
        BY <1>5 DEF schemaVars
    <2> QED
        BY <1>2, <2>1
<1> QED
    BY <1>3, <1>4, <1>5 DEF SchemaNext

\* Under the lock, whichever statement the call before it died at, no call adds what
\* is there or drops what is not: it looks before each operation, nobody comes
\* between, and a table it finds half made it passes over
THEOREM SchemaLockedCallsNeverStumble == SchemaSpec => []LockedCallsNeverStumble
<1>1. SchemaInit => LockInv
    <2> SUFFICES ASSUME SchemaInit, NEW m \in Migrator
                 PROVE  /\ at[m].pc \notin Going /\ at[m].error = "none"
                        /\ Fits(at[m], db)
        BY DEF LockInv
    <2>1. at[m].pc = "idle" /\ at[m].error = "none"
        BY DEF SchemaInit, Idle
    <2> QED
        BY <2>1 DEF Going, Fits
<1>2. SchemaInv /\ LockInv /\ [SchemaNext]_schemaVars => LockInv'
    BY LockInvStep
<1>3. LockInv => LockedCallsNeverStumble
    BY DEF LockInv, LockedCallsNeverStumble
<1> QED
    BY <1>1, <1>2, <1>3, SchemaInvariant, PTL DEF SchemaSpec

=============================================================================

-------------------------- MODULE CatalogSyncProofs --------------------------
(***************************************************************************)
(* Proofs about CatalogSync, for any workers, callers, providers and any   *)
(* number of failures: what succeeded is what is bound, what the provider  *)
(* made is accounted for, and the first create of a generation is not      *)
(* repeated blindly.                                                       *)
(***************************************************************************)
EXTENDS CatalogSync, TLAPS

FrameFields == {"pc", "op", "version", "remote", "answer", "waited"}
RowFields == {"status", "state", "op", "version", "remote", "owner", "lease"}
AskFields == {"pc", "res", "op", "version", "remote"}

\* What the proofs need of the types.
Frames ==
    /\ DOMAIN work = Worker
    /\ \A w \in Worker :
           /\ DOMAIN work[w] = Resource
           /\ \A r \in Resource : DOMAIN work[w][r] = FrameFields
RowShape ==
    /\ DOMAIN row = Resource
    /\ \A r \in Resource : DOMAIN row[r] = RowFields /\ row[r].version \in Nat
AskShape ==
    /\ DOMAIN ask = Caller
    /\ \A c \in Caller :
           /\ DOMAIN ask[c] = AskFields
           /\ ask[c].res \in Resource
           /\ ask[c].version \in Nat
Shapes ==
    /\ Frames /\ RowShape /\ AskShape
    /\ DOMAIN binding = Resource
    /\ DOMAIN version = Resource /\ \A r \in Resource : version[r] \in Nat
    /\ \E S : made \in Seq(S)

Unclaimed == {"idle", "begun", "claiming", "requesting"}
Owing == {"committing", "remembering", "superseded", "reporting"}

\* An update names what it updates, in the row, in a call and in a run, and an
\* answer is a provider id.
UpdateNamed ==
    /\ \A r \in Resource : row[r].status # "absent" /\ row[r].op # "create" =>
           row[r].remote # 0 /\ binding[r] # 0
    /\ \A c \in Caller :
           /\ ask[c].pc = "requesting" /\ ask[c].op # "create" =>
                  ask[c].remote # 0 /\ binding[ask[c].res] # 0
           /\ ask[c].pc = "reconciling" =>
                  row[ask[c].res].status # "absent" /\ binding[ask[c].res] # 0
Calling == {"parent", "ensuring", "awaiting", "looking", "recovering", "calling"}
Waits == {"ensuring", "awaiting", "looking", "unavailable"}
RunKnows ==
    \A w \in Worker, r \in Resource :
        /\ work[w][r].pc = "requesting" =>
               r = "product" /\ work[w][r].op = "create" /\ work[w][r].version \in Nat
        /\ work[w][r].op = "update" /\ work[w][r].pc \notin Unclaimed => work[w][r].remote # 0
        /\ work[w][r].pc \in Owing \cup {"recommitting"} => work[w][r].answer # 0
        /\ work[w][r].pc = "skipping" => work[w][r].op \notin provider.supports[r]
        /\ work[w][r].pc \in Calling => work[w][r].op \in provider.supports[r]
        /\ work[w][r].pc = "parent" => r = "price"
        /\ work[w][r].pc \in Waits => r = "price" /\ work[w][r].remote = 0
        /\ r = "price" /\ binding["product"] = 0 =>
               /\ work[w][r].remote = 0 /\ work[w][r].answer = 0
               /\ work[w][r].pc \notin {"recovering", "calling"}

\* A price is made, asked for by its id and bound only under a product that is
\* bound, and a create is supported where something has been created.
ParentBound ==
    binding["product"] = 0 =>
        /\ row["price"].remote = 0 /\ binding["price"] = 0
        /\ \A c \in Caller : ask[c].res = "price" => ask[c].remote = 0
        /\ \A x \in DOMAIN made : made[x].res # "price"
MadeSupported ==
    \A x \in DOMAIN made : made[x].key[1] = "create" /\ made[x].res \in Resource =>
        "create" \in provider.supports[made[x].res]

\* A product's run inside a price's run is the only one that goes on.
Nested ==
    \A w \in Worker :
        work[w]["product"].pc # "idle" => work[w]["price"].pc \in {"idle", "ensuring"}

\* What was learned is bound, reported, or owed by a run that has not yet
\* bound or reported it.
EvidenceOwed ==
    \A x \in learned :
        \/ x \in bound \/ x \in orphaned \/ x \in lost
        \/ \E w \in Worker, r \in Resource :
               work[w][r].pc \in Owing /\ work[w][r].answer = x

-----------------------------------------------------------------------------
\* The first create of a resource that is not bound, without native idempotency

Blind(r) == ~provider.native /\ ~overtaken /\ binding[r] = 0

\* The row has come to this version, or passed it.
Reached(r, v) ==
    /\ row[r].status # "absent" /\ row[r].op = "create"
    /\ v \in Nat /\ v <= row[r].version
Closed(r) == row[r].status = "failed" /\ row[r].state = "required"

\* A generation that was created stays closed, or goes on with the known id.
MadeIsClosed ==
    \A r \in Resource, x \in DOMAIN made : Blind(r) /\ made[x].res = r =>
        /\ made[x].key[1] = "create"
        /\ Reached(r, made[x].key[2])
        /\ made[x].key[2] = row[r].version =>
               \/ row[r].status = "processing" \/ Closed(r)
               \/ (row[r].status = "retrying" /\ row[r].remote # 0)

\* A run that may still create, or give up without having created.
MayCreate(w, r) ==
    /\ work[w][r].pc \in {"parent", "ensuring", "awaiting", "looking", "recovering",
                          "calling", "skipping", "unavailable"}
    /\ work[w][r].remote = 0

\* It is the first, and the row is its own or closed.
CreatorIsFirst ==
    \A w \in Worker, r \in Resource : Blind(r) /\ MayCreate(w, r) =>
        /\ work[w][r].op = "create"
        /\ Reached(r, work[w][r].version)
        /\ \A x \in DOMAIN made : made[x].res = r => made[x].key[2] # work[w][r].version
        /\ work[w][r].version = row[r].version =>
               row[r].remote = 0 /\ (Holds(w, r) \/ Closed(r))
CreatorIsAlone ==
    \A w, v \in Worker, r \in Resource :
        Blind(r) /\ MayCreate(w, r) /\ MayCreate(v, r) /\ work[w][r].version = work[v][r].version
            => w = v
CallsBlindly ==
    \A w \in Worker, r \in Resource :
        work[w][r].pc = "calling" /\ binding[r] = 0 => work[w][r].remote = 0

RunInv ==
    /\ Shapes /\ UpdateNamed /\ RunKnows /\ ParentBound /\ MadeSupported
    /\ Nested /\ SucceededIsBound /\ EvidenceOwed
CreateInv == MadeIsClosed /\ CreatorIsFirst /\ CreatorIsAlone /\ CallsBlindly /\ FirstCreateOnce
CatalogInv == RunInv /\ CreateInv

-----------------------------------------------------------------------------
\* How a step moves the frames

FrameIs(w, r, pc, op, v, remote, answer) ==
    /\ work'[w][r].pc = pc /\ work'[w][r].op = op /\ work'[w][r].version = v
    /\ work'[w][r].remote = remote /\ work'[w][r].answer = answer

Moved(w, r, pc, op, v, remote, answer) ==
    /\ Frames'
    /\ FrameIs(w, r, pc, op, v, remote, answer)
    /\ \A u \in Worker, q \in Resource : u # w \/ q # r => work'[u][q] = work[u][q]

Goes(w, r, pc) ==
    Moved(w, r, pc, work[w][r].op, work[w][r].version, work[w][r].remote, work[w][r].answer)

\* A run ends, or the product's run ends and the price's goes on.
Backed(w, r, pc) ==
    /\ Frames'
    /\ \A u \in Worker, q \in Resource : u # w => work'[u][q] = work[u][q]
    /\ work'[w]["product"].pc = "idle"
    /\ \/ FrameIs(w, "price", "idle", "none", 0, 0, 0)
       \/ /\ r = "product" /\ work[w]["price"].pc = "ensuring"
          /\ FrameIs(w, "price", pc, work[w]["price"].op, work[w]["price"].version,
                     work[w]["price"].remote, work[w]["price"].answer)

LEMMA GotoMoves ==
    ASSUME Frames, NEW w \in Worker, NEW r \in Resource, NEW label, Goto(w, r, label)
    PROVE  Goes(w, r, label)
<1> DEFINE frame == [work[w][r] EXCEPT !.pc = label]
<1>1. /\ DOMAIN frame = FrameFields /\ frame.pc = label
      /\ frame.op = work[w][r].op /\ frame.version = work[w][r].version
      /\ frame.remote = work[w][r].remote /\ frame.answer = work[w][r].answer
    BY DEF Frames, FrameFields
<1>2. work' = [work EXCEPT ![w] = [work[w] EXCEPT ![r] = frame]]
    BY DEF Goto
<1> HIDE DEF frame
<1>3. /\ DOMAIN work' = Worker /\ DOMAIN work'[w] = Resource
      /\ work'[w][r] = frame
      /\ \A u \in Worker : u # w => work'[u] = work[u]
      /\ \A q \in Resource : q # r => work'[w][q] = work[w][q]
    BY <1>2 DEF Frames
<1> QED
    BY <1>1, <1>3 DEF Frames, Goes, Moved, FrameIs

LEMMA FrameMoves ==
    ASSUME Frames, NEW w \in Worker, NEW r \in Resource, NEW frame,
           DOMAIN frame = FrameFields, work' = [work EXCEPT ![w][r] = frame]
    PROVE  Moved(w, r, frame.pc, frame.op, frame.version, frame.remote, frame.answer)
<1>1. /\ DOMAIN work' = Worker /\ DOMAIN work'[w] = Resource
      /\ work'[w][r] = frame
      /\ \A u \in Worker : u # w => work'[u] = work[u]
      /\ \A q \in Resource : q # r => work'[w][q] = work[w][q]
    BY DEF Frames
<1> QED
    BY <1>1 DEF Frames, Moved, FrameIs

LEMMA RestingFrame ==
    /\ DOMAIN Resting = FrameFields /\ Resting.pc = "idle" /\ Resting.op = "none"
    /\ Resting.version = 0 /\ Resting.remote = 0 /\ Resting.answer = 0
    /\ DOMAIN Idle = Resource
    /\ \A r \in Resource : Idle[r] = Resting
BY DEF Resting, Idle, FrameFields

LEMMA BackMoves ==
    ASSUME Frames, NEW w \in Worker, NEW r \in Resource, NEW label, Back(w, r, label)
    PROVE  Backed(w, r, label)
<1> DEFINE frame == [work[w]["price"] EXCEPT !.pc = label]
<1>1. "price" \in Resource /\ "product" \in Resource
    BY DEF Resource
<1>2. /\ DOMAIN frame = FrameFields /\ frame.pc = label
      /\ frame.op = work[w]["price"].op /\ frame.version = work[w]["price"].version
      /\ frame.remote = work[w]["price"].remote /\ frame.answer = work[w]["price"].answer
    BY <1>1 DEF Frames, FrameFields
<1>3. work' = [work EXCEPT ![w] = IF Inner(w, r) THEN [Idle EXCEPT !["price"] = frame]
                                  ELSE Idle]
    BY DEF Back
<1> HIDE DEF frame
<1>4. DOMAIN work' = Worker /\ \A u \in Worker : u # w => work'[u] = work[u]
    BY <1>3 DEF Frames
<1>5. CASE Inner(w, r)
    <2>1. work'[w] = [Idle EXCEPT !["price"] = frame]
        BY <1>3, <1>5 DEF Frames
    <2>2. /\ DOMAIN work'[w] = Resource
          /\ work'[w]["price"] = frame /\ work'[w]["product"] = Resting
        BY <2>1, <1>1, RestingFrame
    <2> QED
        BY <1>1, <1>2, <1>4, <1>5, <2>2, RestingFrame
        DEF Backed, Frames, FrameIs, Inner, Resource
<1>6. CASE ~Inner(w, r)
    <2>1. work'[w] = Idle
        BY <1>3, <1>6 DEF Frames
    <2> QED
        BY <1>1, <1>4, <2>1, RestingFrame DEF Backed, Frames, FrameIs
<1> QED
    BY <1>5, <1>6

-----------------------------------------------------------------------------
\* How a step moves the rows

RowPut(r, status, state, op, v, remote, owner) ==
    /\ RowShape'
    /\ row'[r].status = status /\ row'[r].state = state /\ row'[r].op = op
    /\ row'[r].version = v /\ row'[r].remote = remote /\ row'[r].owner = owner
    /\ \A q \in Resource : q # r => row'[q] = row[q]

LEMMA WrittenPuts ==
    ASSUME RowShape, NEW r \in Resource, NEW status, NEW state, NEW remote,
           Written(r, status, state, remote)
    PROVE  RowPut(r, status, state, row[r].op, row[r].version, remote, Nobody)
<1> DEFINE new == [row[r] EXCEPT !.status = status, !.state = state, !.remote = remote,
                       !.owner = Nobody, !.lease = 0]
<1>1. /\ DOMAIN new = RowFields /\ new.status = status /\ new.state = state
      /\ new.op = row[r].op /\ new.version = row[r].version
      /\ new.remote = remote /\ new.owner = Nobody
    BY DEF RowShape, RowFields
<1>2. row' = [row EXCEPT ![r] = new]
    BY DEF Written
<1> HIDE DEF new
<1> QED
    BY <1>1, <1>2 DEF RowShape, RowPut

RowStands == RowShape' /\ \A q \in Resource : row'[q] = row[q]

LEMMA RowsStand == ASSUME RowShape, row' = row PROVE RowStands
BY DEF RowShape, RowStands

\* requestGeneration keeps the row or writes a new generation.
Requests(r, op, v, remote) ==
    \/ /\ RowStands
       /\ \/ v < row[r].version
          \/ /\ row[r].op = op /\ row[r].version = v
             /\ row[r].status \in {"requested", "processing", "retrying", "succeeded"}
    \/ /\ RowPut(r, "requested", "clear", op, v, remote, Nobody)
       /\ \/ row[r].status = "absent"
          \/ /\ v >= row[r].version
             /\ row[r].op = op /\ row[r].version = v =>
                    row[r].status \notin {"requested", "processing", "retrying", "succeeded"}

LEMMA RequestedRequests ==
    ASSUME RowShape, NEW r \in Resource, NEW op, NEW v \in Nat, NEW remote,
           row' = [row EXCEPT ![r] = Requested(r, op, v, remote)]
    PROVE  Requests(r, op, v, remote)
<1> DEFINE new == [NoRow EXCEPT !.status = "requested", !.op = op, !.version = v,
                       !.remote = remote]
           kept == /\ row[r].status # "absent"
                   /\ \/ v < row[r].version
                      \/ /\ Generation(row[r]) = <<op, v>>
                         /\ row[r].status \in {"requested", "processing", "retrying", "succeeded"}
<1>1. Generation(row[r]) = <<op, v>> <=> row[r].op = op /\ row[r].version = v
    BY DEF Generation
<1>2. row[r].version \in Nat
    BY DEF RowShape
<1>3. CASE kept
    <2>1. row' = [row EXCEPT ![r] = row[r]]
        BY <1>3 DEF Requested
    <2>2. RowStands
        BY <2>1 DEF RowShape, RowStands
    <2> QED
        BY <1>1, <1>3, <2>2 DEF Requests
<1>4. CASE ~kept
    <2>1. row' = [row EXCEPT ![r] = new]
        BY <1>4 DEF Requested
    <2>2. /\ DOMAIN new = RowFields /\ new.status = "requested" /\ new.state = "clear"
          /\ new.op = op /\ new.version = v /\ new.remote = remote /\ new.owner = Nobody
        BY DEF NoRow, RowFields
    <2> HIDE DEF new
    <2>3. RowPut(r, "requested", "clear", op, v, remote, Nobody)
        BY <2>1, <2>2 DEF RowShape, RowPut
    <2> QED
        BY <1>1, <1>2, <1>4, <2>3 DEF Requests
<1> QED
    BY <1>3, <1>4

-----------------------------------------------------------------------------
\* What the provider makes

\* One more answer, under the key of the run's generation.
Adds(w, r) ==
    \E n \in Nat \ {0} :
        /\ n = Len(made) + 1
        /\ n \notin DOMAIN made /\ DOMAIN made' = DOMAIN made \cup {n}
        /\ \A x \in DOMAIN made : made'[x] = made[x]
        /\ made'[n].res = r
        /\ made'[n].key = <<work[w][r].op, work[w][r].version>>

LEMMA MadeAdds ==
    ASSUME Shapes, NEW w \in Worker, NEW r \in Resource, made' = Made(w, r)
    PROVE  Adds(w, r) /\ (\E S : made' \in Seq(S))
<1> DEFINE new == [res |-> r, key |-> <<work[w][r].op, work[w][r].version>>]
<1>1. PICK S : made \in Seq(S)
    BY DEF Shapes
<1>2. made' = Append(made, new)
    BY DEF Made, Generation
<1>3. new.res = r /\ new.key = <<work[w][r].op, work[w][r].version>>
    OBVIOUS
<1> HIDE DEF new
<1>4. made \in Seq(S \cup {new})
    BY <1>1
<1>5. /\ made' \in Seq(S \cup {new})
      /\ Len(made) \in Nat /\ DOMAIN made = 1..Len(made)
      /\ Len(made') = Len(made) + 1 /\ DOMAIN made' = 1..Len(made')
      /\ \A x \in 1..Len(made) : made'[x] = made[x]
      /\ made'[Len(made) + 1] = new
    BY <1>2, <1>4
<1>6. Adds(w, r)
    BY <1>3, <1>5 DEF Adds
<1> QED
    BY <1>5, <1>6

LEMMA AnswersAreIds ==
    ASSUME Shapes
    PROVE  Len(made) + 1 # 0 /\ \A x \in DOMAIN made : x # 0
<1>1. PICK S : made \in Seq(S)
    BY DEF Shapes
<1> QED
    BY <1>1

-----------------------------------------------------------------------------
\* Initially

LEMMA CatalogInvInit == Init => CatalogInv
<1> SUFFICES ASSUME Init PROVE CatalogInv
    OBVIOUS
<1>1. PICK done \in {{}, {"product"}, Resource} :
          /\ \A r \in done : "create" \in provider.supports[r]
          /\ row = [r \in Resource |-> IF r \in done THEN Synchronized(r) ELSE NoRow]
          /\ made = [x \in {First[r] : r \in done} |->
                        [res |-> CHOOSE r \in done : First[r] = x, key |-> <<"create", 1>>]]
    BY DEF Init
<1>2. First["product"] = 1 /\ First["price"] = 2
    BY DEF First
<1>3. ASSUME NEW r \in Resource
      PROVE  /\ DOMAIN row[r] = RowFields /\ row[r].version \in Nat
             /\ row[r].status # "absent" => row[r].op = "create"
             /\ row[r].status = "succeeded" => row[r].remote # 0
             /\ row[r].remote # 0 <=> r \in done
    BY <1>1, <1>2 DEF Synchronized, NoRow, RowFields, Resource
<1>4. RowShape
    BY <1>1, <1>3 DEF RowShape
<1>5. Frames /\ \A w \in Worker, r \in Resource :
                  work[w][r].pc = "idle" /\ work[w][r].remote = 0 /\ work[w][r].answer = 0
    BY RestingFrame DEF Init, Frames
<1>6. AskShape /\ \A c \in Caller : ask[c].pc = "idle" /\ ask[c].remote = 0
    <2>1. /\ ask = [c \in Caller |-> Silent] /\ DOMAIN Silent = AskFields
          /\ Silent.pc = "idle" /\ Silent.res = "product" /\ Silent.version = 0
          /\ Silent.remote = 0
        BY DEF Init, Silent, AskFields
    <2> QED
        BY <2>1 DEF AskShape, Resource
<1>7. \E S : made \in Seq(S)
    <2> DEFINE S == {made[x] : x \in DOMAIN made}
    <2>1. {First[r] : r \in done} \in {1..0, 1..1, 1..2}
        <3>1. CASE done = {}
            BY <3>1
        <3>2. CASE done = {"product"}
            BY <3>2, <1>2
        <3>3. CASE done = Resource
            BY <3>3, <1>2 DEF Resource
        <3> QED
            BY <1>1, <3>1, <3>2, <3>3
    <2>2. PICK n \in Nat : DOMAIN made = 1..n
        BY <1>1, <2>1
    <2>3. made \in [1..n -> S]
        BY <1>1, <2>2
    <2>4. made \in Seq(S)
        BY <2>2, <2>3
    <2> QED
        BY <2>4
<1>8. /\ \A x \in DOMAIN made : made[x].res \in done
      /\ \A x, y \in DOMAIN made : made[x] = made[y] => x = y
    <2>1. ASSUME NEW x \in DOMAIN made
          PROVE  made[x].res \in done /\ First[made[x].res] = x
        <3>1. \E r \in done : First[r] = x
            BY <1>1
        <3> QED
            BY <1>1, <3>1
    <2> QED
        BY <2>1
<1>9. binding = [r \in Resource |-> row[r].remote] /\ learned = bound
    BY DEF Init
<1>10. Shapes
    BY <1>4, <1>5, <1>6, <1>7, <1>9 DEF Shapes, Init
<1>11. UpdateNamed
    BY <1>3, <1>6 DEF UpdateNamed
<1>12. RunKnows /\ ParentBound /\ MadeSupported
    BY <1>1, <1>3, <1>5, <1>6, <1>8, <1>9
    DEF RunKnows, ParentBound, MadeSupported, Unclaimed, Owing, Calling, Waits, Resource
<1>13. Nested
    BY <1>5 DEF Nested, Resource
<1>14. SucceededIsBound /\ EvidenceOwed
    BY <1>3, <1>9 DEF SucceededIsBound, EvidenceOwed
<1>15. MadeIsClosed
    BY <1>3, <1>8, <1>9 DEF MadeIsClosed, Blind
<1>16. CreatorIsFirst /\ CreatorIsAlone /\ CallsBlindly
    BY <1>5 DEF CreatorIsFirst, CreatorIsAlone, CallsBlindly, MayCreate
<1>17. FirstCreateOnce
    BY <1>8 DEF FirstCreateOnce
<1> QED
    BY <1>10, <1>11, <1>12, <1>13, <1>14, <1>15, <1>16, <1>17
    DEF CatalogInv, RunInv, CreateInv

-----------------------------------------------------------------------------
\* When the creates are safe: a step that makes nothing

\* No run comes to a point from which it may create.
Quiet ==
    \A w \in Worker, r \in Resource :
        /\ MayCreate(w, r)' =>
               /\ MayCreate(w, r)
               /\ work'[w][r].op = work[w][r].op /\ work'[w][r].version = work[w][r].version
        /\ work'[w][r].pc = "calling" /\ binding'[r] = 0 => work'[w][r].remote = 0

\* What was made stays closed, and a run that may create keeps its row.
Shut(r) ==
    \/ row[r].status = "processing" \/ Closed(r)
    \/ row[r].status = "retrying" /\ row[r].remote # 0
Owns(w, r) == row[r].status = "processing" /\ row[r].owner = w

GoesOn(r) ==
    /\ row[r].status # "absent" /\ row[r].op = "create" =>
           /\ row'[r].status # "absent" /\ row'[r].op = "create"
           /\ row[r].version <= row'[r].version
    /\ row[r].status # "absent" /\ row[r].op = "create" /\ row'[r].version = row[r].version =>
           /\ \A x \in DOMAIN made :
                  made[x].res = r /\ made[x].key[2] = row[r].version /\ Shut(r) => Shut(r)'
           /\ \A w \in Worker :
                  /\ MayCreate(w, r)'
                  /\ work[w][r].version = row[r].version
                  /\ row[r].remote = 0 /\ (Owns(w, r) \/ Closed(r))
                  => row'[r].remote = 0 /\ (Owns(w, r)' \/ Closed(r)')

LEMMA CreatesGoOn ==
    ASSUME RowShape, RowShape', CreateInv, UNCHANGED <<provider, made>>, Quiet,
           \A r \in Resource : Blind(r)' => Blind(r) /\ GoesOn(r)
    PROVE  CreateInv'
<1>1. MadeIsClosed'
    <2> SUFFICES ASSUME NEW r \in Resource, NEW x \in DOMAIN made, Blind(r)', made[x].res = r
                 PROVE  /\ made[x].key[1] = "create"
                        /\ Reached(r, made[x].key[2])'
                        /\ made[x].key[2] = row'[r].version => Shut(r)'
        BY DEF MadeIsClosed, Shut
    <2>1. /\ made[x].key[1] = "create"
          /\ Reached(r, made[x].key[2])
          /\ made[x].key[2] = row[r].version => Shut(r)
        BY DEF CreateInv, MadeIsClosed, Shut
    <2> QED
        BY <2>1 DEF Reached, GoesOn, RowShape
<1>2. CreatorIsFirst'
    <2> SUFFICES ASSUME NEW w \in Worker, NEW r \in Resource, Blind(r)', MayCreate(w, r)'
                 PROVE  /\ work'[w][r].op = "create"
                        /\ Reached(r, work[w][r].version)'
                        /\ \A x \in DOMAIN made :
                               made[x].res = r => made[x].key[2] # work'[w][r].version
                        /\ work'[w][r].version = row'[r].version =>
                               row'[r].remote = 0 /\ (Holds(w, r)' \/ Closed(r)')
        BY DEF CreatorIsFirst, Reached
    <2>1. /\ MayCreate(w, r) /\ Blind(r) /\ GoesOn(r)
          /\ work'[w][r].op = work[w][r].op /\ work'[w][r].version = work[w][r].version
        BY DEF Quiet
    <2>2. /\ work[w][r].op = "create"
          /\ Reached(r, work[w][r].version)
          /\ \A x \in DOMAIN made : made[x].res = r => made[x].key[2] # work[w][r].version
          /\ work[w][r].version = row[r].version =>
                 row[r].remote = 0 /\ (Owns(w, r) \/ Closed(r))
        BY <2>1 DEF CreateInv, CreatorIsFirst, Owns, Holds
    <2>3. Reached(r, work[w][r].version)'
        BY <2>1, <2>2 DEF Reached, GoesOn, RowShape
    <2>4. work[w][r].version = row'[r].version =>
              row'[r].remote = 0 /\ (Owns(w, r)' \/ Closed(r)')
        BY <2>1, <2>2 DEF Reached, GoesOn, RowShape
    <2>5. work'[w][r].version = row'[r].version /\ Owns(w, r)' => Holds(w, r)'
        BY <2>1, <2>2, <2>3 DEF Owns, Holds, Generation, Reached
    <2> QED
        BY <2>1, <2>2, <2>3, <2>4, <2>5
<1>3. CreatorIsAlone'
    BY DEF CreateInv, CreatorIsAlone, Quiet
<1>4. CallsBlindly'
    BY DEF CallsBlindly, Quiet
<1>5. FirstCreateOnce'
    BY DEF CreateInv, FirstCreateOnce, Blind
<1> QED
    BY <1>1, <1>2, <1>3, <1>4, <1>5 DEF CreateInv

SameRows ==
    \A r \in Resource :
        /\ row'[r].status = row[r].status /\ row'[r].state = row[r].state
        /\ row'[r].op = row[r].op /\ row'[r].version = row[r].version
        /\ row'[r].remote = row[r].remote /\ row'[r].owner = row[r].owner

LEMMA CreatingStill ==
    ASSUME RowShape, RowShape', CreateInv, UNCHANGED <<provider, binding, made, overtaken>>,
           SameRows, Quiet
    PROVE  CreateInv'
<1>1. \A r \in Resource : Blind(r)' => Blind(r) /\ GoesOn(r)
    BY DEF Blind, GoesOn, Shut, Closed, Owns, SameRows, RowShape
<1> QED
    BY <1>1, CreatesGoOn

-----------------------------------------------------------------------------
\* Steps that move only a run

LEMMA StandingStill ==
    ASSUME CatalogInv, UNCHANGED <<provider, version, row, binding, ask, made, overtaken>>,
           Frames', Quiet
    PROVE  /\ Shapes' /\ UpdateNamed' /\ ParentBound' /\ MadeSupported'
           /\ SucceededIsBound' /\ CreateInv'
<1>1. Shapes'
    BY DEF CatalogInv, RunInv, Shapes, RowShape, AskShape
<1>2. UpdateNamed' /\ ParentBound' /\ MadeSupported' /\ SucceededIsBound'
    BY DEF CatalogInv, RunInv, UpdateNamed, ParentBound, MadeSupported, SucceededIsBound
<1>3. CreateInv'
    BY <1>1, CreatingStill DEF CatalogInv, RunInv, Shapes, SameRows
<1> QED
    BY <1>1, <1>2, <1>3

LEMMA CheckKeeps ==
    ASSUME CatalogInv, NEW w \in Worker, NEW r \in Resource, Check(w, r)
    PROVE  CatalogInv'
<1>1. UNCHANGED <<provider, version, row, binding, ask, made, overtaken>>
    BY DEF Check, atProvider, callers
<1>2. /\ work[w][r].pc = "begun"
      /\ \/ Goes(w, r, "claiming") \/ Backed(w, r, "awaiting") \/ Backed(w, r, "failing")
      /\ UNCHANGED <<learned, bound, orphaned, lost>>
    BY GotoMoves, BackMoves
    DEF Check, At, evidence, Returns, Throws, CatalogInv, RunInv, Shapes
<1>3. Frames' /\ RunKnows'
    BY <1>1, <1>2
    DEF RunKnows, Unclaimed, Owing, Calling, Waits, RunInv, CatalogInv, Moved, Goes,
        Backed, FrameIs, Resource
<1>4. Nested'
    BY <1>1, <1>2 DEF Nested, RunInv, CatalogInv, Moved, Goes, Backed, FrameIs, Resource
<1>5. EvidenceOwed'
    BY <1>1, <1>2
    DEF EvidenceOwed, RunKnows, Nested, Owing, RunInv, CatalogInv, Moved, Goes, Backed,
        FrameIs, Resource
<1>6. Quiet
    BY <1>1, <1>2
    DEF Quiet, MayCreate, CreateInv, CallsBlindly, RunInv, CatalogInv, Moved, Goes,
        Backed, FrameIs, Resource
<1> QED
    BY <1>1, <1>3, <1>4, <1>5, <1>6, StandingStill DEF CatalogInv, RunInv

LEMMA SkipThrowsKeeps ==
    ASSUME CatalogInv, NEW w \in Worker, NEW r \in Resource, SkipThrows(w, r)
    PROVE  CatalogInv'
<1>1. UNCHANGED <<provider, version, row, binding, ask, made, overtaken>>
    BY DEF SkipThrows, atProvider, callers
<1>2. /\ work[w][r].pc \in {"skipping", "unavailable"}
      /\ Goes(w, r, "failing") \/ Backed(w, r, "failing")
      /\ UNCHANGED <<learned, bound, orphaned, lost>>
    BY GotoMoves, BackMoves
    DEF SkipThrows, At, evidence, Returns, Throws, CatalogInv, RunInv, Shapes
<1>3. Frames' /\ RunKnows'
    BY <1>1, <1>2
    DEF RunKnows, Unclaimed, Owing, Calling, Waits, RunInv, CatalogInv, Moved, Goes,
        Backed, FrameIs, Resource
<1>4. Nested'
    BY <1>1, <1>2 DEF Nested, RunInv, CatalogInv, Moved, Goes, Backed, FrameIs, Resource
<1>5. EvidenceOwed'
    BY <1>1, <1>2
    DEF EvidenceOwed, RunKnows, Nested, Owing, RunInv, CatalogInv, Moved, Goes, Backed,
        FrameIs, Resource
<1>6. Quiet
    BY <1>1, <1>2
    DEF Quiet, MayCreate, CreateInv, CallsBlindly, RunInv, CatalogInv, Moved, Goes,
        Backed, FrameIs, Resource
<1> QED
    BY <1>1, <1>3, <1>4, <1>5, <1>6, StandingStill DEF CatalogInv, RunInv

LEMMA EnsureThrowsKeeps ==
    ASSUME CatalogInv, NEW w \in Worker, EnsureThrows(w)
    PROVE  CatalogInv'
<1>1. UNCHANGED <<provider, version, row, binding, ask, made, overtaken>>
    BY DEF EnsureThrows, atProvider, callers
<1>2. /\ work[w]["product"].pc = "requesting"
      /\ Backed(w, "product", "failing")
      /\ UNCHANGED <<learned, bound, orphaned, lost>>
    BY GotoMoves, BackMoves
    DEF EnsureThrows, At, evidence, Returns, Throws, CatalogInv, RunInv, Shapes, Resource
<1>3. Frames' /\ RunKnows'
    BY <1>1, <1>2
    DEF RunKnows, Unclaimed, Owing, Calling, Waits, RunInv, CatalogInv, Moved, Goes,
        Backed, FrameIs, Resource
<1>4. Nested'
    BY <1>1, <1>2 DEF Nested, RunInv, CatalogInv, Moved, Goes, Backed, FrameIs, Resource
<1>5. EvidenceOwed'
    BY <1>1, <1>2
    DEF EvidenceOwed, RunKnows, Nested, Owing, RunInv, CatalogInv, Moved, Goes, Backed,
        FrameIs, Resource
<1>6. Quiet
    BY <1>1, <1>2
    DEF Quiet, MayCreate, CreateInv, CallsBlindly, RunInv, CatalogInv, Moved, Goes,
        Backed, FrameIs, Resource
<1> QED
    BY <1>1, <1>3, <1>4, <1>5, <1>6, StandingStill DEF CatalogInv, RunInv

LEMMA AwaitBindingKeeps ==
    ASSUME CatalogInv, NEW w \in Worker, AwaitBinding(w)
    PROVE  CatalogInv'
<1>1. UNCHANGED <<provider, version, row, binding, ask, made, overtaken>>
    BY DEF AwaitBinding, atProvider, callers
<1>2. /\ work[w]["price"].pc = "awaiting"
      /\ \/ Goes(w, "price", "recovering") /\ binding["product"] # 0
         \/ Goes(w, "price", "looking")
      /\ UNCHANGED <<learned, bound, orphaned, lost>>
    BY GotoMoves, BackMoves
    DEF AwaitBinding, At, evidence, Returns, Throws, CatalogInv, RunInv, Shapes, Resource
<1>3. Frames' /\ RunKnows'
    BY <1>1, <1>2
    DEF RunKnows, Unclaimed, Owing, Calling, Waits, RunInv, CatalogInv, Moved, Goes,
        Backed, FrameIs, Resource
<1>4. Nested'
    BY <1>1, <1>2 DEF Nested, RunInv, CatalogInv, Moved, Goes, Backed, FrameIs, Resource
<1>5. EvidenceOwed'
    BY <1>1, <1>2
    DEF EvidenceOwed, RunKnows, Nested, Owing, RunInv, CatalogInv, Moved, Goes, Backed,
        FrameIs, Resource
<1>6. Quiet
    BY <1>1, <1>2
    DEF Quiet, MayCreate, CreateInv, CallsBlindly, RunInv, CatalogInv, Moved, Goes,
        Backed, FrameIs, Resource
<1> QED
    BY <1>1, <1>3, <1>4, <1>5, <1>6, StandingStill DEF CatalogInv, RunInv

LEMMA AwaitRowKeeps ==
    ASSUME CatalogInv, NEW w \in Worker, AwaitRow(w)
    PROVE  CatalogInv'
<1>1. UNCHANGED <<provider, version, row, binding, ask, made, overtaken>>
    BY DEF AwaitRow, atProvider, callers
<1>2. /\ work[w]["price"].pc = "looking"
      /\ Goes(w, "price", "awaiting") \/ Goes(w, "price", "unavailable")
      /\ UNCHANGED <<learned, bound, orphaned, lost>>
    BY GotoMoves, BackMoves
    DEF AwaitRow, At, evidence, Returns, Throws, CatalogInv, RunInv, Shapes, Resource
<1>3. Frames' /\ RunKnows'
    BY <1>1, <1>2
    DEF RunKnows, Unclaimed, Owing, Calling, Waits, RunInv, CatalogInv, Moved, Goes,
        Backed, FrameIs, Resource
<1>4. Nested'
    BY <1>1, <1>2 DEF Nested, RunInv, CatalogInv, Moved, Goes, Backed, FrameIs, Resource
<1>5. EvidenceOwed'
    BY <1>1, <1>2
    DEF EvidenceOwed, RunKnows, Nested, Owing, RunInv, CatalogInv, Moved, Goes, Backed,
        FrameIs, Resource
<1>6. Quiet
    BY <1>1, <1>2
    DEF Quiet, MayCreate, CreateInv, CallsBlindly, RunInv, CatalogInv, Moved, Goes,
        Backed, FrameIs, Resource
<1> QED
    BY <1>1, <1>3, <1>4, <1>5, <1>6, StandingStill DEF CatalogInv, RunInv

LEMMA UpdateThrowsKeeps ==
    ASSUME CatalogInv, NEW w \in Worker, NEW r \in Resource, UpdateThrows(w, r)
    PROVE  CatalogInv'
<1>1. UNCHANGED <<provider, version, row, binding, ask, made, overtaken>>
    BY DEF UpdateThrows, atProvider, callers
<1>2. /\ work[w][r].pc = "calling"
      /\ Goes(w, r, "failing")
      /\ UNCHANGED <<learned, bound, orphaned, lost>>
    BY GotoMoves, BackMoves
    DEF UpdateThrows, At, evidence, Returns, Throws, CatalogInv, RunInv, Shapes
<1>3. Frames' /\ RunKnows'
    BY <1>1, <1>2
    DEF RunKnows, Unclaimed, Owing, Calling, Waits, RunInv, CatalogInv, Moved, Goes,
        Backed, FrameIs, Resource
<1>4. Nested'
    BY <1>1, <1>2 DEF Nested, RunInv, CatalogInv, Moved, Goes, Backed, FrameIs, Resource
<1>5. EvidenceOwed'
    BY <1>1, <1>2
    DEF EvidenceOwed, RunKnows, Nested, Owing, RunInv, CatalogInv, Moved, Goes, Backed,
        FrameIs, Resource
<1>6. Quiet
    BY <1>1, <1>2
    DEF Quiet, MayCreate, CreateInv, CallsBlindly, RunInv, CatalogInv, Moved, Goes,
        Backed, FrameIs, Resource
<1> QED
    BY <1>1, <1>3, <1>4, <1>5, <1>6, StandingStill DEF CatalogInv, RunInv

LEMMA RememberThrowsKeeps ==
    ASSUME CatalogInv, NEW w \in Worker, NEW r \in Resource, RememberThrows(w, r)
    PROVE  CatalogInv'
<1>1. UNCHANGED <<provider, version, row, binding, ask, made, overtaken>>
    BY DEF RememberThrows, atProvider, callers
<1>2. /\ work[w][r].pc = "remembering"
      /\ Goes(w, r, "reporting")
      /\ UNCHANGED <<learned, bound, orphaned, lost>>
    BY GotoMoves, BackMoves
    DEF RememberThrows, At, evidence, Returns, Throws, CatalogInv, RunInv, Shapes
<1>3. Frames' /\ RunKnows'
    BY <1>1, <1>2
    DEF RunKnows, Unclaimed, Owing, Calling, Waits, RunInv, CatalogInv, Moved, Goes,
        Backed, FrameIs, Resource
<1>4. Nested'
    BY <1>1, <1>2 DEF Nested, RunInv, CatalogInv, Moved, Goes, Backed, FrameIs, Resource
<1>5. EvidenceOwed'
    BY <1>1, <1>2
    DEF EvidenceOwed, RunKnows, Nested, Owing, RunInv, CatalogInv, Moved, Goes, Backed,
        FrameIs, Resource
<1>6. Quiet
    BY <1>1, <1>2
    DEF Quiet, MayCreate, CreateInv, CallsBlindly, RunInv, CatalogInv, Moved, Goes,
        Backed, FrameIs, Resource
<1> QED
    BY <1>1, <1>3, <1>4, <1>5, <1>6, StandingStill DEF CatalogInv, RunInv

LEMMA FailThrowsKeeps ==
    ASSUME CatalogInv, NEW w \in Worker, NEW r \in Resource, FailThrows(w, r)
    PROVE  CatalogInv'
<1>1. UNCHANGED <<provider, version, row, binding, ask, made, overtaken>>
    BY DEF FailThrows, atProvider, callers
<1>2. /\ work[w][r].pc = "failing"
      /\ Backed(w, r, "failing")
      /\ UNCHANGED <<learned, bound, orphaned, lost>>
    BY GotoMoves, BackMoves
    DEF FailThrows, At, evidence, Returns, Throws, CatalogInv, RunInv, Shapes
<1>3. Frames' /\ RunKnows'
    BY <1>1, <1>2
    DEF RunKnows, Unclaimed, Owing, Calling, Waits, RunInv, CatalogInv, Moved, Goes,
        Backed, FrameIs, Resource
<1>4. Nested'
    BY <1>1, <1>2 DEF Nested, RunInv, CatalogInv, Moved, Goes, Backed, FrameIs, Resource
<1>5. EvidenceOwed'
    BY <1>1, <1>2
    DEF EvidenceOwed, RunKnows, Nested, Owing, RunInv, CatalogInv, Moved, Goes, Backed,
        FrameIs, Resource
<1>6. Quiet
    BY <1>1, <1>2
    DEF Quiet, MayCreate, CreateInv, CallsBlindly, RunInv, CatalogInv, Moved, Goes,
        Backed, FrameIs, Resource
<1> QED
    BY <1>1, <1>3, <1>4, <1>5, <1>6, StandingStill DEF CatalogInv, RunInv

LEMMA ReportKeeps ==
    ASSUME CatalogInv, NEW w \in Worker, NEW r \in Resource, Report(w, r)
    PROVE  CatalogInv'
<1>1. UNCHANGED <<provider, version, row, binding, ask, made, overtaken>>
    BY DEF Report, atProvider, callers
<1>2. /\ \/ work[w][r].pc = "superseded" /\ Backed(w, r, "awaiting")
         \/ work[w][r].pc = "reporting" /\ Goes(w, r, "failing")
      /\ UNCHANGED <<learned, bound, lost>> /\ orphaned' = orphaned \cup {work[w][r].answer}
    BY GotoMoves, BackMoves
    DEF Report, At, evidence, Returns, Throws, CatalogInv, RunInv, Shapes, AfterReport
<1>3. Frames' /\ RunKnows'
    BY <1>1, <1>2
    DEF RunKnows, Unclaimed, Owing, Calling, Waits, RunInv, CatalogInv, Moved, Goes,
        Backed, FrameIs, Resource
<1>4. Nested'
    BY <1>1, <1>2 DEF Nested, RunInv, CatalogInv, Moved, Goes, Backed, FrameIs, Resource
<1>5. EvidenceOwed'
    BY <1>1, <1>2
    DEF EvidenceOwed, RunKnows, Nested, Owing, RunInv, CatalogInv, Moved, Goes, Backed,
        FrameIs, Resource
<1>6. Quiet
    BY <1>1, <1>2
    DEF Quiet, MayCreate, CreateInv, CallsBlindly, RunInv, CatalogInv, Moved, Goes,
        Backed, FrameIs, Resource
<1> QED
    BY <1>1, <1>3, <1>4, <1>5, <1>6, StandingStill DEF CatalogInv, RunInv

LEMMA ReportThrowsKeeps ==
    ASSUME CatalogInv, NEW w \in Worker, NEW r \in Resource, ReportThrows(w, r)
    PROVE  CatalogInv'
<1>1. UNCHANGED <<provider, version, row, binding, ask, made, overtaken>>
    BY DEF ReportThrows, atProvider, callers
<1>2. /\ \/ work[w][r].pc = "superseded" /\ Backed(w, r, "awaiting")
         \/ work[w][r].pc = "reporting" /\ Goes(w, r, "failing")
      /\ UNCHANGED <<learned, bound, orphaned>> /\ lost' = lost \cup {work[w][r].answer}
    BY GotoMoves, BackMoves
    DEF ReportThrows, At, evidence, Returns, Throws, CatalogInv, RunInv, Shapes,
        AfterReport
<1>3. Frames' /\ RunKnows'
    BY <1>1, <1>2
    DEF RunKnows, Unclaimed, Owing, Calling, Waits, RunInv, CatalogInv, Moved, Goes,
        Backed, FrameIs, Resource
<1>4. Nested'
    BY <1>1, <1>2 DEF Nested, RunInv, CatalogInv, Moved, Goes, Backed, FrameIs, Resource
<1>5. EvidenceOwed'
    BY <1>1, <1>2
    DEF EvidenceOwed, RunKnows, Nested, Owing, RunInv, CatalogInv, Moved, Goes, Backed,
        FrameIs, Resource
<1>6. Quiet
    BY <1>1, <1>2
    DEF Quiet, MayCreate, CreateInv, CallsBlindly, RunInv, CatalogInv, Moved, Goes,
        Backed, FrameIs, Resource
<1> QED
    BY <1>1, <1>3, <1>4, <1>5, <1>6, StandingStill DEF CatalogInv, RunInv

LEMMA TakeKeeps ==
    ASSUME CatalogInv, NEW w \in Worker, NEW r \in Resource, Take(w, r)
    PROVE  CatalogInv'
<1>1. UNCHANGED <<provider, version, row, binding, ask, made, overtaken>>
    BY DEF Take, atProvider, callers
<1>2. /\ \A q \in Resource : work[w][q].pc = "idle"
      /\ \E op, v : Moved(w, r, "begun", op, v, 0, 0)
      /\ UNCHANGED <<learned, bound, orphaned, lost>>
    <2>1. \A q \in Resource : work[w][q] = Resting /\ work[w][q].pc = "idle"
        BY RestingFrame DEF Take
    <2>2. PICK g \in dispatched[r] :
              work' = [work EXCEPT ![w][r].pc = "begun", ![w][r].op = g[1], ![w][r].version = g[2]]
        BY DEF Take
    <2> DEFINE frame == [work[w][r] EXCEPT !.pc = "begun", !.op = g[1], !.version = g[2]]
    <2>3. /\ DOMAIN frame = FrameFields /\ frame.pc = "begun"
          /\ frame.op = g[1] /\ frame.version = g[2]
          /\ frame.remote = 0 /\ frame.answer = 0
        BY <2>1, RestingFrame DEF FrameFields
    <2>4. work' = [work EXCEPT ![w][r] = frame]
        BY <2>2 DEF CatalogInv, RunInv, Shapes, Frames
    <2> HIDE DEF frame
    <2> QED
        <3>1. Moved(w, r, frame.pc, frame.op, frame.version, frame.remote, frame.answer)
            BY <2>3, <2>4, FrameMoves DEF CatalogInv, RunInv, Shapes
        <3>2. Moved(w, r, "begun", g[1], g[2], 0, 0)
            BY <2>3, <3>1
        <3> QED
            BY <2>1, <3>2 DEF Take, evidence
<1>3. Frames' /\ RunKnows'
    BY <1>1, <1>2
    DEF RunKnows, Unclaimed, Owing, Calling, Waits, RunInv, CatalogInv, Moved, Goes,
        Backed, FrameIs, Resource
<1>4. Nested'
    BY <1>1, <1>2 DEF Nested, RunInv, CatalogInv, Moved, Goes, Backed, FrameIs, Resource
<1>5. EvidenceOwed'
    BY <1>1, <1>2
    DEF EvidenceOwed, RunKnows, Nested, Owing, RunInv, CatalogInv, Moved, Goes, Backed,
        FrameIs, Resource
<1>6. Quiet
    BY <1>1, <1>2
    DEF Quiet, MayCreate, CreateInv, CallsBlindly, RunInv, CatalogInv, Moved, Goes,
        Backed, FrameIs, Resource
<1> QED
    BY <1>1, <1>3, <1>4, <1>5, <1>6, StandingStill DEF CatalogInv, RunInv

\* The product's run begins inside the price's.
Entered(w) ==
    /\ Frames'
    /\ \A u \in Worker, q \in Resource : u # w => work'[u][q] = work[u][q]
    /\ FrameIs(w, "price", "ensuring", work[w]["price"].op, work[w]["price"].version,
               work[w]["price"].remote, work[w]["price"].answer)
    /\ work'[w]["product"].pc \in {"begun", "requesting"}
    /\ work'[w]["product"].op = "create"
    /\ work'[w]["product"].version = version["product"]

LEMMA EnsureKeeps ==
    ASSUME CatalogInv, NEW w \in Worker, Ensure(w)
    PROVE  CatalogInv'
<1>1. UNCHANGED <<provider, version, row, binding, ask, made, overtaken>>
    BY DEF Ensure, atProvider, callers
<1>2. /\ work[w]["price"].pc = "parent"
      /\ \/ Goes(w, "price", "recovering") /\ binding["product"] # 0
         \/ Entered(w) /\ binding["product"] = 0
      /\ UNCHANGED <<learned, bound, orphaned, lost>>
    <2> DEFINE label == IF Generation(row["product"]) = <<"create", version["product"]>>
                         THEN "begun" ELSE "requesting"
                outer == [work[w]["price"] EXCEPT !.pc = "ensuring"]
                inner == [Resting EXCEPT !.op = "create", !.version = version["product"],
                              !.pc = label]
    <2>1. "price" \in Resource /\ "product" \in Resource
        BY DEF Resource
    <2>2. /\ DOMAIN outer = FrameFields /\ outer.pc = "ensuring"
          /\ outer.op = work[w]["price"].op /\ outer.version = work[w]["price"].version
          /\ outer.remote = work[w]["price"].remote /\ outer.answer = work[w]["price"].answer
        BY <2>1 DEF CatalogInv, RunInv, Shapes, Frames, FrameFields
    <2>3. /\ DOMAIN inner = FrameFields /\ inner.pc = label /\ label \in {"begun", "requesting"}
          /\ inner.op = "create" /\ inner.version = version["product"]
        BY DEF Resting, FrameFields
    <2>4. \/ Goto(w, "price", "recovering") /\ binding["product"] # 0
          \/ binding["product"] = 0 /\ work' = [work EXCEPT ![w] = [product |-> inner, price |-> outer]]
        BY DEF Ensure, CatalogInv, RunInv, Shapes, Frames
    <2> HIDE DEF inner, outer
    <2>5. CASE /\ binding["product"] = 0
                /\ work' = [work EXCEPT ![w] = [product |-> inner, price |-> outer]]
        <3>1. /\ DOMAIN work' = Worker /\ DOMAIN work'[w] = Resource
              /\ work'[w]["price"] = outer /\ work'[w]["product"] = inner
              /\ \A u \in Worker : u # w => work'[u] = work[u]
            BY <2>5 DEF CatalogInv, RunInv, Shapes, Frames, Resource
        <3>2. Entered(w)
            BY <2>1, <2>2, <2>3, <3>1
            DEF Entered, FrameIs, CatalogInv, RunInv, Shapes, Frames, Resource
        <3> QED
            BY <2>5, <3>2 DEF Ensure, At, evidence
    <2>6. CASE Goto(w, "price", "recovering") /\ binding["product"] # 0
        BY <2>1, <2>6, GotoMoves DEF Ensure, At, evidence, CatalogInv, RunInv, Shapes
    <2> QED
        BY <2>4, <2>5, <2>6
<1>3. Frames' /\ RunKnows'
    BY <1>1, <1>2
    DEF RunKnows, Unclaimed, Owing, Calling, Waits, RunInv, CatalogInv, Moved, Goes,
        Backed, FrameIs, Resource, Entered, Shapes
<1>4. Nested'
    BY <1>1, <1>2
    DEF Nested, RunInv, CatalogInv, Moved, Goes, Backed, FrameIs, Resource, Entered,
        Shapes
<1>5. EvidenceOwed'
    BY <1>1, <1>2
    DEF EvidenceOwed, RunKnows, Nested, Owing, RunInv, CatalogInv, Moved, Goes, Backed,
        FrameIs, Resource, Entered, Shapes
<1>6. Quiet
    BY <1>1, <1>2
    DEF Quiet, MayCreate, CreateInv, CallsBlindly, RunInv, CatalogInv, Moved, Goes,
        Backed, FrameIs, Resource, Entered, Shapes
<1> QED
    BY <1>1, <1>3, <1>4, <1>5, <1>6, StandingStill DEF CatalogInv, RunInv

LEMMA RecoverKeeps ==
    ASSUME CatalogInv, NEW w \in Worker, NEW r \in Resource, Recover(w, r)
    PROVE  CatalogInv'
<1>1. UNCHANGED <<provider, version, row, binding, ask, made, overtaken>>
    BY DEF Recover, atProvider, callers
<1>2. /\ work[w][r].pc = "recovering"
      /\ \/ /\ work[w][r].remote # 0 /\ binding[r] = 0
            /\ Moved(w, r, "recommitting", work[w][r].op, work[w][r].version,
                     work[w][r].remote, work[w][r].remote)
         \/ (work[w][r].remote = 0 \/ binding[r] # 0) /\ Goes(w, r, "calling")
      /\ UNCHANGED <<learned, bound, orphaned, lost>>
    <2> DEFINE known == work[w][r].remote # 0 /\ binding[r] = 0
               frame == [work[w][r] EXCEPT !.pc = "recommitting", !.answer = work[w][r].remote]
    <2>1. /\ DOMAIN frame = FrameFields /\ frame.pc = "recommitting"
          /\ frame.op = work[w][r].op /\ frame.version = work[w][r].version
          /\ frame.remote = work[w][r].remote /\ frame.answer = work[w][r].remote
        BY DEF CatalogInv, RunInv, Shapes, Frames, FrameFields
    <2>2. /\ known => work' = [work EXCEPT ![w][r] = frame]
          /\ ~known => Goto(w, r, "calling")
        BY DEF Recover, Goto, CatalogInv, RunInv, Shapes, Frames
    <2> HIDE DEF frame
    <2>3. CASE known
        <3>1. Moved(w, r, frame.pc, frame.op, frame.version, frame.remote, frame.answer)
            BY <2>1, <2>2, <2>3, FrameMoves DEF CatalogInv, RunInv, Shapes
        <3>2. Moved(w, r, "recommitting", work[w][r].op, work[w][r].version,
                    work[w][r].remote, work[w][r].remote)
            BY <2>1, <3>1
        <3> QED
            BY <2>3, <3>2 DEF Recover, At, evidence
    <2>4. CASE ~known
        BY <2>2, <2>4, GotoMoves DEF Recover, At, evidence, CatalogInv, RunInv, Shapes
    <2> QED
        BY <2>3, <2>4
<1>3. Frames' /\ RunKnows'
    BY <1>1, <1>2
    DEF RunKnows, Unclaimed, Owing, Calling, Waits, RunInv, CatalogInv, Moved, Goes,
        Backed, FrameIs, Resource
<1>4. Nested'
    BY <1>1, <1>2 DEF Nested, RunInv, CatalogInv, Moved, Goes, Backed, FrameIs, Resource
<1>5. EvidenceOwed'
    BY <1>1, <1>2
    DEF EvidenceOwed, RunKnows, Nested, Owing, RunInv, CatalogInv, Moved, Goes, Backed,
        FrameIs, Resource
<1>6. Quiet
    BY <1>1, <1>2
    DEF Quiet, MayCreate, CreateInv, CallsBlindly, RunInv, CatalogInv, Moved, Goes,
        Backed, FrameIs, Resource
<1> QED
    BY <1>1, <1>3, <1>4, <1>5, <1>6, StandingStill DEF CatalogInv, RunInv

LEMMA AnsweredMoves ==
    ASSUME Frames, NEW w \in Worker, NEW r \in Resource, NEW x, Answered(w, r, x)
    PROVE  /\ Moved(w, r, "committing", work[w][r].op, work[w][r].version,
                    work[w][r].remote, x)
           /\ learned' = learned \cup {x} /\ UNCHANGED <<bound, orphaned, lost>>
<1> DEFINE frame == [work[w][r] EXCEPT !.pc = "committing", !.answer = x]
<1>1. /\ DOMAIN frame = FrameFields /\ frame.pc = "committing"
      /\ frame.op = work[w][r].op /\ frame.version = work[w][r].version
      /\ frame.remote = work[w][r].remote /\ frame.answer = x
    BY DEF Frames, FrameFields
<1>2. work' = [work EXCEPT ![w][r] = frame]
    BY DEF Answered, Frames
<1> HIDE DEF frame
<1> QED
    BY <1>1, <1>2, FrameMoves DEF Answered

LEMMA UpdateKeeps ==
    ASSUME CatalogInv, NEW w \in Worker, NEW r \in Resource, Update(w, r)
    PROVE  CatalogInv'
<1>1. UNCHANGED <<provider, version, row, binding, ask, made, overtaken>>
    BY DEF Update, atProvider, callers
<1>2. /\ work[w][r].pc = "calling" /\ work[w][r].op = "update"
      /\ \/ Goes(w, r, "failing") /\ UNCHANGED <<learned, bound, orphaned, lost>>
         \/ /\ Moved(w, r, "committing", work[w][r].op, work[w][r].version,
                     work[w][r].remote, work[w][r].remote)
            /\ learned' = learned \cup {work[w][r].remote} /\ UNCHANGED <<bound, orphaned, lost>>
    BY GotoMoves, AnsweredMoves DEF Update, At, evidence, CatalogInv, RunInv, Shapes
<1>3. Frames' /\ RunKnows'
    BY <1>1, <1>2
    DEF RunKnows, Unclaimed, Owing, Calling, Waits, RunInv, CatalogInv, Moved, Goes,
        Backed, FrameIs, Resource
<1>4. Nested'
    BY <1>1, <1>2 DEF Nested, RunInv, CatalogInv, Moved, Goes, Backed, FrameIs, Resource
<1>5. EvidenceOwed'
    BY <1>1, <1>2
    DEF EvidenceOwed, RunKnows, Nested, Owing, RunInv, CatalogInv, Moved, Goes, Backed,
        FrameIs, Resource
<1>6. Quiet
    BY <1>1, <1>2
    DEF Quiet, MayCreate, CreateInv, CallsBlindly, RunInv, CatalogInv, Moved, Goes,
        Backed, FrameIs, Resource
<1> QED
    BY <1>1, <1>3, <1>4, <1>5, <1>6, StandingStill DEF CatalogInv, RunInv

LEMMA CrashKeeps ==
    ASSUME CatalogInv, NEW w \in Worker, Crash(w)
    PROVE  CatalogInv'
<1>1. UNCHANGED <<provider, version, row, binding, ask, made, overtaken>>
    BY DEF Crash, atProvider, callers
<1>2. /\ Frames' /\ \A q \in Resource : FrameIs(w, q, "idle", "none", 0, 0, 0)
      /\ \A u \in Worker, q \in Resource : u # w => work'[u][q] = work[u][q]
      /\ UNCHANGED <<learned, bound, orphaned>> /\ lost' = lost \cup InHand(w)
    <2>1. work' = [work EXCEPT ![w] = Idle]
        BY DEF Crash
    <2>2. DOMAIN work' = Worker /\ work'[w] = Idle /\ \A u \in Worker : u # w => work'[u] = work[u]
        BY <2>1 DEF CatalogInv, RunInv, Shapes, Frames
    <2> QED
        BY <2>2, RestingFrame DEF Crash, CatalogInv, RunInv, Shapes, Frames, FrameIs
<1>3. Frames' /\ RunKnows'
    BY <1>1, <1>2
    DEF RunKnows, Unclaimed, Owing, Calling, Waits, RunInv, CatalogInv, Moved, Goes,
        Backed, FrameIs, Resource, InHand
<1>4. Nested'
    BY <1>1, <1>2
    DEF Nested, RunInv, CatalogInv, Moved, Goes, Backed, FrameIs, Resource, InHand
<1>5. EvidenceOwed'
    BY <1>1, <1>2
    DEF EvidenceOwed, RunKnows, Nested, Owing, RunInv, CatalogInv, Moved, Goes, Backed,
        FrameIs, Resource, InHand
<1>6. Quiet
    BY <1>1, <1>2
    DEF Quiet, MayCreate, CreateInv, CallsBlindly, RunInv, CatalogInv, Moved, Goes,
        Backed, FrameIs, Resource, InHand
<1> QED
    BY <1>1, <1>3, <1>4, <1>5, <1>6, StandingStill DEF CatalogInv, RunInv

-----------------------------------------------------------------------------
\* Steps of the callers and of the environment: no run moves

LEMMA RunsStill ==
    ASSUME CatalogInv, UNCHANGED <<provider, binding, work, evidence>>
    PROVE  Frames' /\ RunKnows' /\ Nested' /\ EvidenceOwed'
BY DEF CatalogInv, RunInv, Shapes, Frames, RunKnows, Nested, EvidenceOwed, evidence

LEMMA QuietStill == ASSUME CatalogInv, UNCHANGED <<work, binding>> PROVE Quiet
BY DEF CatalogInv, CreateInv, CallsBlindly, Quiet, MayCreate

\* A call begins with what it read, or ends.
AskMoved(c, pc, r, op, v, remote) ==
    /\ AskShape'
    /\ ask'[c].pc = pc /\ ask'[c].res = r /\ ask'[c].op = op
    /\ ask'[c].version = v /\ ask'[c].remote = remote
    /\ \A d \in Caller : d # c => ask'[d] = ask[d]

LEMMA AskedMoves ==
    ASSUME AskShape, NEW c \in Caller, NEW pc, NEW r \in Resource, NEW op, NEW v \in Nat,
           NEW remote, Asked(c, pc, r, op, v, remote)
    PROVE  AskMoved(c, pc, r, op, v, remote)
<1> DEFINE new == [pc |-> pc, res |-> r, op |-> op, version |-> v, remote |-> remote]
<1>1. /\ DOMAIN new = AskFields /\ new.pc = pc /\ new.res = r /\ new.op = op
      /\ new.version = v /\ new.remote = remote
    BY DEF AskFields
<1>2. ask' = [ask EXCEPT ![c] = new]
    BY DEF Asked
<1> HIDE DEF new
<1> QED
    BY <1>1, <1>2 DEF AskShape, AskMoved

LEMMA SilentMoves ==
    ASSUME AskShape, NEW c \in Caller, ask' = [ask EXCEPT ![c] = Silent]
    PROVE  AskMoved(c, "idle", "product", "none", 0, 0)
<1>1. /\ DOMAIN Silent = AskFields /\ Silent.pc = "idle" /\ Silent.res = "product"
      /\ Silent.op = "none" /\ Silent.version = 0 /\ Silent.remote = 0
    BY DEF Silent, AskFields
<1> QED
    BY <1>1 DEF AskShape, AskMoved, Resource

LEMMA ReadingKeeps ==
    ASSUME CatalogInv, NEW c \in Caller, NEW pc, NEW r \in Resource, NEW op,
           NEW v \in Nat, NEW remote, Asked(c, pc, r, op, v, remote),
           pc = "requesting" /\ op # "create" => remote # 0 /\ binding[r] # 0,
           pc = "reconciling" => row[r].status # "absent" /\ binding[r] # 0,
           r = "price" /\ binding["product"] = 0 => remote = 0
    PROVE  CatalogInv'
<1>1. /\ UNCHANGED <<provider, version, row, binding, made, overtaken, work, evidence>>
      /\ AskMoved(c, pc, r, op, v, remote)
    BY AskedMoves DEF Asked, atProvider, CatalogInv, RunInv, Shapes
<1>2. Frames' /\ RunKnows' /\ Nested' /\ EvidenceOwed' /\ Quiet /\ SameRows
    BY <1>1, RunsStill, QuietStill DEF SameRows
<1>3. Shapes' /\ CreateInv'
    BY <1>1, <1>2, CreatingStill DEF CatalogInv, RunInv, Shapes, RowShape, AskMoved
<1>4. UpdateNamed' /\ ParentBound' /\ MadeSupported' /\ SucceededIsBound'
    BY <1>1
    DEF CatalogInv, RunInv, Shapes, AskShape, UpdateNamed, ParentBound, MadeSupported,
        SucceededIsBound, AskMoved
<1> QED
    BY <1>2, <1>3, <1>4 DEF CatalogInv, RunInv

LEMMA ReadToRequestKeeps ==
    ASSUME CatalogInv, NEW c \in Caller, NEW r \in Resource, ReadToRequest(c, r)
    PROVE  CatalogInv'
<1> DEFINE remote == IF binding[r] # 0 THEN binding[r] ELSE row[r].remote
<1>1. Asked(c, "requesting", r, OperationFor(r), version[r], remote)
    BY DEF ReadToRequest
<1>2. OperationFor(r) # "create" => remote # 0 /\ binding[r] # 0
    BY DEF OperationFor
<1>3. version[r] \in Nat
    BY DEF CatalogInv, RunInv, Shapes
<1>4. r = "price" /\ binding["product"] = 0 => remote = 0
    BY DEF CatalogInv, RunInv, ParentBound
<1> QED
    BY <1>1, <1>2, <1>3, <1>4, ReadingKeeps

LEMMA ReadToRetryKeeps ==
    ASSUME CatalogInv, NEW c \in Caller, NEW r \in Resource, ReadToRetry(c, r)
    PROVE  CatalogInv'
<1>1. row[r].version \in Nat
    BY DEF CatalogInv, RunInv, Shapes, RowShape
<1> QED
    BY <1>1, ReadingKeeps DEF ReadToRetry

LEMMA ReadToReconcileKeeps ==
    ASSUME CatalogInv, NEW c \in Caller, NEW r \in Resource, ReadToReconcile(c, r)
    PROVE  CatalogInv'
<1>1. row[r].version \in Nat
    BY DEF CatalogInv, RunInv, Shapes, RowShape
<1> QED
    BY <1>1, ReadingKeeps DEF ReadToReconcile, Resource

\* A generation that is written for a resource that is not bound is new, or it
\* was in doubt and is now asked for again.
LEMMA RequestingKeepsCreates ==
    ASSUME CatalogInv, NEW r \in Resource, NEW op, NEW v \in Nat, NEW remote,
           Requests(r, op, v, remote), op # "create" => binding[r] # 0,
           UNCHANGED <<provider, binding, made>>, Quiet,
           overtaken' = (overtaken \/ (row[r].state = "required"
                             /\ row[r].op = op /\ row[r].version = v))
    PROVE  CreateInv'
<1>1. RowShape /\ RowShape'
    BY DEF CatalogInv, RunInv, Shapes, Requests, RowStands, RowPut
<1>2. ASSUME NEW q \in Resource, Blind(q)'
      PROVE  Blind(q) /\ GoesOn(q)
    <2>1. Blind(q)
        BY <1>2 DEF Blind
    <2>2. CASE row'[q] = row[q]
        BY <1>1, <2>1, <2>2 DEF GoesOn, Shut, Closed, Owns, RowShape
    <2>3. CASE row'[q] # row[q]
        <3>1. /\ q = r /\ op = "create"
              /\ RowPut(r, "requested", "clear", op, v, remote, Nobody)
              /\ \/ row[r].status = "absent"
                 \/ /\ v >= row[r].version
                    /\ row[r].op = op /\ row[r].version = v =>
                           row[r].status \notin {"requested", "processing", "retrying", "succeeded"}
            BY <2>1, <2>3 DEF Requests, RowStands, RowPut, Blind
        <3>2. row[r].op = "create" /\ row[r].version = v => row[r].state # "required"
            BY <1>2, <3>1 DEF Blind
        <3>3. row[r].op = "create" /\ row[r].version = v =>
                  \/ row[r].status = "absent"
                  \/ ~Shut(r) /\ ~Closed(r) /\ \A w \in Worker : ~Owns(w, r)
            BY <3>1, <3>2 DEF Shut, Closed, Owns
        <3>4. GoesOn(r)
            BY <1>1, <3>1, <3>3 DEF GoesOn, RowPut, RowShape
        <3> QED
            BY <2>1, <3>1, <3>4
    <2> QED
        BY <2>1, <2>2, <2>3
<1> QED
    BY <1>1, <1>2, CreatesGoOn DEF CatalogInv

LEMMA RequestKeeps ==
    ASSUME CatalogInv, NEW c \in Caller, Request(c)
    PROVE  CatalogInv'
<1> DEFINE r == ask[c].res
<1>1. /\ UNCHANGED <<provider, version, binding, made, work, evidence>>
      /\ ask[c].pc = "requesting"
      /\ row' = [row EXCEPT ![r] = Requested(r, ask[c].op, ask[c].version, ask[c].remote)]
      /\ ask' = [ask EXCEPT ![c] = Silent]
      /\ overtaken' = (overtaken \/ (row[r].state = "required"
                           /\ row[r].op = ask[c].op /\ row[r].version = ask[c].version))
    BY DEF Request, Overtakes, Generation, atProvider
<1>2. /\ r \in Resource /\ ask[c].version \in Nat
      /\ ask[c].op # "create" => ask[c].remote # 0 /\ binding[r] # 0
      /\ r = "price" /\ binding["product"] = 0 => ask[c].remote = 0
    BY <1>1 DEF CatalogInv, RunInv, Shapes, AskShape, UpdateNamed, ParentBound
<1>3. Requests(r, ask[c].op, ask[c].version, ask[c].remote)
    BY <1>1, <1>2, RequestedRequests DEF CatalogInv, RunInv, Shapes
<1>4. AskMoved(c, "idle", "product", "none", 0, 0)
    BY <1>1, SilentMoves DEF CatalogInv, RunInv, Shapes
<1>5. Frames' /\ RunKnows' /\ Nested' /\ EvidenceOwed' /\ Quiet
    BY <1>1, RunsStill, QuietStill
<1> HIDE DEF r
<1>6. CreateInv'
    BY <1>1, <1>2, <1>3, <1>5, RequestingKeepsCreates
<1>7. Shapes'
    BY <1>1, <1>3, <1>4, <1>5
    DEF CatalogInv, RunInv, Shapes, AskMoved, Requests, RowStands, RowPut
<1>8. UpdateNamed' /\ ParentBound' /\ MadeSupported' /\ SucceededIsBound'
    BY <1>1, <1>2, <1>3, <1>4
    DEF CatalogInv, RunInv, UpdateNamed, ParentBound, MadeSupported, SucceededIsBound, AskMoved,
        Requests, RowStands, RowPut, Resource
<1> QED
    BY <1>5, <1>6, <1>7, <1>8 DEF CatalogInv, RunInv

LEMMA RetryKeeps ==
    ASSUME CatalogInv, NEW c \in Caller, Retry(c)
    PROVE  CatalogInv'
<1> DEFINE r == ask[c].res
           new == [row[r] EXCEPT !.status = "retrying", !.state = "clear"]
<1>1. /\ UNCHANGED <<provider, version, binding, made, work, evidence>>
      /\ ask' = [ask EXCEPT ![c] = Silent]
      /\ r \in Resource
    BY DEF Retry, atProvider, CatalogInv, RunInv, Shapes, AskShape
<1>2. \/ row' = row /\ overtaken' = overtaken
      \/ /\ row[r].status \in {"failed", "skipped"}
         /\ RowPut(r, "retrying", "clear", row[r].op, row[r].version, row[r].remote, row[r].owner)
         /\ overtaken' = (overtaken \/ (row[r].state = "required" /\ row[r].remote = 0))
    <2>1. /\ DOMAIN new = RowFields /\ new.status = "retrying" /\ new.state = "clear"
          /\ new.op = row[r].op /\ new.version = row[r].version
          /\ new.remote = row[r].remote /\ new.owner = row[r].owner
        BY <1>1 DEF CatalogInv, RunInv, Shapes, RowShape, RowFields
    <2>2. \/ row' = row /\ overtaken' = overtaken
          \/ /\ row[r].status \in {"failed", "skipped"}
             /\ row' = [row EXCEPT ![r] = new]
             /\ overtaken' = (overtaken \/ (row[r].state = "required" /\ row[r].remote = 0))
        BY <1>1 DEF Retry, CatalogInv, RunInv, Shapes, RowShape
    <2> HIDE DEF new, r
    <2> QED
        BY <1>1, <2>1, <2>2 DEF CatalogInv, RunInv, Shapes, RowShape, RowPut
<1>3. AskMoved(c, "idle", "product", "none", 0, 0)
    BY <1>1, SilentMoves DEF CatalogInv, RunInv, Shapes
<1>4. Frames' /\ RunKnows' /\ Nested' /\ EvidenceOwed' /\ Quiet
    BY <1>1, RunsStill, QuietStill
<1> HIDE DEF r, new
<1>5. Shapes'
    BY <1>1, <1>2, <1>3, <1>4 DEF CatalogInv, RunInv, Shapes, RowShape, AskMoved, RowPut
<1>6. UpdateNamed' /\ ParentBound' /\ MadeSupported' /\ SucceededIsBound'
    BY <1>1, <1>2, <1>3
    DEF CatalogInv, RunInv, Shapes, AskShape, UpdateNamed, ParentBound, MadeSupported,
        SucceededIsBound, AskMoved, RowPut, Resource
<1>7. ASSUME NEW q \in Resource, Blind(q)'
      PROVE  Blind(q) /\ GoesOn(q)
    <2>1. Blind(q)
        <3>1. ~overtaken
            BY <1>2, <1>7, Zenon DEF Blind
        <3> QED
            BY <1>1, <1>7, <3>1 DEF Blind
    <2>2. CASE row'[q] = row[q]
        BY <2>1, <2>2 DEF GoesOn, Shut, Closed, Owns, CatalogInv, RunInv, Shapes, RowShape
    <2>3. CASE row'[q] # row[q]
        <3>1. /\ q = r /\ row[r].status \in {"failed", "skipped"}
              /\ RowPut(r, "retrying", "clear", row[r].op, row[r].version, row[r].remote,
                        row[r].owner)
              /\ row[r].state = "required" => row[r].remote # 0
            BY <1>2, <1>7, <2>3 DEF RowPut, Blind
        <3> QED
            BY <2>1, <3>1
            DEF GoesOn, Shut, Closed, Owns, RowPut, CatalogInv, RunInv, Shapes, RowShape
    <2> QED
        BY <2>1, <2>2, <2>3
<1>8. CreateInv'
    BY <1>1, <1>4, <1>5, <1>7, CreatesGoOn DEF CatalogInv, RunInv, Shapes
<1> QED
    BY <1>4, <1>5, <1>6, <1>8 DEF CatalogInv, RunInv

\* A reconciliation writes the row of a resource that is bound.
LEMMA ReconciledKeeps ==
    ASSUME CatalogInv, NEW c \in Caller, NEW status, NEW state,
           status \notin {"absent", "succeeded"}, Reconciled(c, status, state)
    PROVE  CatalogInv'
<1> DEFINE r == ask[c].res
           new == [row[r] EXCEPT !.status = status, !.state = state]
<1>1. /\ UNCHANGED <<provider, version, binding, made, work, evidence, overtaken>>
      /\ ask' = [ask EXCEPT ![c] = Silent]
      /\ r \in Resource /\ binding[r] # 0 /\ row[r].status # "absent"
    BY DEF Reconciled, atProvider, CatalogInv, RunInv, Shapes, AskShape, UpdateNamed
<1>2. \/ row' = row
      \/ RowPut(r, status, state, row[r].op, row[r].version, row[r].remote, row[r].owner)
    <2>1. /\ DOMAIN new = RowFields /\ new.status = status /\ new.state = state
          /\ new.op = row[r].op /\ new.version = row[r].version
          /\ new.remote = row[r].remote /\ new.owner = row[r].owner
        BY <1>1 DEF CatalogInv, RunInv, Shapes, RowShape, RowFields
    <2>2. row' = row \/ row' = [row EXCEPT ![r] = new]
        BY <1>1 DEF Reconciled, CatalogInv, RunInv, Shapes, RowShape
    <2> HIDE DEF new, r
    <2> QED
        BY <1>1, <2>1, <2>2 DEF CatalogInv, RunInv, Shapes, RowShape, RowPut
<1>3. AskMoved(c, "idle", "product", "none", 0, 0)
    BY <1>1, SilentMoves DEF CatalogInv, RunInv, Shapes
<1>4. Frames' /\ RunKnows' /\ Nested' /\ EvidenceOwed' /\ Quiet
    BY <1>1, RunsStill, QuietStill
<1> HIDE DEF r, new
<1>5. Shapes'
    BY <1>1, <1>2, <1>3, <1>4 DEF CatalogInv, RunInv, Shapes, RowShape, AskMoved, RowPut
<1>6. UpdateNamed' /\ ParentBound' /\ MadeSupported' /\ SucceededIsBound'
    BY <1>1, <1>2, <1>3
    DEF CatalogInv, RunInv, Shapes, AskShape, UpdateNamed, ParentBound, MadeSupported,
        SucceededIsBound, AskMoved, RowPut, Resource
<1>7. ASSUME NEW q \in Resource, Blind(q)'
      PROVE  Blind(q) /\ row'[q] = row[q]
    BY <1>1, <1>2, <1>7 DEF Blind, RowPut
<1>8. \A q \in Resource : Blind(q)' => Blind(q) /\ GoesOn(q)
    BY <1>7 DEF GoesOn, Shut, Closed, Owns, CatalogInv, RunInv, Shapes, RowShape
<1>9. CreateInv'
    BY <1>1, <1>4, <1>5, <1>8, CreatesGoOn DEF CatalogInv, RunInv, Shapes
<1> QED
    BY <1>4, <1>5, <1>6, <1>9 DEF CatalogInv, RunInv

LEMMA ReconcileKeeps ==
    ASSUME CatalogInv, NEW c \in Caller, Reconcile(c) \/ ReconcileFails(c)
    PROVE  CatalogInv'
BY ReconciledKeeps DEF Reconcile, ReconcileFails

\* What neither a row nor a run nor a call sees.
LEMMA OutsideKeeps ==
    ASSUME CatalogInv,
           \/ \E c \in Caller, r \in Resource : Redispatch(c, r)
           \/ \E r \in Resource : Edit(r)
           \/ \E x \in DOMAIN made : RemoveRemote(x)
    PROVE  CatalogInv'
<1>1. UNCHANGED <<provider, row, binding, made, work, ask, evidence, overtaken>>
    BY DEF Redispatch, Edit, RemoveRemote, atProvider, callers
<1>2. DOMAIN version' = Resource /\ \A r \in Resource : version'[r] \in Nat
    BY DEF Redispatch, Edit, RemoveRemote, CatalogInv, RunInv, Shapes
<1>3. Frames' /\ RunKnows' /\ Nested' /\ EvidenceOwed' /\ RowShape' /\ CreateInv'
    BY <1>1, RunsStill, QuietStill, CreatingStill
    DEF CatalogInv, RunInv, Shapes, RowShape, SameRows
<1>4. Shapes'
    BY <1>1, <1>2, <1>3 DEF CatalogInv, RunInv, Shapes, AskShape
<1>5. UpdateNamed' /\ ParentBound' /\ MadeSupported' /\ SucceededIsBound'
    BY <1>1
    DEF CatalogInv, RunInv, UpdateNamed, ParentBound, MadeSupported, SucceededIsBound
<1> QED
    BY <1>3, <1>4, <1>5 DEF CatalogInv, RunInv

\* Time moves leases and waits only.
LEMMA TickKeeps ==
    ASSUME CatalogInv, Tick
    PROVE  CatalogInv'
<1>1. UNCHANGED <<provider, version, binding, made, ask, evidence, overtaken>>
    BY DEF Tick, atProvider, callers
<1>2. RowShape' /\ SameRows
    <2>1. row' = [r \in Resource |->
                     [row[r] EXCEPT !.lease = IF @ > 0 THEN @ - 1 ELSE 0]]
        BY DEF Tick
    <2> QED
        BY <2>1 DEF RowShape, SameRows, RowFields, CatalogInv, RunInv, Shapes
<1>3. /\ Frames'
      /\ \A w \in Worker, r \in Resource :
             FrameIs(w, r, work[w][r].pc, work[w][r].op, work[w][r].version,
                     work[w][r].remote, work[w][r].answer)
    <2>1. work' = [w \in Worker |->
              IF Waiting(w) /\ work[w]["price"].waited < LeaseTtl
              THEN [work[w] EXCEPT !["price"].waited = @ + 1] ELSE work[w]]
        BY DEF Tick
    <2>2. ASSUME NEW w \in Worker
          PROVE  /\ DOMAIN work'[w] = Resource
                 /\ \A r \in Resource :
                        /\ DOMAIN work'[w][r] = FrameFields
                        /\ FrameIs(w, r, work[w][r].pc, work[w][r].op, work[w][r].version,
                                   work[w][r].remote, work[w][r].answer)
        <3> DEFINE frame == [work[w]["price"] EXCEPT !.waited = @ + 1]
        <3>1. work'[w] = work[w] \/ work'[w] = [work[w] EXCEPT !["price"] = frame]
            BY <2>1
        <3>2. /\ DOMAIN frame = FrameFields
              /\ frame.pc = work[w]["price"].pc /\ frame.op = work[w]["price"].op
              /\ frame.version = work[w]["price"].version
              /\ frame.remote = work[w]["price"].remote
              /\ frame.answer = work[w]["price"].answer
            BY DEF CatalogInv, RunInv, Shapes, Frames, FrameFields, Resource
        <3> HIDE DEF frame
        <3> QED
            BY <3>1, <3>2 DEF CatalogInv, RunInv, Shapes, Frames, FrameIs, Resource
    <2> QED
        BY <2>1, <2>2 DEF Frames
<1>4. Shapes'
    BY <1>1, <1>2, <1>3 DEF CatalogInv, RunInv, Shapes, AskShape
<1>8. UpdateNamed' /\ ParentBound' /\ MadeSupported' /\ SucceededIsBound'
    BY <1>1, <1>2
    DEF CatalogInv, RunInv, UpdateNamed, ParentBound, MadeSupported, SucceededIsBound,
        SameRows, Shapes, AskShape, Resource
<1>5. RunKnows' /\ Nested'
    BY <1>1, <1>3 DEF CatalogInv, RunInv, RunKnows, Nested, FrameIs, Resource
<1>6. EvidenceOwed'
    BY <1>1, <1>3 DEF CatalogInv, RunInv, EvidenceOwed, FrameIs, evidence
<1>7. Quiet
    BY <1>1, <1>3 DEF CatalogInv, CreateInv, CallsBlindly, Quiet, MayCreate, FrameIs
<1> QED
    BY <1>1, <1>2, <1>4, <1>5, <1>6, <1>7, <1>8, CreatingStill
    DEF CatalogInv, RunInv, Shapes

-----------------------------------------------------------------------------
\* Steps with which a run writes its row

\* A run that gives its claim up leaves the row failed or skipped.
LEMMA GivingUpKeeps ==
    ASSUME CatalogInv, NEW r \in Resource, NEW status \in {"skipped", "failed"}, NEW state,
           NEW remote, UNCHANGED <<provider, version, binding, ask, made, overtaken>>,
           Frames', Quiet,
           \/ RowStands
           \/ /\ RowPut(r, status, state, row[r].op, row[r].version, remote, Nobody)
              /\ row[r].status = "processing"
              /\ row[r].remote # 0 => remote # 0
              /\ r = "price" /\ binding["product"] = 0 => remote = 0
              /\ Blind(r) => GoesOn(r)
    PROVE  /\ Shapes' /\ UpdateNamed' /\ ParentBound' /\ MadeSupported'
           /\ SucceededIsBound' /\ CreateInv'
<1>1. RowShape' /\ Shapes'
    BY DEF CatalogInv, RunInv, Shapes, AskShape, RowStands, RowPut
<1>2. UpdateNamed' /\ ParentBound' /\ MadeSupported' /\ SucceededIsBound'
    BY DEF CatalogInv, RunInv, Shapes, AskShape, UpdateNamed, ParentBound, MadeSupported,
           SucceededIsBound, RowStands, RowPut, Resource
<1>3. ASSUME NEW q \in Resource, Blind(q)'
      PROVE  Blind(q) /\ GoesOn(q)
    <2>1. Blind(q)
        BY <1>3 DEF Blind
    <2>2. CASE row'[q] = row[q]
        BY <2>1, <2>2 DEF GoesOn, Shut, Closed, Owns, CatalogInv, RunInv, Shapes, RowShape
    <2>3. CASE row'[q] # row[q]
        BY <2>1, <2>3 DEF RowStands, RowPut
    <2> QED
        BY <2>2, <2>3
<1>4. CreateInv'
    BY <1>1, <1>3, CreatesGoOn DEF CatalogInv, RunInv, Shapes
<1> QED
    BY <1>1, <1>2, <1>4

LEMMA FailKeeps ==
    ASSUME CatalogInv, NEW w \in Worker, NEW r \in Resource, Fail(w, r)
    PROVE  CatalogInv'
<1>1. UNCHANGED <<provider, version, binding, ask, made, overtaken>>
    BY DEF Fail, atProvider, callers
<1>2. /\ work[w][r].pc = "failing"
      /\ Backed(w, r, "failing")
      /\ UNCHANGED <<learned, bound, orphaned, lost>>
    BY GotoMoves, BackMoves
    DEF Fail, At, evidence, Returns, Throws, CatalogInv, RunInv, Shapes
<1>3. Frames' /\ RunKnows'
    BY <1>1, <1>2
    DEF RunKnows, Unclaimed, Owing, Calling, Waits, RunInv, CatalogInv, Moved, Goes,
        Backed, FrameIs, Resource
<1>4. Nested'
    BY <1>1, <1>2 DEF Nested, RunInv, CatalogInv, Moved, Goes, Backed, FrameIs, Resource
<1>5. EvidenceOwed'
    BY <1>1, <1>2
    DEF EvidenceOwed, RunKnows, Nested, Owing, RunInv, CatalogInv, Moved, Goes, Backed,
        FrameIs, Resource
<1>6. Quiet
    BY <1>1, <1>2
    DEF Quiet, MayCreate, CreateInv, CallsBlindly, RunInv, CatalogInv, Moved, Goes,
        Backed, FrameIs, Resource
<1>7. \/ RowStands
      \/ /\ RowPut(r, "failed", InDoubt, row[r].op, row[r].version, row[r].remote, Nobody)
         /\ row[r].status = "processing"
    <2>1. \/ row' = row
          \/ Holds(w, r) /\ Written(r, "failed", InDoubt, row[r].remote)
        BY DEF Fail
    <2>2. RowShape
        BY DEF CatalogInv, RunInv, Shapes
    <2> QED
        BY <2>1, <2>2, RowsStand, WrittenPuts DEF Holds
<1>8. Blind(r) /\ ~RowStands => GoesOn(r)
    BY <1>7
    DEF Blind, InDoubt, GoesOn, Shut, Closed, RowPut, CatalogInv, RunInv, Shapes, RowShape
<1>9. /\ row[r].remote # 0 => row[r].remote # 0
      /\ r = "price" /\ binding["product"] = 0 => row[r].remote = 0
    BY DEF CatalogInv, RunInv, ParentBound
<1> QED
    BY <1>1, <1>3, <1>4, <1>5, <1>6, <1>7, <1>8, <1>9, GivingUpKeeps DEF CatalogInv, RunInv

LEMMA ClaimsNothingKeeps ==
    ASSUME CatalogInv, NEW w \in Worker, NEW r \in Resource, ClaimsNothing(w, r)
    PROVE  CatalogInv'
<1>1. UNCHANGED <<provider, version, binding, ask, made, overtaken>>
    BY DEF ClaimsNothing, atProvider, callers
<1>2. /\ work[w][r].pc = "claiming"
      /\ Backed(w, r, "awaiting")
      /\ UNCHANGED <<learned, bound, orphaned, lost>>
    BY GotoMoves, BackMoves
    DEF ClaimsNothing, At, evidence, Returns, Throws, CatalogInv, RunInv, Shapes
<1>3. Frames' /\ RunKnows'
    BY <1>1, <1>2
    DEF RunKnows, Unclaimed, Owing, Calling, Waits, RunInv, CatalogInv, Moved, Goes,
        Backed, FrameIs, Resource
<1>4. Nested'
    BY <1>1, <1>2 DEF Nested, RunInv, CatalogInv, Moved, Goes, Backed, FrameIs, Resource
<1>5. EvidenceOwed'
    BY <1>1, <1>2
    DEF EvidenceOwed, RunKnows, Nested, Owing, RunInv, CatalogInv, Moved, Goes, Backed,
        FrameIs, Resource
<1>6. Quiet
    BY <1>1, <1>2
    DEF Quiet, MayCreate, CreateInv, CallsBlindly, RunInv, CatalogInv, Moved, Goes,
        Backed, FrameIs, Resource
<1>7. \/ RowStands
      \/ /\ RowPut(r, "failed", "required", row[r].op, row[r].version, row[r].remote, Nobody)
         /\ row[r].status = "processing"
    <2>1. \/ row' = row
          \/ row[r].status = "processing" /\ Written(r, "failed", "required", row[r].remote)
        BY DEF ClaimsNothing
    <2>2. RowShape
        BY DEF CatalogInv, RunInv, Shapes
    <2> QED
        BY <2>1, <2>2, RowsStand, WrittenPuts
<1>8. Blind(r) /\ ~RowStands => GoesOn(r)
    BY <1>7 DEF Blind, GoesOn, Shut, Closed, RowPut, CatalogInv, RunInv, Shapes, RowShape
<1>9. r = "price" /\ binding["product"] = 0 => row[r].remote = 0
    BY DEF CatalogInv, RunInv, ParentBound
<1> QED
    BY <1>1, <1>3, <1>4, <1>5, <1>6, <1>7, <1>8, <1>9, GivingUpKeeps DEF CatalogInv, RunInv

LEMMA RememberKeeps ==
    ASSUME CatalogInv, NEW w \in Worker, NEW r \in Resource, Remember(w, r)
    PROVE  CatalogInv'
<1>1. UNCHANGED <<provider, version, binding, ask, made, overtaken>>
    BY DEF Remember, atProvider, callers
<1>2. /\ work[w][r].pc = "remembering"
      /\ Goes(w, r, "reporting")
      /\ UNCHANGED <<learned, bound, orphaned, lost>>
    BY GotoMoves, BackMoves
    DEF Remember, At, evidence, Returns, Throws, CatalogInv, RunInv, Shapes
<1>3. Frames' /\ RunKnows'
    BY <1>1, <1>2
    DEF RunKnows, Unclaimed, Owing, Calling, Waits, RunInv, CatalogInv, Moved, Goes,
        Backed, FrameIs, Resource
<1>4. Nested'
    BY <1>1, <1>2 DEF Nested, RunInv, CatalogInv, Moved, Goes, Backed, FrameIs, Resource
<1>5. EvidenceOwed'
    BY <1>1, <1>2
    DEF EvidenceOwed, RunKnows, Nested, Owing, RunInv, CatalogInv, Moved, Goes, Backed,
        FrameIs, Resource
<1>6. Quiet
    BY <1>1, <1>2
    DEF Quiet, MayCreate, CreateInv, CallsBlindly, RunInv, CatalogInv, Moved, Goes,
        Backed, FrameIs, Resource
<1>7. \/ RowStands
      \/ /\ RowPut(r, "failed", InDoubt, row[r].op, row[r].version, work[w][r].answer, Nobody)
         /\ row[r].status = "processing" /\ row[r].owner = w
    <2>1. \/ row' = row
          \/ Holds(w, r) /\ Written(r, "failed", InDoubt, work[w][r].answer)
        BY DEF Remember
    <2>2. RowShape
        BY DEF CatalogInv, RunInv, Shapes
    <2> QED
        BY <2>1, <2>2, RowsStand, WrittenPuts DEF Holds
<1>8. Blind(r) /\ ~RowStands => GoesOn(r)
    <2>1. ~MayCreate(w, r)'
        BY <1>2 DEF Goes, Moved, FrameIs, MayCreate
    <2> QED
        BY <1>7, <2>1
        DEF Blind, InDoubt, GoesOn, Shut, Closed, Owns, RowPut, CatalogInv, RunInv, Shapes, RowShape
<1>9. /\ work[w][r].answer # 0
      /\ r = "price" => binding["product"] # 0
    BY <1>2 DEF CatalogInv, RunInv, RunKnows, Owing
<1> QED
    BY <1>1, <1>3, <1>4, <1>5, <1>6, <1>7, <1>8, <1>9, GivingUpKeeps DEF CatalogInv, RunInv

\* A run that skips had not created: its operation is not supported, or its
\* product is not bound.
LEMMA SkipKeeps ==
    ASSUME CatalogInv, NEW w \in Worker, NEW r \in Resource, Skip(w, r)
    PROVE  CatalogInv'
<1>1. UNCHANGED <<provider, version, binding, ask, made, overtaken>>
    BY DEF Skip, atProvider, callers
<1>2. /\ work[w][r].pc \in {"skipping", "unavailable"}
      /\ Backed(w, r, "awaiting")
      /\ UNCHANGED <<learned, bound, orphaned, lost>>
    BY GotoMoves, BackMoves
    DEF Skip, At, evidence, Returns, Throws, CatalogInv, RunInv, Shapes
<1>3. Frames' /\ RunKnows'
    BY <1>1, <1>2
    DEF RunKnows, Unclaimed, Owing, Calling, Waits, RunInv, CatalogInv, Moved, Goes,
        Backed, FrameIs, Resource
<1>4. Nested'
    BY <1>1, <1>2 DEF Nested, RunInv, CatalogInv, Moved, Goes, Backed, FrameIs, Resource
<1>5. EvidenceOwed'
    BY <1>1, <1>2
    DEF EvidenceOwed, RunKnows, Nested, Owing, RunInv, CatalogInv, Moved, Goes, Backed,
        FrameIs, Resource
<1>6. Quiet
    BY <1>1, <1>2
    DEF Quiet, MayCreate, CreateInv, CallsBlindly, RunInv, CatalogInv, Moved, Goes,
        Backed, FrameIs, Resource
<1>7. \/ RowStands
      \/ /\ RowPut(r, "skipped", "clear", row[r].op, row[r].version, row[r].remote, Nobody)
         /\ Holds(w, r)
    <2>1. \/ row' = row
          \/ Holds(w, r) /\ Written(r, "skipped", "clear", row[r].remote)
        BY DEF Skip
    <2>2. RowShape
        BY DEF CatalogInv, RunInv, Shapes
    <2> QED
        BY <2>1, <2>2, RowsStand, WrittenPuts
<1>8. ASSUME Blind(r), Holds(w, r), NEW x \in DOMAIN made, made[x].res = r
      PROVE  made[x].key[2] # row[r].version
    <2>1. /\ made[x].key[1] = "create" /\ row[r].op = "create"
          /\ work[w][r].op = row[r].op /\ work[w][r].version = row[r].version
        BY <1>8 DEF CatalogInv, CreateInv, MadeIsClosed, Reached, Holds, Generation
    <2>2. "create" \in provider.supports[r]
        BY <1>8, <2>1 DEF CatalogInv, RunInv, MadeSupported
    <2>3. MayCreate(w, r)
        BY <1>2, <2>1, <2>2 DEF CatalogInv, RunInv, RunKnows, Waits, MayCreate
    <2> QED
        BY <1>8, <2>1, <2>3 DEF CatalogInv, CreateInv, CreatorIsFirst
<1>9. ~MayCreate(w, r)'
    BY <1>2 DEF Backed, FrameIs, MayCreate, Resource
<1>10. Blind(r) /\ ~RowStands => GoesOn(r)
    BY <1>7, <1>8, <1>9
    DEF GoesOn, Shut, Closed, Owns, Holds, RowPut, CatalogInv, RunInv, Shapes, RowShape
<1>11. r = "price" /\ binding["product"] = 0 => row[r].remote = 0
    BY DEF CatalogInv, RunInv, ParentBound
<1> QED
    BY <1>1, <1>3, <1>4, <1>5, <1>6, <1>7, <1>10, <1>11, GivingUpKeeps
    DEF CatalogInv, RunInv, Holds

\* The request of a price's run for its product.
LEMMA EnsureRequestKeeps ==
    ASSUME CatalogInv, NEW w \in Worker, EnsureRequest(w)
    PROVE  CatalogInv'
<1> DEFINE v == work[w]["product"].version
<1>1. UNCHANGED <<provider, version, binding, ask, made>>
    BY DEF EnsureRequest, atProvider
<1>2. /\ work[w]["product"].pc = "requesting" /\ work[w]["product"].op = "create"
      /\ v \in Nat
      /\ Goes(w, "product", "begun")
      /\ UNCHANGED <<learned, bound, orphaned, lost>>
    BY GotoMoves
    DEF EnsureRequest, At, evidence, CatalogInv, RunInv, Shapes, RunKnows, Resource
<1> HIDE DEF v
<1>3. Frames' /\ RunKnows'
    BY <1>1, <1>2
    DEF RunKnows, Unclaimed, Owing, Calling, Waits, RunInv, CatalogInv, Moved, Goes,
        Backed, FrameIs, Resource
<1>4. Nested'
    BY <1>1, <1>2 DEF Nested, RunInv, CatalogInv, Moved, Goes, Backed, FrameIs, Resource
<1>5. EvidenceOwed'
    BY <1>1, <1>2
    DEF EvidenceOwed, RunKnows, Nested, Owing, RunInv, CatalogInv, Moved, Goes, Backed,
        FrameIs, Resource
<1>6. Quiet
    BY <1>1, <1>2
    DEF Quiet, MayCreate, CreateInv, CallsBlindly, RunInv, CatalogInv, Moved, Goes,
        Backed, FrameIs, Resource
<1>7. Requests("product", "create", v, 0)
    BY <1>2, RequestedRequests DEF EnsureRequest, v, CatalogInv, RunInv, Shapes, Resource
<1>8. overtaken' = (overtaken \/ (row["product"].state = "required"
                        /\ row["product"].op = "create" /\ row["product"].version = v))
    BY <1>2 DEF EnsureRequest, Overtakes, Generation, v
<1>9. Shapes'
    BY <1>1, <1>3, <1>7
    DEF CatalogInv, RunInv, Shapes, AskShape, Requests, RowStands, RowPut
<1>10. UpdateNamed' /\ ParentBound' /\ MadeSupported' /\ SucceededIsBound'
    BY <1>1, <1>7
    DEF CatalogInv, RunInv, Shapes, AskShape, UpdateNamed, ParentBound, MadeSupported,
        SucceededIsBound, Requests, RowStands, RowPut, Resource
<1>11. CreateInv'
    BY <1>1, <1>2, <1>6, <1>7, <1>8, RequestingKeepsCreates DEF Resource
<1> QED
    BY <1>3, <1>4, <1>5, <1>9, <1>10, <1>11 DEF CatalogInv, RunInv

\* A claim lets a run create only what is new: what was created is closed, and
\* a run that may create has the claim or finds it closed.
LEMMA ClaimKeeps ==
    ASSUME CatalogInv, NEW w \in Worker, NEW r \in Resource, Claim(w, r)
    PROVE  CatalogInv'
<1> DEFINE label == IF work[w][r].op \notin provider.supports[r] THEN "skipping"
                    ELSE IF r = "price" THEN "parent" ELSE "recovering"
           frame == [work[w][r] EXCEPT !.remote = row[r].remote, !.pc = label]
           new == [row[r] EXCEPT !.status = "processing", !.owner = w, !.lease = LeaseTtl]
<1>1. UNCHANGED <<provider, version, binding, ask, made, overtaken>>
    BY DEF Claim, atProvider, callers
<1>2. /\ work[w][r].pc = "claiming"
      /\ Moved(w, r, label, work[w][r].op, work[w][r].version, row[r].remote, work[w][r].answer)
      /\ row[r].op = work[w][r].op /\ row[r].version = work[w][r].version
      /\ row[r].status # "absent"
      /\ ~provider.native => row[r].status \in {"requested", "retrying"}
      /\ row[r].op # "create" => row[r].remote # 0 /\ binding[r] # 0
      /\ r = "price" /\ binding["product"] = 0 => row[r].remote = 0
      /\ UNCHANGED <<learned, bound, orphaned, lost>>
    <2>1. /\ DOMAIN frame = FrameFields /\ frame.pc = label /\ frame.remote = row[r].remote
          /\ frame.op = work[w][r].op /\ frame.version = work[w][r].version
          /\ frame.answer = work[w][r].answer
        BY DEF CatalogInv, RunInv, Shapes, Frames, FrameFields
    <2>2. work' = [work EXCEPT ![w][r] = frame]
        BY DEF Claim, CatalogInv, RunInv, Shapes, Frames
    <2> HIDE DEF frame, label
    <2>3. Moved(w, r, frame.pc, frame.op, frame.version, frame.remote, frame.answer)
        BY <2>1, <2>2, FrameMoves DEF CatalogInv, RunInv, Shapes
    <2>4. Moved(w, r, label, work[w][r].op, work[w][r].version, row[r].remote, work[w][r].answer)
        BY <2>1, <2>3
    <2>5. /\ row[r].op = work[w][r].op /\ row[r].version = work[w][r].version
          /\ row[r].status # "absent"
          /\ ~provider.native => row[r].status \in {"requested", "retrying"}
        BY DEF Claim, Claimable, Generation
    <2>6. /\ row[r].op # "create" => row[r].remote # 0 /\ binding[r] # 0
          /\ r = "price" /\ binding["product"] = 0 => row[r].remote = 0
        BY <2>5 DEF CatalogInv, RunInv, UpdateNamed, ParentBound
    <2> QED
        BY <2>4, <2>5, <2>6 DEF Claim, At, evidence
<1> HIDE DEF frame
<1>3. Frames' /\ RunKnows'
    BY <1>1, <1>2
    DEF RunKnows, Unclaimed, Owing, Calling, Waits, RunInv, CatalogInv, Moved, Goes,
        Backed, FrameIs, Resource
<1>4. Nested'
    BY <1>1, <1>2 DEF Nested, RunInv, CatalogInv, Moved, Goes, Backed, FrameIs, Resource
<1>5. EvidenceOwed'
    BY <1>1, <1>2
    DEF EvidenceOwed, RunKnows, Nested, Owing, RunInv, CatalogInv, Moved, Goes, Backed,
        FrameIs, Resource
<1>6. RowPut(r, "processing", row[r].state, row[r].op, row[r].version, row[r].remote, w)
    <2>1. /\ DOMAIN new = RowFields /\ new.status = "processing" /\ new.state = row[r].state
          /\ new.op = row[r].op /\ new.version = row[r].version
          /\ new.remote = row[r].remote /\ new.owner = w
        BY DEF CatalogInv, RunInv, Shapes, RowShape, RowFields
    <2>2. row' = [row EXCEPT ![r] = new]
        BY DEF Claim, CatalogInv, RunInv, Shapes, RowShape
    <2> HIDE DEF new
    <2> QED
        BY <2>1, <2>2 DEF RowPut, CatalogInv, RunInv, Shapes, RowShape
<1> HIDE DEF new
<1>7. Shapes'
    BY <1>1, <1>3, <1>6 DEF CatalogInv, RunInv, Shapes, AskShape, RowPut
<1>8. UpdateNamed' /\ ParentBound' /\ MadeSupported' /\ SucceededIsBound'
    BY <1>1, <1>2, <1>6
    DEF CatalogInv, RunInv, Shapes, AskShape, UpdateNamed, ParentBound, MadeSupported,
        SucceededIsBound, RowPut, Resource
<1>9. ASSUME Blind(r)
      PROVE  /\ \A x \in DOMAIN made :
                    made[x].res = r /\ made[x].key[2] = row[r].version => row[r].remote # 0
             /\ \A u \in Worker : MayCreate(u, r) => work[u][r].version # row[r].version
    BY <1>2, <1>9
    DEF CatalogInv, CreateInv, MadeIsClosed, CreatorIsFirst, Closed, Holds, Blind
<1>10. \A q \in Resource : Blind(q)' <=> Blind(q)
    BY <1>1 DEF Blind
<1>11. \A u \in Worker, q \in Resource : u # w \/ q # r =>
           /\ work'[u][q] = work[u][q]
           /\ MayCreate(u, q)' <=> MayCreate(u, q)
    BY <1>2 DEF Moved, MayCreate
<1>12. MadeIsClosed'
    BY <1>1, <1>6, <1>10 DEF CatalogInv, CreateInv, MadeIsClosed, Reached, Closed, RowPut
<1>13. CreatorIsFirst'
    <2> SUFFICES ASSUME NEW u \in Worker, NEW q \in Resource, Blind(q)', MayCreate(u, q)'
                 PROVE  /\ work'[u][q].op = "create"
                        /\ row'[q].status # "absent" /\ row'[q].op = "create"
                        /\ work'[u][q].version \in Nat /\ work'[u][q].version <= row'[q].version
                        /\ \A x \in DOMAIN made :
                               made[x].res = q => made[x].key[2] # work'[u][q].version
                        /\ work'[u][q].version = row'[q].version =>
                               row'[q].remote = 0 /\ (Holds(u, q)' \/ Closed(q)')
        BY <1>1 DEF CreatorIsFirst, Reached
    <2>1. CASE q # r
        BY <1>1, <1>6, <1>10, <1>11, <2>1
        DEF CatalogInv, CreateInv, CreatorIsFirst, Reached, Holds, Closed, Generation, RowPut
    <2>2. CASE q = r /\ u # w
        <3>1. /\ MayCreate(u, r) /\ Blind(r) /\ work'[u][r] = work[u][r]
            BY <1>10, <1>11, <2>2
        <3>2. /\ work[u][r].op = "create" /\ Reached(r, work[u][r].version)
              /\ \A x \in DOMAIN made : made[x].res = r => made[x].key[2] # work[u][r].version
            BY <3>1 DEF CatalogInv, CreateInv, CreatorIsFirst
        <3> QED
            BY <1>6, <1>9, <2>2, <3>1, <3>2 DEF Reached, RowPut
    <2>3. CASE q = r /\ u = w
        <3>1. /\ Blind(r) /\ row[r].remote = 0 /\ row[r].op = "create"
              /\ work'[w][r].op = row[r].op /\ work'[w][r].version = row[r].version
            BY <1>2, <1>10, <2>3 DEF Moved, FrameIs, MayCreate, Blind
        <3>2. row[r].version \in Nat
            BY DEF CatalogInv, RunInv, Shapes, RowShape
        <3> QED
            BY <1>6, <1>9, <2>3, <3>1, <3>2 DEF Reached, Holds, Generation, RowPut
    <2> QED
        BY <2>1, <2>2, <2>3
<1>14. CreatorIsAlone'
    <2> SUFFICES ASSUME NEW u \in Worker, NEW v \in Worker, NEW q \in Resource, Blind(q)',
                        MayCreate(u, q)', MayCreate(v, q)',
                        work'[u][q].version = work'[v][q].version
                 PROVE  u = v
        BY DEF CreatorIsAlone
    <2>1. q = r => Blind(r) /\ work'[w][r].version = row[r].version
        BY <1>2, <1>10 DEF Moved, FrameIs
    <2> QED
        BY <1>9, <1>10, <1>11, <2>1 DEF CatalogInv, CreateInv, CreatorIsAlone
<1>15. CallsBlindly'
    BY <1>1, <1>2, <1>11 DEF CatalogInv, CreateInv, CallsBlindly, Moved, FrameIs
<1>16. FirstCreateOnce'
    BY <1>1 DEF CatalogInv, CreateInv, FirstCreateOnce
<1> QED
    BY <1>3, <1>4, <1>5, <1>7, <1>8, <1>12, <1>13, <1>14, <1>15, <1>16
    DEF CatalogInv, RunInv, CreateInv

-----------------------------------------------------------------------------
\* Steps with which the provider makes something

\* The run that makes it is the first of its generation, and creates no more.
LEMMA MakingKeeps ==
    ASSUME CatalogInv, NEW w \in Worker, NEW r \in Resource,
           work[w][r].pc = "calling", work[w][r].op = "create", Adds(w, r),
           \E S : made' \in Seq(S),
           UNCHANGED <<provider, version, row, binding, ask, overtaken>>,
           Frames', Quiet, ~MayCreate(w, r)'
    PROVE  /\ Shapes' /\ UpdateNamed' /\ ParentBound' /\ MadeSupported'
           /\ SucceededIsBound' /\ CreateInv'
<1>1. PICK n \in Nat \ {0} :
          /\ n \notin DOMAIN made /\ DOMAIN made' = DOMAIN made \cup {n}
          /\ \A x \in DOMAIN made : made'[x] = made[x]
          /\ made'[n].res = r
          /\ made'[n].key = <<work[w][r].op, work[w][r].version>>
    BY DEF Adds
<1>2. Shapes'
    BY DEF CatalogInv, RunInv, Shapes, RowShape, AskShape
<1>3. UpdateNamed' /\ SucceededIsBound'
    BY DEF CatalogInv, RunInv, UpdateNamed, SucceededIsBound
<1>4. ParentBound' /\ MadeSupported'
    <2>1. /\ "create" \in provider.supports[r]
          /\ r = "price" => binding["product"] # 0
        BY DEF CatalogInv, RunInv, RunKnows, Calling
    <2> QED
        BY <1>1, <2>1 DEF CatalogInv, RunInv, ParentBound, MadeSupported
<1>5. Blind(r) =>
          /\ Reached(r, work[w][r].version)
          /\ \A x \in DOMAIN made : made[x].res = r => made[x].key[2] # work[w][r].version
          /\ work[w][r].version = row[r].version => row[r].status = "processing" \/ Closed(r)
          /\ \A u \in Worker : MayCreate(u, r)' => work'[u][r].version # work[w][r].version
    <2> SUFFICES ASSUME Blind(r)
                 PROVE  /\ Reached(r, work[w][r].version)
                        /\ \A x \in DOMAIN made :
                               made[x].res = r => made[x].key[2] # work[w][r].version
                        /\ work[w][r].version = row[r].version =>
                               row[r].status = "processing" \/ Closed(r)
                        /\ \A u \in Worker :
                               MayCreate(u, r)' => work'[u][r].version # work[w][r].version
        OBVIOUS
    <2>1. MayCreate(w, r)
        BY DEF CatalogInv, CreateInv, CallsBlindly, MayCreate, Blind
    <2>2. /\ Reached(r, work[w][r].version)
          /\ \A x \in DOMAIN made : made[x].res = r => made[x].key[2] # work[w][r].version
          /\ work[w][r].version = row[r].version => row[r].status = "processing" \/ Closed(r)
        BY <2>1 DEF CatalogInv, CreateInv, CreatorIsFirst, Holds
    <2>3. \A u \in Worker : MayCreate(u, r)' => work'[u][r].version # work[w][r].version
        BY <2>1 DEF CatalogInv, CreateInv, CreatorIsAlone, Quiet
    <2> QED
        BY <2>2, <2>3
<1>6. \A q \in Resource : Blind(q)' <=> Blind(q)
    BY DEF Blind
<1>7. MadeIsClosed'
    <2> SUFFICES ASSUME NEW q \in Resource, NEW x \in DOMAIN made', Blind(q), made'[x].res = q
                 PROVE  /\ made'[x].key[1] = "create"
                        /\ Reached(q, made'[x].key[2])
                        /\ made'[x].key[2] = row[q].version => Shut(q)
        BY <1>6 DEF MadeIsClosed, Reached, Closed, Shut
    <2>1. CASE x = n
        BY <1>1, <1>5, <2>1 DEF Shut
    <2>2. CASE x \in DOMAIN made
        BY <1>1, <2>2 DEF CatalogInv, CreateInv, MadeIsClosed, Shut
    <2> QED
        BY <1>1, <2>1, <2>2
<1>8. CreatorIsFirst'
    <2> SUFFICES ASSUME NEW u \in Worker, NEW q \in Resource, Blind(q), MayCreate(u, q)'
                 PROVE  /\ work'[u][q].op = "create"
                        /\ Reached(q, work[u][q].version)
                        /\ work'[u][q].version = work[u][q].version
                        /\ \A x \in DOMAIN made' :
                               made'[x].res = q => made'[x].key[2] # work'[u][q].version
                        /\ work[u][q].version = row[q].version =>
                               row[q].remote = 0 /\ (Owns(u, q) \/ Closed(q))
        BY <1>6 DEF CreatorIsFirst, Reached, Holds, Closed, Owns, Generation
    <2>1. /\ MayCreate(u, q)
          /\ work'[u][q].op = work[u][q].op /\ work'[u][q].version = work[u][q].version
        BY DEF Quiet
    <2>2. /\ work[u][q].op = "create" /\ Reached(q, work[u][q].version)
          /\ \A x \in DOMAIN made : made[x].res = q => made[x].key[2] # work[u][q].version
          /\ work[u][q].version = row[q].version =>
                 row[q].remote = 0 /\ (Owns(u, q) \/ Closed(q))
        BY <2>1 DEF CatalogInv, CreateInv, CreatorIsFirst, Owns, Holds
    <2>3. made'[n].res = q => made'[n].key[2] # work'[u][q].version
        BY <1>1, <1>5
    <2> QED
        BY <1>1, <2>1, <2>2, <2>3
<1>9. CreatorIsAlone'
    BY <1>6 DEF CatalogInv, CreateInv, CreatorIsAlone, Quiet
<1>10. CallsBlindly'
    BY DEF CallsBlindly, Quiet
<1>11. FirstCreateOnce'
    <2> SUFFICES ASSUME NEW q \in Resource, Blind(q),
                        NEW x \in DOMAIN made', NEW y \in DOMAIN made',
                        made'[x] = made'[y], made'[x].res = q
                 PROVE  x = y
        BY <1>6 DEF FirstCreateOnce, Blind
    <2>1. ASSUME NEW z \in DOMAIN made, made'[z] = made'[n], made'[n].res = q
          PROVE  FALSE
        BY <1>1, <1>5, <2>1
    <2>2. x \in DOMAIN made /\ y \in DOMAIN made => x = y
        BY <1>1 DEF CatalogInv, CreateInv, FirstCreateOnce, Blind
    <2> QED
        BY <1>1, <2>1, <2>2
<1> QED
    BY <1>2, <1>3, <1>4, <1>7, <1>8, <1>9, <1>10, <1>11 DEF CreateInv

LEMMA CreateKeeps ==
    ASSUME CatalogInv, NEW w \in Worker, NEW r \in Resource, Create(w, r)
    PROVE  CatalogInv'
<1>1. UNCHANGED <<provider, version, row, binding, ask, overtaken>>
    BY DEF Create, callers
<1>2. \E x :
          /\ work[w][r].pc = "calling" /\ work[w][r].op = "create"
          /\ Moved(w, r, "committing", work[w][r].op, work[w][r].version, work[w][r].remote, x)
          /\ x # 0
          /\ learned' = learned \cup {x} /\ UNCHANGED <<bound, orphaned, lost>>
    <2>1. \E x : x # 0 /\ Answered(w, r, x)
        <3>1. \/ Answered(w, r, Len(made) + 1)
              \/ \E x \in KeptUnder(r, Generation(work[w][r])) : Answered(w, r, x)
            BY DEF Create
        <3>2. KeptUnder(r, Generation(work[w][r])) \subseteq DOMAIN made
            BY DEF KeptUnder
        <3> QED
            BY <3>1, <3>2, AnswersAreIds DEF CatalogInv, RunInv
    <2> QED
        BY <2>1, AnsweredMoves DEF Create, At, CatalogInv, RunInv, Shapes
<1>3. Frames' /\ RunKnows'
    BY <1>1, <1>2
    DEF RunKnows, Unclaimed, Owing, Calling, Waits, RunInv, CatalogInv, Moved, Goes,
        Backed, FrameIs, Resource
<1>4. Nested'
    BY <1>1, <1>2 DEF Nested, RunInv, CatalogInv, Moved, Goes, Backed, FrameIs, Resource
<1>5. EvidenceOwed'
    BY <1>1, <1>2
    DEF EvidenceOwed, RunKnows, Nested, Owing, RunInv, CatalogInv, Moved, Goes, Backed,
        FrameIs, Resource
<1>6. Quiet
    BY <1>1, <1>2
    DEF Quiet, MayCreate, CreateInv, CallsBlindly, RunInv, CatalogInv, Moved, Goes,
        Backed, FrameIs, Resource
<1>7. ~MayCreate(w, r)'
    BY <1>2 DEF Moved, FrameIs, MayCreate
<1>8. CASE made' = made
    BY <1>1, <1>3, <1>4, <1>5, <1>6, <1>8, StandingStill DEF CatalogInv, RunInv
<1>9. CASE made' = Made(w, r)
    <2>1. Adds(w, r) /\ \E S : made' \in Seq(S)
        BY <1>9, MadeAdds DEF CatalogInv, RunInv
    <2> QED
        BY <1>1, <1>2, <1>3, <1>4, <1>5, <1>6, <1>7, <2>1, MakingKeeps
        DEF CatalogInv, RunInv
<1> QED
    BY <1>8, <1>9 DEF Create

LEMMA CreateThrowsKeeps ==
    ASSUME CatalogInv, NEW w \in Worker, NEW r \in Resource, CreateThrows(w, r)
    PROVE  CatalogInv'
<1>1. UNCHANGED <<provider, version, row, binding, ask, overtaken>>
    BY DEF CreateThrows, callers
<1>2. /\ work[w][r].pc = "calling" /\ work[w][r].op = "create"
      /\ Goes(w, r, "failing")
      /\ UNCHANGED <<learned, bound, orphaned, lost>>
    BY GotoMoves DEF CreateThrows, At, evidence, CatalogInv, RunInv, Shapes
<1>3. Frames' /\ RunKnows'
    BY <1>1, <1>2
    DEF RunKnows, Unclaimed, Owing, Calling, Waits, RunInv, CatalogInv, Moved, Goes,
        Backed, FrameIs, Resource
<1>4. Nested'
    BY <1>1, <1>2 DEF Nested, RunInv, CatalogInv, Moved, Goes, Backed, FrameIs, Resource
<1>5. EvidenceOwed'
    BY <1>1, <1>2
    DEF EvidenceOwed, RunKnows, Nested, Owing, RunInv, CatalogInv, Moved, Goes, Backed,
        FrameIs, Resource
<1>6. Quiet
    BY <1>1, <1>2
    DEF Quiet, MayCreate, CreateInv, CallsBlindly, RunInv, CatalogInv, Moved, Goes,
        Backed, FrameIs, Resource
<1>7. ~MayCreate(w, r)'
    BY <1>2 DEF Goes, Moved, FrameIs, MayCreate
<1>8. CASE made' = made
    BY <1>1, <1>3, <1>4, <1>5, <1>6, <1>8, StandingStill DEF CatalogInv, RunInv
<1>9. CASE made' = Made(w, r)
    <2>1. Adds(w, r) /\ \E S : made' \in Seq(S)
        BY <1>9, MadeAdds DEF CatalogInv, RunInv
    <2> QED
        BY <1>1, <1>2, <1>3, <1>4, <1>5, <1>6, <1>7, <2>1, MakingKeeps
        DEF CatalogInv, RunInv
<1> QED
    BY <1>8, <1>9 DEF CreateThrows

-----------------------------------------------------------------------------
\* Steps that commit

\* A commit binds a provider id, and nothing is unbound.
LEMMA CommittedBinds ==
    ASSUME CatalogInv, NEW w \in Worker, NEW r \in Resource,
           work[w][r].pc \in {"committing", "recommitting"}, Committed(w, r)
    PROVE  /\ work[w][r].answer # 0
           /\ RowPut(r, "succeeded", "clear", row[r].op, row[r].version,
                     work[w][r].answer, Nobody)
           /\ DOMAIN binding' = Resource /\ binding'[r] = work[w][r].answer
           /\ \A q \in Resource : q # r => binding'[q] = binding[q]
           /\ bound' = bound \cup {work[w][r].answer}
<1>1. work[w][r].answer # 0
    BY DEF CatalogInv, RunInv, RunKnows, Owing
<1>2. RowPut(r, "succeeded", "clear", row[r].op, row[r].version, work[w][r].answer, Nobody)
    BY WrittenPuts DEF Committed, CatalogInv, RunInv, Shapes
<1> QED
    BY <1>1, <1>2 DEF Committed, CatalogInv, RunInv, Shapes

LEMMA CommittingKeeps ==
    ASSUME CatalogInv, NEW w \in Worker, NEW r \in Resource,
           work[w][r].pc \in {"committing", "recommitting"}, Committed(w, r),
           UNCHANGED <<provider, version, ask, made, overtaken>>, Frames', Quiet
    PROVE  /\ Shapes' /\ UpdateNamed' /\ ParentBound' /\ MadeSupported'
           /\ SucceededIsBound' /\ CreateInv'
<1>1. /\ work[w][r].answer # 0
      /\ RowPut(r, "succeeded", "clear", row[r].op, row[r].version, work[w][r].answer, Nobody)
      /\ DOMAIN binding' = Resource /\ binding'[r] = work[w][r].answer
      /\ \A q \in Resource : q # r => binding'[q] = binding[q]
    BY CommittedBinds
<1>2. r = "price" => binding["product"] # 0
    BY <1>1 DEF CatalogInv, RunInv, RunKnows
<1>3. Shapes'
    BY <1>1 DEF CatalogInv, RunInv, Shapes, AskShape, RowPut
<1>4. UpdateNamed' /\ SucceededIsBound'
    BY <1>1
    DEF CatalogInv, RunInv, Shapes, AskShape, UpdateNamed, SucceededIsBound, RowPut
<1>5. ParentBound' /\ MadeSupported'
    BY <1>1, <1>2 DEF CatalogInv, RunInv, ParentBound, MadeSupported, RowPut, Resource
<1>6. ASSUME NEW q \in Resource, Blind(q)'
      PROVE  Blind(q) /\ GoesOn(q)
    <2>1. Blind(q) /\ row'[q] = row[q]
        BY <1>1, <1>6 DEF Blind, RowPut
    <2> QED
        BY <2>1 DEF GoesOn, Shut, Closed, Owns, CatalogInv, RunInv, Shapes, RowShape
<1>7. CreateInv'
    BY <1>3, <1>6, CreatesGoOn DEF CatalogInv, RunInv, Shapes
<1> QED
    BY <1>3, <1>4, <1>5, <1>7

LEMMA CommitKeeps ==
    ASSUME CatalogInv, NEW w \in Worker, NEW r \in Resource, Commit(w, r) \/ CommitThrows(w, r)
    PROVE  CatalogInv'
<1>1. UNCHANGED <<provider, version, ask, made, overtaken, learned, orphaned, lost>>
    BY DEF Commit, CommitThrows, atProvider, callers
<1>2. CASE /\ NothingCommitted
           /\ \/ /\ work[w][r].pc = "committing"
                 /\ Goes(w, r, "superseded") \/ Goes(w, r, "remembering")
              \/ /\ work[w][r].pc = "recommitting"
                 /\ Goes(w, r, "failing") \/ Backed(w, r, "failing")
    <2>1. UNCHANGED <<row, binding, bound>>
        BY <1>2 DEF NothingCommitted
    <2>2. Frames' /\ RunKnows'
        BY <1>1, <1>2, <2>1
        DEF RunKnows, Unclaimed, Owing, Calling, Waits, RunInv, CatalogInv, Moved, Goes,
            Backed, FrameIs, Resource
    <2>3. Nested'
        BY <1>1, <1>2, <2>1
        DEF Nested, RunInv, CatalogInv, Moved, Goes, Backed, FrameIs, Resource
    <2>4. EvidenceOwed'
        BY <1>1, <1>2, <2>1
        DEF EvidenceOwed, RunKnows, Nested, Owing, RunInv, CatalogInv, Moved, Goes,
            Backed, FrameIs, Resource
    <2>5. Quiet
        BY <1>1, <1>2, <2>1
        DEF Quiet, MayCreate, CreateInv, CallsBlindly, RunInv, CatalogInv, Moved, Goes,
            Backed, FrameIs, Resource
    <2> QED
        BY <1>1, <2>1, <2>2, <2>3, <2>4, <2>5, StandingStill DEF CatalogInv, RunInv
<1>3. CASE /\ work[w][r].pc \in {"committing", "recommitting"} /\ Committed(w, r)
           /\ \/ Backed(w, r, "awaiting") \/ Backed(w, r, "failing")
              \/ Goes(w, r, "remembering") \/ Goes(w, r, "failing")
    <2>1. /\ work[w][r].answer # 0
          /\ \A q \in Resource : binding'[q] = 0 => binding[q] = 0
          /\ bound' = bound \cup {work[w][r].answer}
        BY <1>3, CommittedBinds
    <2>2. Frames' /\ RunKnows'
        BY <1>1, <1>3, <2>1
        DEF RunKnows, Unclaimed, Owing, Calling, Waits, RunInv, CatalogInv, Moved, Goes,
            Backed, FrameIs, Resource
    <2>3. Nested'
        BY <1>1, <1>3, <2>1
        DEF Nested, RunInv, CatalogInv, Moved, Goes, Backed, FrameIs, Resource
    <2>4. EvidenceOwed'
        BY <1>1, <1>3, <2>1
        DEF EvidenceOwed, RunKnows, Nested, Owing, RunInv, CatalogInv, Moved, Goes,
            Backed, FrameIs, Resource
    <2>5. Quiet
        BY <1>1, <1>3, <2>1
        DEF Quiet, MayCreate, CreateInv, CallsBlindly, RunInv, CatalogInv, Moved, Goes,
            Backed, FrameIs, Resource
    <2> QED
        BY <1>1, <1>3, <2>2, <2>3, <2>4, <2>5, CommittingKeeps DEF CatalogInv, RunInv
<1> QED
    BY <1>2, <1>3, GotoMoves, BackMoves
    DEF Commit, CommitThrows, RecoveryFails, At, Returns, Throws, CatalogInv, RunInv, Shapes

-----------------------------------------------------------------------------
\* The theorems

LEMMA CatalogInvNext == CatalogInv /\ [Next]_vars => CatalogInv'
<1> SUFFICES ASSUME CatalogInv, [Next]_vars PROVE CatalogInv'
    OBVIOUS
<1>1. ASSUME NEW w \in Worker, NEW r \in Resource,
             \/ Take(w, r) \/ Check(w, r) \/ Claim(w, r) \/ ClaimsNothing(w, r) \/ Skip(w, r)
             \/ Recover(w, r) \/ Create(w, r) \/ Update(w, r) \/ Commit(w, r)
             \/ Remember(w, r) \/ Report(w, r) \/ Fail(w, r)
      PROVE  CatalogInv'
    BY <1>1, TakeKeeps, CheckKeeps, ClaimKeeps, ClaimsNothingKeeps, SkipKeeps, RecoverKeeps,
       CreateKeeps, UpdateKeeps, CommitKeeps, RememberKeeps, ReportKeeps, FailKeeps
<1>2. ASSUME NEW w \in Worker,
             \/ Ensure(w) \/ EnsureRequest(w) \/ AwaitBinding(w) \/ AwaitRow(w)
             \/ EnsureThrows(w) \/ Crash(w)
      PROVE  CatalogInv'
    BY <1>2, EnsureKeeps, EnsureRequestKeeps, AwaitBindingKeeps, AwaitRowKeeps,
       EnsureThrowsKeeps, CrashKeeps
<1>3. ASSUME NEW w \in Worker, NEW r \in Resource,
             \/ SkipThrows(w, r) \/ CreateThrows(w, r) \/ UpdateThrows(w, r)
             \/ CommitThrows(w, r) \/ RememberThrows(w, r) \/ ReportThrows(w, r)
             \/ FailThrows(w, r)
      PROVE  CatalogInv'
    BY <1>3, SkipThrowsKeeps, CreateThrowsKeeps, UpdateThrowsKeeps, CommitKeeps,
       RememberThrowsKeeps, ReportThrowsKeeps, FailThrowsKeeps
<1>4. ASSUME NEW c \in Caller, Asks(c)
      PROVE  CatalogInv'
    BY <1>4, ReadToRequestKeeps, ReadToRetryKeeps, ReadToReconcileKeeps, RequestKeeps,
       RetryKeeps, ReconcileKeeps, OutsideKeeps DEF Asks
<1>5. CASE Tick \/ (\E r \in Resource : Edit(r)) \/ (\E x \in DOMAIN made : RemoveRemote(x))
    BY <1>5, TickKeeps, OutsideKeeps
<1>6. CASE UNCHANGED vars
    <2>1. UNCHANGED <<provider, version, row, binding, made, overtaken, ask, work, evidence>>
        BY <1>6 DEF vars, atProvider, callers
    <2>2. Frames' /\ RunKnows' /\ Nested' /\ EvidenceOwed' /\ Quiet
        BY <2>1, RunsStill, QuietStill
    <2> QED
        BY <2>1, <2>2, StandingStill DEF CatalogInv, RunInv
<1> QED
    BY <1>1, <1>2, <1>3, <1>4, <1>5, <1>6 DEF Next, Proceed, Disturbed

\* The inductive invariant of catalog synchronization: what a run of the job
\* knows at each of its awaits, who may still create, and where the id of what
\* was made is kept (CatalogProductSynchronizer.handle, CatalogPriceSynchronizer,
\* CatalogSyncCommitter).
THEOREM CatalogInvariant == Spec => []CatalogInv
BY CatalogInvInit, CatalogInvNext, PTL DEF Spec

\* A row that says succeeded names the provider resource that is bound, whatever
\* runs were superseded, recovered or reconciled in between
\* (CatalogSyncCommitter.product, price).
THEOREM SucceededRowIsBound == Spec => []SucceededIsBound
<1>1. CatalogInv => SucceededIsBound
    BY DEF CatalogInv, RunInv
<1> QED
    BY <1>1, CatalogInvariant, PTL

\* A provider id that a run has learned is bound, reported as an orphan, or
\* still in the hands of a run, unless its report threw or its process died
\* (the catch of the commit, rememberRemote, recordOrphan).
THEOREM EvidenceIsKept == Spec => []EvidenceKept
<1>1. CatalogInv => EvidenceKept
    <2> SUFFICES ASSUME CatalogInv, NEW x \in learned, x \notin bound \cup orphaned \cup lost
                 PROVE  \E w \in Worker : x \in InHand(w)
        BY DEF EvidenceKept
    <2>1. PICK w \in Worker, r \in Resource : work[w][r].pc \in Owing /\ work[w][r].answer = x
        BY DEF CatalogInv, RunInv, EvidenceOwed
    <2>2. x # 0
        BY <2>1 DEF CatalogInv, RunInv, RunKnows
    <2> QED
        BY <2>1, <2>2 DEF InHand
<1> QED
    BY <1>1, CatalogInvariant, PTL

\* Without native idempotency the provider is asked at most once to create a
\* resource for one generation while the resource is not bound, for any number
\* of workers, deliveries, expired claims, retries and lost answers
\* (CatalogProductSynchronizer, claimGeneration, the guards of requester and
\* retrier).
THEOREM CreatedOnce == Spec => []FirstCreateOnce
<1>1. CatalogInv => FirstCreateOnce
    BY DEF CatalogInv, CreateInv
<1> QED
    BY <1>1, CatalogInvariant, PTL

=============================================================================

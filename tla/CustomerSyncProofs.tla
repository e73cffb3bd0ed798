------------------------- MODULE CustomerSyncProofs -------------------------
(***************************************************************************)
(* Proofs about CustomerSync, for any calls and any number of failures:    *)
(* the state agrees with the binding, without native idempotency no second *)
(* customer is created, and a customer the row or a call knows of is       *)
(* accounted for.                                                          *)
(***************************************************************************)
EXTENDS CustomerSync, TLAPS

Status == {"absent", "pending", "synchronized", "failed", "reconciliation_required"}
RowFields == {"status", "remote", "attempts", "owner", "lease"}
CallFields == {"pc", "bound", "seen", "answer", "conflict"}

\* What the proofs need of the types.
Shapes ==
    /\ created \in Nat
    /\ DOMAIN row = RowFields
    /\ row.status \in Status
    /\ call = [c \in Call |-> call[c]]
    /\ \A c \in Call : DOMAIN call[c] = CallFields /\ DOMAIN call[c].seen = RowFields

\* A binding is never replaced, so what a call has read of it still holds.
BindingStands ==
    \A c \in Call :
        /\ call[c].bound # 0 => call[c].bound = binding
        /\ call[c].seen.status = "synchronized" => binding # 0

\* What a call holds at the points where it writes.
InHand ==
    \A c \in Call :
        /\ call[c].pc \in {"created", "persisting"} => call[c].answer # 0
        /\ call[c].pc = "updating" => call[c].bound # 0
        /\ call[c].pc = "synchronizing" => binding # 0 /\ call[c].answer = binding
        /\ call[c].pc = "rereading" =>
               call[c].seen.status = "synchronized" \/ NeedsManual(c)

\* Before the first creation no customer is known anywhere.
NothingCreated ==
    created = 0 =>
        /\ binding = 0 /\ keyed = 0 /\ row.remote = 0
        /\ \A c \in Call :
               call[c].bound = 0 /\ call[c].seen.remote = 0 /\ call[c].answer = 0

\* A call that may still create, or record that it did not, holds the claim.
CreatorHolds ==
    ~native /\ ~refused =>
        \A c \in Call : call[c].pc \in {"creating", "failing"} =>
            /\ created = 0
            /\ Holds(c)
            /\ row.status \in {"pending", "reconciliation_required"}

\* Once a customer was created the row never invites another creation.
NoInvitation ==
    ~native /\ ~refused /\ created # 0 => row.status \notin {"absent", "failed"}

SyncInv ==
    /\ Shapes
    /\ BindingStands
    /\ InHand
    /\ SynchronizedIsBound
    /\ NothingCreated
    /\ CreatorHolds
    /\ NoInvitation
    /\ OneRemoteCustomer

-----------------------------------------------------------------------------

LEMMA SyncInvInit == Init => SyncInv
<1> SUFFICES ASSUME Init PROVE SyncInv
    OBVIOUS
<1>1. row = NoRow /\ call = [c \in Call |-> Resting]
    BY DEF Init
<1>2. Shapes
    BY <1>1 DEF Init, Shapes, RowFields, CallFields, Status, NoRow, Resting
<1>3. BindingStands /\ InHand /\ CreatorHolds
    BY <1>1 DEF BindingStands, InHand, CreatorHolds, NoRow, Resting
<1>4. SynchronizedIsBound /\ NothingCreated /\ NoInvitation /\ OneRemoteCustomer
    BY <1>1 DEF Init, SynchronizedIsBound, NothingCreated, NoInvitation,
                OneRemoteCustomer, NoRow, Resting
<1> QED
    BY <1>2, <1>3, <1>4 DEF SyncInv

-----------------------------------------------------------------------------
\* How a step moves one call: the others stay where they are.

Moved(c, pc, bound, seen, answer) ==
    /\ call' = [d \in Call |-> call'[d]]
    /\ DOMAIN call'[c] = CallFields
    /\ call'[c].pc = pc
    /\ call'[c].bound = bound
    /\ call'[c].seen = seen
    /\ call'[c].answer = answer
    /\ \A d \in Call : d # c => call'[d] = call[d]

Stays(c, pc) == Moved(c, pc, call[c].bound, call[c].seen, call[c].answer)
Leaves(c, pc) == Moved(c, pc, 0, NoRow, 0)

LEMMA BecomesMoves ==
    ASSUME Shapes, NEW c \in Call, NEW next, DOMAIN next = CallFields,
           call' = [call EXCEPT ![c] = next]
    PROVE  Moved(c, next.pc, next.bound, next.seen, next.answer)
    BY DEF Shapes, Moved

LEMMA GotoMoves ==
    ASSUME Shapes, NEW c \in Call, NEW label, Goto(c, label)
    PROVE  Stays(c, label)
    BY DEF Shapes, Goto, Stays, Moved, CallFields

LEMMA LeavingMoves ==
    ASSUME Shapes, NEW c \in Call
    PROVE  /\ call' = [call EXCEPT ![c] = Ended] => Leaves(c, "ended")
           /\ call' = [call EXCEPT ![c] = Again] => Leaves(c, "again")
<1>1. ASSUME call' = [call EXCEPT ![c] = Ended] PROVE Leaves(c, "ended")
    BY <1>1 DEF Shapes, Ended, Resting, CallFields, Leaves, Moved
<1>2. ASSUME call' = [call EXCEPT ![c] = Again] PROVE Leaves(c, "again")
    BY <1>2 DEF Shapes, Again, Resting, CallFields, Leaves, Moved
<1> QED
    BY <1>1, <1>2

\* Where an attempt that holds the claim goes.
Heads(c, bound) ==
    \/ /\ call[c].seen.status = "reconciliation_required" /\ call[c].seen.remote # 0
       /\ bound \in {0, call[c].seen.remote}
       /\ Moved(c, IF bound = 0 THEN "persisting" ELSE "synchronizing",
                bound, call[c].seen, call[c].seen.remote)
    \/ bound # 0 /\ Moved(c, "updating", bound, call[c].seen, call[c].answer)
    \/ /\ ~(call[c].seen.status = "reconciliation_required" /\ call[c].seen.remote # 0)
       /\ bound = 0 /\ Moved(c, "creating", bound, call[c].seen, call[c].answer)

LEMMA CourseHeads ==
    ASSUME Shapes, NEW c \in Call, NEW bound, call' = [call EXCEPT ![c] = Course(c, bound)]
    PROVE  Heads(c, bound)
<1> DEFINE known_ == call[c].seen.status = "reconciliation_required" /\ call[c].seen.remote # 0
<1>1. CASE known_ /\ bound \in {0, call[c].seen.remote}
    <2> DEFINE next == [call[c] EXCEPT !.bound = bound, !.answer = call[c].seen.remote,
                          !.pc = IF bound = 0 THEN "persisting" ELSE "synchronizing"]
    <2>1. call' = [call EXCEPT ![c] = next]
        BY <1>1 DEF Course
    <2>2. /\ DOMAIN next = CallFields /\ next.bound = bound /\ next.seen = call[c].seen
          /\ next.answer = call[c].seen.remote
          /\ next.pc = IF bound = 0 THEN "persisting" ELSE "synchronizing"
        BY DEF Shapes, CallFields
    <2> HIDE DEF next
    <2>3. Moved(c, next.pc, next.bound, next.seen, next.answer)
        BY <2>1, <2>2, BecomesMoves
    <2> QED
        BY <1>1, <2>2, <2>3 DEF Heads
<1>2. CASE ~(known_ /\ bound \in {0, call[c].seen.remote}) /\ bound # 0
    <2> DEFINE next == [call[c] EXCEPT !.bound = bound, !.pc = "updating"]
    <2>1. call' = [call EXCEPT ![c] = next]
        BY <1>2 DEF Course
    <2>2. /\ DOMAIN next = CallFields /\ next.bound = bound /\ next.seen = call[c].seen
          /\ next.answer = call[c].answer /\ next.pc = "updating"
        BY DEF Shapes, CallFields
    <2> HIDE DEF next
    <2>3. Moved(c, next.pc, next.bound, next.seen, next.answer)
        BY <2>1, <2>2, BecomesMoves
    <2> QED
        BY <1>2, <2>2, <2>3 DEF Heads
<1>3. CASE ~known_ /\ bound = 0
    <2> DEFINE next == [call[c] EXCEPT !.bound = bound, !.pc = "creating"]
    <2>1. call' = [call EXCEPT ![c] = next]
        BY <1>3 DEF Course
    <2>2. /\ DOMAIN next = CallFields /\ next.bound = bound /\ next.seen = call[c].seen
          /\ next.answer = call[c].answer /\ next.pc = "creating"
        BY DEF Shapes, CallFields
    <2> HIDE DEF next
    <2>3. Moved(c, next.pc, next.bound, next.seen, next.answer)
        BY <2>1, <2>2, BecomesMoves
    <2> QED
        BY <1>3, <2>2, <2>3 DEF Heads
<1> QED
    BY <1>1, <1>2, <1>3

\* How a step completes an attempt: nothing, if it lost its claim.
Settles(c, status, id) ==
    /\ DOMAIN row' = RowFields
    /\ \/ row' = row
       \/ /\ Holds(c)
          /\ row'.status = status /\ row'.remote = id
          /\ row'.owner = Nobody

LEMMA CompletedSettles ==
    ASSUME Shapes, NEW c \in Call, NEW status, NEW id,
           row' \in {row, IF Holds(c) THEN Completed(status, id) ELSE row}
    PROVE  Settles(c, status, id)
    BY DEF Shapes, Completed, RowFields, Settles

-----------------------------------------------------------------------------
\* Each action keeps the invariant.


LEMMA ReadBindingKeeps == ASSUME SyncInv, NEW c \in Call, ReadBinding(c) PROVE SyncInv'
<1>1. /\ UNCHANGED <<native, row, binding, created, keyed, refused>>
      /\ Moved(c, "reading", binding, call[c].seen, call[c].answer)
    BY DEF ReadBinding, At, Fault, remote, SyncInv, Moved, CallFields, Shapes
<1>2. Shapes'
    BY <1>1, SyncAssumption DEF SyncInv, Shapes, Moved, Status
<1>3. BindingStands'
    BY <1>1, SyncAssumption DEF SyncInv, Shapes, BindingStands, SynchronizedIsBound,
        NothingCreated, Moved
<1>4. InHand'
    BY <1>1, SyncAssumption DEF SyncInv, Shapes, InHand, BindingStands,
        NothingCreated, NeedsManual, Moved
<1>5. SynchronizedIsBound'
    BY <1>1, SyncAssumption DEF SyncInv, Shapes, SynchronizedIsBound, InHand, Moved
<1>6. NothingCreated'
    BY <1>1, SyncAssumption DEF SyncInv, Shapes, NothingCreated, InHand,
        BindingStands, Moved
<1>7. CreatorHolds'
    BY <1>1, SyncAssumption DEF SyncInv, Shapes, CreatorHolds, Holds, BindingStands,
        NothingCreated, NoInvitation, NeedsManual, Moved
<1>8. NoInvitation'
    BY <1>1, SyncAssumption DEF SyncInv, Shapes, NoInvitation, Holds, CreatorHolds,
        NothingCreated, NeedsManual, Moved
<1>9. OneRemoteCustomer'
    BY <1>1, SyncAssumption DEF SyncInv, Shapes, OneRemoteCustomer, CreatorHolds,
        NothingCreated, Moved
<1> QED
    BY <1>2, <1>3, <1>4, <1>5, <1>6, <1>7, <1>8, <1>9 DEF SyncInv

LEMMA ReadStateKeeps == ASSUME SyncInv, NEW c \in Call, ReadState(c) PROVE SyncInv'
<1>1. /\ UNCHANGED <<native, row, binding, created, keyed, refused>>
      /\ Moved(c, "claiming", call[c].bound, row, call[c].answer)
    BY DEF ReadState, At, Fault, remote, SyncInv, Moved, CallFields, Shapes
<1>2. Shapes'
    BY <1>1, SyncAssumption DEF SyncInv, Shapes, Moved, Status, RowFields
<1>3. BindingStands'
    BY <1>1, SyncAssumption DEF SyncInv, Shapes, BindingStands, SynchronizedIsBound,
        NothingCreated, Moved
<1>4. InHand'
    BY <1>1, SyncAssumption DEF SyncInv, Shapes, InHand, BindingStands,
        NothingCreated, NeedsManual, Moved
<1>5. SynchronizedIsBound'
    BY <1>1, SyncAssumption DEF SyncInv, Shapes, SynchronizedIsBound, InHand, Moved
<1>6. NothingCreated'
    BY <1>1, SyncAssumption DEF SyncInv, Shapes, NothingCreated, InHand,
        BindingStands, Moved
<1>7. CreatorHolds'
    BY <1>1, SyncAssumption DEF SyncInv, Shapes, CreatorHolds, Holds, BindingStands,
        NothingCreated, NoInvitation, NeedsManual, Moved
<1>8. NoInvitation'
    BY <1>1, SyncAssumption DEF SyncInv, Shapes, NoInvitation, Holds, CreatorHolds,
        NothingCreated, NeedsManual, Moved
<1>9. OneRemoteCustomer'
    BY <1>1, SyncAssumption DEF SyncInv, Shapes, OneRemoteCustomer, CreatorHolds,
        NothingCreated, Moved
<1> QED
    BY <1>2, <1>3, <1>4, <1>5, <1>6, <1>7, <1>8, <1>9 DEF SyncInv

LEMMA TakeClaimKeeps == ASSUME SyncInv, NEW c \in Call, TakeClaim(c) PROVE SyncInv'
<1>1. UNCHANGED <<native, binding, created, keyed, refused>>
    BY DEF TakeClaim, remote
<1>2. \/ UNCHANGED row /\ Stays(c, "reading")
      \/ /\ Unmoved(c) /\ ~NeedsManual(c)
         /\ call[c].seen.status = "pending" => call[c].bound # 0 \/ native
         /\ DOMAIN row' = RowFields
         /\ row'.status = "pending" /\ row'.remote = row.remote
         /\ row'.attempts = row.attempts + 1 /\ row'.owner = c
         /\ \/ call[c].seen.status = "synchronized" /\ Stays(c, "rereading")
            \/ /\ ~(call[c].bound = 0 /\ call[c].seen.status = "synchronized")
               /\ Heads(c, call[c].bound)
    <2>1. CASE ~Unmoved(c)
        BY <2>1, GotoMoves DEF TakeClaim, SyncInv
    <2>2. CASE Unmoved(c)
        <3>1. /\ ~NeedsManual(c)
              /\ call[c].seen.status = "pending" => call[c].bound # 0 \/ native
              /\ row' = [row EXCEPT !.status = "pending", !.attempts = @ + 1,
                                    !.owner = c, !.lease = LeaseTtl]
              /\ call' = [call EXCEPT ![c] =
                     IF call[c].bound = 0 /\ call[c].seen.status = "synchronized"
                     THEN [call[c] EXCEPT !.pc = "rereading"]
                     ELSE Course(c, call[c].bound)]
            BY <2>2 DEF TakeClaim, MayReclaim, SyncInv, Shapes
        <3>2. /\ DOMAIN row' = RowFields
              /\ row'.status = "pending" /\ row'.remote = row.remote
              /\ row'.attempts = row.attempts + 1 /\ row'.owner = c
            BY <3>1 DEF SyncInv, Shapes, RowFields
        <3>3. CASE call[c].bound = 0 /\ call[c].seen.status = "synchronized"
            <4>1. Stays(c, "rereading")
                BY <3>1, <3>3 DEF SyncInv, Shapes, Stays, Moved, CallFields
            <4> QED
                BY <2>2, <3>1, <3>2, <3>3, <4>1
        <3>4. CASE ~(call[c].bound = 0 /\ call[c].seen.status = "synchronized")
            <4>1. Heads(c, call[c].bound)
                BY <3>1, <3>4, CourseHeads DEF SyncInv
            <4> QED
                BY <2>2, <3>1, <3>2, <3>4, <4>1
        <3> QED
            BY <3>3, <3>4
    <2> QED
        BY <2>1, <2>2
<1>3. Shapes'
    BY <1>1, <1>2, SyncAssumption DEF SyncInv, Shapes, Moved, Stays, Heads, Status
<1>4. BindingStands'
    BY <1>1, <1>2, SyncAssumption DEF SyncInv, Shapes, BindingStands,
        SynchronizedIsBound, NothingCreated, Moved, Stays, Heads, Unmoved, Status
<1>5. InHand'
    BY <1>1, <1>2, SyncAssumption DEF SyncInv, Shapes, InHand, BindingStands,
        NothingCreated, NeedsManual, Moved, Stays, Heads, Unmoved, Status
<1>6. SynchronizedIsBound'
    BY <1>1, <1>2, SyncAssumption DEF SyncInv, Shapes, SynchronizedIsBound, InHand,
        Moved, Stays, Heads, Unmoved, Status
<1>7. NothingCreated'
    BY <1>1, <1>2, SyncAssumption DEF SyncInv, Shapes, NothingCreated, InHand,
        BindingStands, Moved, Stays, Heads, Unmoved, Status
<1>8. CreatorHolds'
    BY <1>1, <1>2, SyncAssumption DEF SyncInv, Shapes, CreatorHolds, Holds,
        BindingStands, NothingCreated, NoInvitation, NeedsManual, Moved, Stays,
        Heads, Unmoved, Status
<1>9. NoInvitation'
    BY <1>1, <1>2, SyncAssumption DEF SyncInv, Shapes, NoInvitation, Holds,
        CreatorHolds, NothingCreated, NeedsManual, Moved, Stays, Heads, Unmoved,
        Status
<1>10. OneRemoteCustomer'
    BY <1>1, <1>2, SyncAssumption DEF SyncInv, Shapes, OneRemoteCustomer,
        CreatorHolds, NothingCreated, Moved, Stays, Heads, Unmoved, Status
<1> QED
    BY <1>3, <1>4, <1>5, <1>6, <1>7, <1>8, <1>9, <1>10 DEF SyncInv

LEMMA ExpireLeaseKeeps == ASSUME SyncInv, NEW c \in Call, ExpireLease(c) PROVE SyncInv'
<1>1. UNCHANGED <<native, binding, created, keyed, refused>>
    BY DEF ExpireLease, remote
<1>2. \/ UNCHANGED row /\ Stays(c, "reading")
      \/ /\ row.status = "pending" /\ DOMAIN row' = RowFields
         /\ row'.status = "reconciliation_required" /\ row'.remote = row.remote
         /\ row'.attempts = row.attempts /\ row'.owner = row.owner
         /\ Leaves(c, "again")
    <2>1. CASE ~Unmoved(c)
        BY <2>1, GotoMoves DEF ExpireLease, SyncInv
    <2>2. CASE Unmoved(c)
        <3>1. /\ row.status = "pending"
              /\ row' = [row EXCEPT !.status = "reconciliation_required", !.lease = 0]
              /\ Leaves(c, "again")
            BY <2>2, LeavingMoves DEF ExpireLease, Unmoved, SyncInv
        <3> QED
            BY <3>1 DEF SyncInv, Shapes, RowFields
    <2> QED
        BY <2>1, <2>2
<1>3. Shapes'
    BY <1>1, <1>2, SyncAssumption DEF SyncInv, Shapes, Moved, Stays, Leaves, NoRow,
        Status, RowFields
<1>4. BindingStands'
    BY <1>1, <1>2, SyncAssumption DEF SyncInv, Shapes, BindingStands,
        SynchronizedIsBound, NothingCreated, Moved, Stays, Leaves, NoRow
<1>5. InHand'
    BY <1>1, <1>2, SyncAssumption DEF SyncInv, Shapes, InHand, BindingStands,
        NothingCreated, NeedsManual, Moved, Stays, Leaves, NoRow
<1>6. SynchronizedIsBound'
    BY <1>1, <1>2, SyncAssumption DEF SyncInv, Shapes, SynchronizedIsBound, InHand,
        Moved, Stays, Leaves, NoRow
<1>7. NothingCreated'
    BY <1>1, <1>2, SyncAssumption DEF SyncInv, Shapes, NothingCreated, InHand,
        BindingStands, Moved, Stays, Leaves, NoRow
<1>8. CreatorHolds'
    BY <1>1, <1>2, SyncAssumption DEF SyncInv, Shapes, CreatorHolds, Holds,
        BindingStands, NothingCreated, NoInvitation, NeedsManual, Moved, Stays,
        Leaves, NoRow
<1>9. NoInvitation'
    BY <1>1, <1>2, SyncAssumption DEF SyncInv, Shapes, NoInvitation, Holds,
        CreatorHolds, NothingCreated, NeedsManual, Moved, Stays, Leaves, NoRow
<1>10. OneRemoteCustomer'
    BY <1>1, <1>2, SyncAssumption DEF SyncInv, Shapes, OneRemoteCustomer,
        CreatorHolds, NothingCreated, Moved, Stays, Leaves, NoRow
<1> QED
    BY <1>3, <1>4, <1>5, <1>6, <1>7, <1>8, <1>9, <1>10 DEF SyncInv

LEMMA StandBackKeeps == ASSUME SyncInv, NEW c \in Call, StandBack(c) PROVE SyncInv'
<1>1. /\ UNCHANGED <<native, row, binding, created, keyed, refused>>
      /\ Stays(c, "following") \/ (Stays(c, "rereading") /\ NeedsManual(c))
    BY GotoMoves DEF StandBack, At, Fault, remote, SyncInv
<1>2. Shapes'
    BY <1>1, SyncAssumption DEF SyncInv, Shapes, Moved, Stays, Status
<1>3. BindingStands'
    BY <1>1, SyncAssumption DEF SyncInv, Shapes, BindingStands, SynchronizedIsBound,
        NothingCreated, Moved, Stays
<1>4. InHand'
    BY <1>1, SyncAssumption DEF SyncInv, Shapes, InHand, BindingStands,
        NothingCreated, NeedsManual, Moved, Stays
<1>5. SynchronizedIsBound'
    BY <1>1, SyncAssumption DEF SyncInv, Shapes, SynchronizedIsBound, InHand, Moved,
        Stays
<1>6. NothingCreated'
    BY <1>1, SyncAssumption DEF SyncInv, Shapes, NothingCreated, InHand,
        BindingStands, Moved, Stays
<1>7. CreatorHolds'
    BY <1>1, SyncAssumption DEF SyncInv, Shapes, CreatorHolds, Holds, BindingStands,
        NothingCreated, NoInvitation, NeedsManual, Moved, Stays
<1>8. NoInvitation'
    BY <1>1, SyncAssumption DEF SyncInv, Shapes, NoInvitation, Holds, CreatorHolds,
        NothingCreated, NeedsManual, Moved, Stays
<1>9. OneRemoteCustomer'
    BY <1>1, SyncAssumption DEF SyncInv, Shapes, OneRemoteCustomer, CreatorHolds,
        NothingCreated, Moved, Stays
<1> QED
    BY <1>2, <1>3, <1>4, <1>5, <1>6, <1>7, <1>8, <1>9 DEF SyncInv

LEMMA RereadKeeps == ASSUME SyncInv, NEW c \in Call, Reread(c) PROVE SyncInv'
<1>1. UNCHANGED <<native, row, binding, created, keyed, refused>> /\ At(c, "rereading")
    BY DEF Reread, remote
<1>2. \/ ~NeedsManual(c) /\ Heads(c, binding)
      \/ Leaves(c, "ended")
      \/ Leaves(c, "again")
    BY CourseHeads, LeavingMoves DEF Reread, SyncInv
<1>3. Shapes'
    BY <1>1, <1>2, SyncAssumption DEF SyncInv, Shapes, Moved, Leaves, NoRow, Heads,
        Status, RowFields
<1>4. BindingStands'
    BY <1>1, <1>2, SyncAssumption DEF SyncInv, Shapes, BindingStands,
        SynchronizedIsBound, NothingCreated, Moved, Leaves, NoRow, Heads
<1>5. InHand'
    BY <1>1, <1>2, SyncAssumption DEF SyncInv, Shapes, InHand, BindingStands,
        NothingCreated, NeedsManual, Moved, Leaves, NoRow, Heads, At
<1>6. SynchronizedIsBound'
    BY <1>1, <1>2, SyncAssumption DEF SyncInv, Shapes, SynchronizedIsBound, InHand,
        Moved, Leaves, NoRow, Heads
<1>7. NothingCreated'
    BY <1>1, <1>2, SyncAssumption DEF SyncInv, Shapes, NothingCreated, InHand,
        BindingStands, Moved, Leaves, NoRow, Heads
<1>8. CreatorHolds'
    BY <1>1, <1>2, SyncAssumption DEF SyncInv, Shapes, CreatorHolds, Holds,
        BindingStands, NothingCreated, NoInvitation, NeedsManual, Moved, Leaves,
        NoRow, Heads, At, InHand
<1>9. NoInvitation'
    BY <1>1, <1>2, SyncAssumption DEF SyncInv, Shapes, NoInvitation, Holds,
        CreatorHolds, NothingCreated, NeedsManual, Moved, Leaves, NoRow, Heads
<1>10. OneRemoteCustomer'
    BY <1>1, <1>2, SyncAssumption DEF SyncInv, Shapes, OneRemoteCustomer,
        CreatorHolds, NothingCreated, Moved, Leaves, NoRow, Heads
<1> QED
    BY <1>3, <1>4, <1>5, <1>6, <1>7, <1>8, <1>9, <1>10 DEF SyncInv

LEMMA FollowKeeps == ASSUME SyncInv, NEW c \in Call, Follow(c) PROVE SyncInv'
<1>1. /\ UNCHANGED <<native, row, binding, created, keyed, refused>>
      /\ Leaves(c, "ended") \/ Leaves(c, "again")
    BY LeavingMoves DEF Follow, At, Fault, remote, SyncInv
<1>2. Shapes'
    BY <1>1, SyncAssumption DEF SyncInv, Shapes, Moved, Leaves, NoRow, Status,
        RowFields
<1>3. BindingStands'
    BY <1>1, SyncAssumption DEF SyncInv, Shapes, BindingStands, SynchronizedIsBound,
        NothingCreated, Moved, Leaves, NoRow
<1>4. InHand'
    BY <1>1, SyncAssumption DEF SyncInv, Shapes, InHand, BindingStands,
        NothingCreated, NeedsManual, Moved, Leaves, NoRow
<1>5. SynchronizedIsBound'
    BY <1>1, SyncAssumption DEF SyncInv, Shapes, SynchronizedIsBound, InHand, Moved,
        Leaves, NoRow
<1>6. NothingCreated'
    BY <1>1, SyncAssumption DEF SyncInv, Shapes, NothingCreated, InHand,
        BindingStands, Moved, Leaves, NoRow
<1>7. CreatorHolds'
    BY <1>1, SyncAssumption DEF SyncInv, Shapes, CreatorHolds, Holds, BindingStands,
        NothingCreated, NoInvitation, NeedsManual, Moved, Leaves, NoRow
<1>8. NoInvitation'
    BY <1>1, SyncAssumption DEF SyncInv, Shapes, NoInvitation, Holds, CreatorHolds,
        NothingCreated, NeedsManual, Moved, Leaves, NoRow
<1>9. OneRemoteCustomer'
    BY <1>1, SyncAssumption DEF SyncInv, Shapes, OneRemoteCustomer, CreatorHolds,
        NothingCreated, Moved, Leaves, NoRow
<1> QED
    BY <1>2, <1>3, <1>4, <1>5, <1>6, <1>7, <1>8, <1>9 DEF SyncInv

LEMMA CreateRemoteKeeps == ASSUME SyncInv, NEW c \in Call, CreateRemote(c) PROVE SyncInv'
<1>1. UNCHANGED <<native, row, binding, refused>> /\ call[c].pc = "creating"
    BY DEF CreateRemote, At
<1>2. /\ DOMAIN call' = Call
      /\ \/ /\ native /\ keyed # 0 /\ UNCHANGED <<created, keyed>>
            /\ Moved(c, "created", call[c].bound, call[c].seen, keyed)
         \/ /\ created' = created + 1 /\ keyed' = created + 1
            /\ Moved(c, "created", call[c].bound, call[c].seen, created + 1)
    <2>1. CASE native /\ keyed # 0
        BY <2>1 DEF CreateRemote, remote, SyncInv, Shapes, Moved, CallFields
    <2>2. CASE ~(native /\ keyed # 0)
        BY <2>2 DEF CreateRemote, remote, SyncInv, Shapes, Moved, CallFields
    <2> QED
        BY <2>1, <2>2
<1>3. Shapes'
    BY <1>1, <1>2, SyncAssumption DEF SyncInv, Shapes, Moved, Status
<1>4. BindingStands'
    BY <1>1, <1>2, SyncAssumption DEF SyncInv, Shapes, BindingStands,
        SynchronizedIsBound, NothingCreated, Moved
<1>5. InHand'
    BY <1>1, <1>2, SyncAssumption DEF SyncInv, Shapes, InHand, BindingStands,
        NothingCreated, NeedsManual, Moved
<1>6. SynchronizedIsBound'
    BY <1>1, <1>2, SyncAssumption DEF SyncInv, Shapes, SynchronizedIsBound, InHand,
        Moved
<1>7. NothingCreated'
    BY <1>1, <1>2, SyncAssumption DEF SyncInv, Shapes, NothingCreated, InHand,
        BindingStands, Moved
<1>8. CreatorHolds'
    BY <1>1, <1>2, SyncAssumption DEF SyncInv, Shapes, CreatorHolds, Holds,
        BindingStands, NothingCreated, NoInvitation, NeedsManual, Moved
<1>9. NoInvitation'
    BY <1>1, <1>2, SyncAssumption DEF SyncInv, Shapes, NoInvitation, Holds,
        CreatorHolds, NothingCreated, NeedsManual, Moved
<1>10. OneRemoteCustomer'
    BY <1>1, <1>2, SyncAssumption DEF SyncInv, Shapes, OneRemoteCustomer,
        CreatorHolds, NothingCreated, Moved
<1> QED
    BY <1>3, <1>4, <1>5, <1>6, <1>7, <1>8, <1>9, <1>10 DEF SyncInv

LEMMA CreateAnsweredKeeps == ASSUME SyncInv, NEW c \in Call, CreateAnswered(c) PROVE SyncInv'
<1>1. /\ UNCHANGED <<native, row, binding, created, keyed, refused>>
      /\ call[c].pc = "created"
      /\ Stays(c, "persisting")
    BY GotoMoves DEF CreateAnswered, At, Fault, remote, SyncInv
<1>2. Shapes'
    BY <1>1, SyncAssumption DEF SyncInv, Shapes, Moved, Stays, Status
<1>3. BindingStands'
    BY <1>1, SyncAssumption DEF SyncInv, Shapes, BindingStands, SynchronizedIsBound,
        NothingCreated, Moved, Stays
<1>4. InHand'
    BY <1>1, SyncAssumption DEF SyncInv, Shapes, InHand, BindingStands,
        NothingCreated, NeedsManual, Moved, Stays
<1>5. SynchronizedIsBound'
    BY <1>1, SyncAssumption DEF SyncInv, Shapes, SynchronizedIsBound, InHand, Moved,
        Stays
<1>6. NothingCreated'
    BY <1>1, SyncAssumption DEF SyncInv, Shapes, NothingCreated, InHand,
        BindingStands, Moved, Stays
<1>7. CreatorHolds'
    BY <1>1, SyncAssumption DEF SyncInv, Shapes, CreatorHolds, Holds, BindingStands,
        NothingCreated, NoInvitation, NeedsManual, Moved, Stays
<1>8. NoInvitation'
    BY <1>1, SyncAssumption DEF SyncInv, Shapes, NoInvitation, Holds, CreatorHolds,
        NothingCreated, NeedsManual, Moved, Stays
<1>9. OneRemoteCustomer'
    BY <1>1, SyncAssumption DEF SyncInv, Shapes, OneRemoteCustomer, CreatorHolds,
        NothingCreated, Moved, Stays
<1> QED
    BY <1>2, <1>3, <1>4, <1>5, <1>6, <1>7, <1>8, <1>9 DEF SyncInv

LEMMA CreateUncertainKeeps == ASSUME SyncInv, NEW c \in Call, CreateUncertain(c) PROVE SyncInv'
<1>1. /\ UNCHANGED <<native, row, binding, created, keyed, refused>>
      /\ Moved(c, AfterUncertain, call[c].bound, call[c].seen, 0)
    BY DEF CreateUncertain, At, Fault, remote, SyncInv, Moved, CallFields, Shapes
<1>2. Shapes'
    BY <1>1, SyncAssumption DEF SyncInv, Shapes, Moved, AfterUncertain, Status
<1>3. BindingStands'
    BY <1>1, SyncAssumption DEF SyncInv, Shapes, BindingStands, SynchronizedIsBound,
        NothingCreated, Moved, AfterUncertain
<1>4. InHand'
    BY <1>1, SyncAssumption DEF SyncInv, Shapes, InHand, BindingStands,
        NothingCreated, NeedsManual, Moved, AfterUncertain
<1>5. SynchronizedIsBound'
    BY <1>1, SyncAssumption DEF SyncInv, Shapes, SynchronizedIsBound, InHand, Moved,
        AfterUncertain
<1>6. NothingCreated'
    BY <1>1, SyncAssumption DEF SyncInv, Shapes, NothingCreated, InHand,
        BindingStands, Moved, AfterUncertain
<1>7. CreatorHolds'
    BY <1>1, SyncAssumption DEF SyncInv, Shapes, CreatorHolds, Holds, BindingStands,
        NothingCreated, NoInvitation, NeedsManual, Moved, AfterUncertain
<1>8. NoInvitation'
    BY <1>1, SyncAssumption DEF SyncInv, Shapes, NoInvitation, Holds, CreatorHolds,
        NothingCreated, NeedsManual, Moved, AfterUncertain
<1>9. OneRemoteCustomer'
    BY <1>1, SyncAssumption DEF SyncInv, Shapes, OneRemoteCustomer, CreatorHolds,
        NothingCreated, Moved, AfterUncertain
<1> QED
    BY <1>2, <1>3, <1>4, <1>5, <1>6, <1>7, <1>8, <1>9 DEF SyncInv

LEMMA CreateRefusedKeeps == ASSUME SyncInv, NEW c \in Call, CreateRefused(c) PROVE SyncInv'
<1>1. /\ UNCHANGED <<native, row, binding, created, keyed, refused>>
      /\ call[c].pc = "creating"
      /\ Stays(c, "failing")
    BY GotoMoves DEF CreateRefused, At, Fault, remote, SyncInv
<1>2. Shapes'
    BY <1>1, SyncAssumption DEF SyncInv, Shapes, Moved, Stays, Status
<1>3. BindingStands'
    BY <1>1, SyncAssumption DEF SyncInv, Shapes, BindingStands, SynchronizedIsBound,
        NothingCreated, Moved, Stays
<1>4. InHand'
    BY <1>1, SyncAssumption DEF SyncInv, Shapes, InHand, BindingStands,
        NothingCreated, NeedsManual, Moved, Stays
<1>5. SynchronizedIsBound'
    BY <1>1, SyncAssumption DEF SyncInv, Shapes, SynchronizedIsBound, InHand, Moved,
        Stays
<1>6. NothingCreated'
    BY <1>1, SyncAssumption DEF SyncInv, Shapes, NothingCreated, InHand,
        BindingStands, Moved, Stays
<1>7. CreatorHolds'
    BY <1>1, SyncAssumption DEF SyncInv, Shapes, CreatorHolds, Holds, BindingStands,
        NothingCreated, NoInvitation, NeedsManual, Moved, Stays
<1>8. NoInvitation'
    BY <1>1, SyncAssumption DEF SyncInv, Shapes, NoInvitation, Holds, CreatorHolds,
        NothingCreated, NeedsManual, Moved, Stays
<1>9. OneRemoteCustomer'
    BY <1>1, SyncAssumption DEF SyncInv, Shapes, OneRemoteCustomer, CreatorHolds,
        NothingCreated, Moved, Stays
<1> QED
    BY <1>2, <1>3, <1>4, <1>5, <1>6, <1>7, <1>8, <1>9 DEF SyncInv

LEMMA UpdateRemoteKeeps == ASSUME SyncInv, NEW c \in Call, UpdateRemote(c) PROVE SyncInv'
<1>1. /\ UNCHANGED <<native, row, binding, created, keyed, refused>>
      /\ call[c].pc = "updating"
      /\ Moved(c, "synchronizing", call[c].bound, call[c].seen, call[c].bound)
    BY DEF UpdateRemote, At, Fault, remote, SyncInv, Moved, CallFields, Shapes
<1>2. Shapes'
    BY <1>1, SyncAssumption DEF SyncInv, Shapes, Moved, Status
<1>3. BindingStands'
    BY <1>1, SyncAssumption DEF SyncInv, Shapes, BindingStands, SynchronizedIsBound,
        NothingCreated, Moved
<1>4. InHand'
    BY <1>1, SyncAssumption DEF SyncInv, Shapes, InHand, BindingStands,
        NothingCreated, NeedsManual, Moved
<1>5. SynchronizedIsBound'
    BY <1>1, SyncAssumption DEF SyncInv, Shapes, SynchronizedIsBound, InHand, Moved
<1>6. NothingCreated'
    BY <1>1, SyncAssumption DEF SyncInv, Shapes, NothingCreated, InHand,
        BindingStands, Moved
<1>7. CreatorHolds'
    BY <1>1, SyncAssumption DEF SyncInv, Shapes, CreatorHolds, Holds, BindingStands,
        NothingCreated, NoInvitation, NeedsManual, Moved
<1>8. NoInvitation'
    BY <1>1, SyncAssumption DEF SyncInv, Shapes, NoInvitation, Holds, CreatorHolds,
        NothingCreated, NeedsManual, Moved
<1>9. OneRemoteCustomer'
    BY <1>1, SyncAssumption DEF SyncInv, Shapes, OneRemoteCustomer, CreatorHolds,
        NothingCreated, Moved
<1> QED
    BY <1>2, <1>3, <1>4, <1>5, <1>6, <1>7, <1>8, <1>9 DEF SyncInv

LEMMA UpdateThrowsKeeps == ASSUME SyncInv, NEW c \in Call, UpdateThrows(c) PROVE SyncInv'
<1>1. /\ UNCHANGED <<native, row, binding, created, keyed>>
      /\ refused'
      /\ Moved(c, "failing", call[c].bound, call[c].seen, call[c].bound)
    BY DEF UpdateThrows, At, Fault, remote, SyncInv, Moved, CallFields, Shapes
<1>2. Shapes'
    BY <1>1, SyncAssumption DEF SyncInv, Shapes, Moved, Status
<1>3. BindingStands'
    BY <1>1, SyncAssumption DEF SyncInv, Shapes, BindingStands, SynchronizedIsBound,
        NothingCreated, Moved
<1>4. InHand'
    BY <1>1, SyncAssumption DEF SyncInv, Shapes, InHand, BindingStands,
        NothingCreated, NeedsManual, Moved
<1>5. SynchronizedIsBound'
    BY <1>1, SyncAssumption DEF SyncInv, Shapes, SynchronizedIsBound, InHand, Moved
<1>6. NothingCreated'
    BY <1>1, SyncAssumption DEF SyncInv, Shapes, NothingCreated, InHand,
        BindingStands, Moved
<1>7. CreatorHolds'
    BY <1>1, SyncAssumption DEF SyncInv, Shapes, CreatorHolds, Holds, BindingStands,
        NothingCreated, NoInvitation, NeedsManual, Moved
<1>8. NoInvitation'
    BY <1>1, SyncAssumption DEF SyncInv, Shapes, NoInvitation, Holds, CreatorHolds,
        NothingCreated, NeedsManual, Moved
<1>9. OneRemoteCustomer'
    BY <1>1, SyncAssumption DEF SyncInv, Shapes, OneRemoteCustomer, CreatorHolds,
        NothingCreated, Moved
<1> QED
    BY <1>2, <1>3, <1>4, <1>5, <1>6, <1>7, <1>8, <1>9 DEF SyncInv

LEMMA PersistKeeps == ASSUME SyncInv, NEW c \in Call, Persist(c) PROVE SyncInv'
<1>1. UNCHANGED <<native, row, created, keyed, refused>> /\ call[c].pc = "persisting"
    BY DEF Persist, At, remote
<1>2. \/ /\ binding \in {0, call[c].answer} /\ binding' = call[c].answer
         /\ Stays(c, "synchronizing")
      \/ UNCHANGED binding /\ Stays(c, "reporting")
    <2>1. CASE binding \in {0, call[c].answer}
        BY <2>1, GotoMoves DEF Persist, SyncInv
    <2>2. CASE binding \notin {0, call[c].answer}
        BY <2>2 DEF Persist, SyncInv, Shapes, Stays, Moved, CallFields
    <2> QED
        BY <2>1, <2>2
<1>3. Shapes'
    BY <1>1, <1>2, SyncAssumption DEF SyncInv, Shapes, Moved, Stays, Status
<1>4. BindingStands'
    BY <1>1, <1>2, SyncAssumption DEF SyncInv, Shapes, BindingStands,
        SynchronizedIsBound, NothingCreated, Moved, Stays
<1>5. InHand'
    BY <1>1, <1>2, SyncAssumption DEF SyncInv, Shapes, InHand, BindingStands,
        NothingCreated, NeedsManual, Moved, Stays
<1>6. SynchronizedIsBound'
    BY <1>1, <1>2, SyncAssumption DEF SyncInv, Shapes, SynchronizedIsBound, InHand,
        Moved, Stays
<1>7. NothingCreated'
    BY <1>1, <1>2, SyncAssumption DEF SyncInv, Shapes, NothingCreated, InHand,
        BindingStands, Moved, Stays
<1>8. CreatorHolds'
    BY <1>1, <1>2, SyncAssumption DEF SyncInv, Shapes, CreatorHolds, Holds,
        BindingStands, NothingCreated, NoInvitation, NeedsManual, Moved, Stays
<1>9. NoInvitation'
    BY <1>1, <1>2, SyncAssumption DEF SyncInv, Shapes, NoInvitation, Holds,
        CreatorHolds, NothingCreated, NeedsManual, Moved, Stays
<1>10. OneRemoteCustomer'
    BY <1>1, <1>2, SyncAssumption DEF SyncInv, Shapes, OneRemoteCustomer,
        CreatorHolds, NothingCreated, Moved, Stays
<1> QED
    BY <1>3, <1>4, <1>5, <1>6, <1>7, <1>8, <1>9, <1>10 DEF SyncInv

LEMMA PersistThrowsKeeps == ASSUME SyncInv, NEW c \in Call, PersistThrows(c) PROVE SyncInv'
<1>1. UNCHANGED <<native, row, created, keyed, refused>> /\ call[c].pc = "persisting"
    BY DEF PersistThrows, At, remote
<1>2. /\ Stays(c, "reporting")
      /\ UNCHANGED binding \/ (binding = 0 /\ binding' = call[c].answer)
    BY GotoMoves DEF PersistThrows, SyncInv
<1>3. Shapes'
    BY <1>1, <1>2, SyncAssumption DEF SyncInv, Shapes, Moved, Stays, Status
<1>4. BindingStands'
    BY <1>1, <1>2, SyncAssumption DEF SyncInv, Shapes, BindingStands,
        SynchronizedIsBound, NothingCreated, Moved, Stays
<1>5. InHand'
    BY <1>1, <1>2, SyncAssumption DEF SyncInv, Shapes, InHand, BindingStands,
        NothingCreated, NeedsManual, Moved, Stays
<1>6. SynchronizedIsBound'
    BY <1>1, <1>2, SyncAssumption DEF SyncInv, Shapes, SynchronizedIsBound, InHand,
        Moved, Stays
<1>7. NothingCreated'
    BY <1>1, <1>2, SyncAssumption DEF SyncInv, Shapes, NothingCreated, InHand,
        BindingStands, Moved, Stays
<1>8. CreatorHolds'
    BY <1>1, <1>2, SyncAssumption DEF SyncInv, Shapes, CreatorHolds, Holds,
        BindingStands, NothingCreated, NoInvitation, NeedsManual, Moved, Stays
<1>9. NoInvitation'
    BY <1>1, <1>2, SyncAssumption DEF SyncInv, Shapes, NoInvitation, Holds,
        CreatorHolds, NothingCreated, NeedsManual, Moved, Stays
<1>10. OneRemoteCustomer'
    BY <1>1, <1>2, SyncAssumption DEF SyncInv, Shapes, OneRemoteCustomer,
        CreatorHolds, NothingCreated, Moved, Stays
<1> QED
    BY <1>3, <1>4, <1>5, <1>6, <1>7, <1>8, <1>9, <1>10 DEF SyncInv

LEMMA SynchronizeKeeps == ASSUME SyncInv, NEW c \in Call, Synchronize(c) PROVE SyncInv'
<1>1. /\ UNCHANGED <<native, binding, created, keyed, refused>>
      /\ call[c].pc = "synchronizing"
      /\ Settles(c, "synchronized", call[c].answer)
      /\ Leaves(c, "ended")
    <2>1. row' \in {row, IF Holds(c) THEN Completed("synchronized", call[c].answer) ELSE row}
        BY DEF Synchronize
    <2>2. Settles(c, "synchronized", call[c].answer)
        BY <2>1, CompletedSettles DEF SyncInv
    <2>3. Leaves(c, "ended")
        BY LeavingMoves DEF Synchronize, End, SyncInv
    <2> QED
        BY <2>2, <2>3 DEF Synchronize, At, remote
<1>2. Shapes'
    BY <1>1, SyncAssumption DEF SyncInv, Shapes, Moved, Leaves, NoRow, Settles,
        Status, RowFields
<1>3. BindingStands'
    BY <1>1, SyncAssumption DEF SyncInv, Shapes, BindingStands, SynchronizedIsBound,
        NothingCreated, Moved, Leaves, NoRow, Settles
<1>4. InHand'
    BY <1>1, SyncAssumption DEF SyncInv, Shapes, InHand, BindingStands,
        NothingCreated, NeedsManual, Moved, Leaves, NoRow, Settles
<1>5. SynchronizedIsBound'
    BY <1>1, SyncAssumption DEF SyncInv, Shapes, SynchronizedIsBound, InHand, Moved,
        Leaves, NoRow, Settles
<1>6. NothingCreated'
    BY <1>1, SyncAssumption DEF SyncInv, Shapes, NothingCreated, InHand,
        BindingStands, Moved, Leaves, NoRow, Settles
<1>7. CreatorHolds'
    BY <1>1, SyncAssumption DEF SyncInv, Shapes, CreatorHolds, Holds, BindingStands,
        NothingCreated, NoInvitation, NeedsManual, Moved, Leaves, NoRow, Settles
<1>8. NoInvitation'
    BY <1>1, SyncAssumption DEF SyncInv, Shapes, NoInvitation, Holds, CreatorHolds,
        NothingCreated, NeedsManual, Moved, Leaves, NoRow, Settles
<1>9. OneRemoteCustomer'
    BY <1>1, SyncAssumption DEF SyncInv, Shapes, OneRemoteCustomer, CreatorHolds,
        NothingCreated, Moved, Leaves, NoRow, Settles
<1> QED
    BY <1>2, <1>3, <1>4, <1>5, <1>6, <1>7, <1>8, <1>9 DEF SyncInv

LEMMA SynchronizeThrowsKeeps == ASSUME SyncInv, NEW c \in Call, SynchronizeThrows(c) PROVE SyncInv'
<1>1. /\ UNCHANGED <<native, binding, created, keyed, refused>>
      /\ call[c].pc = "synchronizing"
      /\ Settles(c, "synchronized", call[c].answer)
      /\ Stays(c, "reporting")
    BY GotoMoves, CompletedSettles DEF SynchronizeThrows, At, Fault, remote, SyncInv
<1>2. Shapes'
    BY <1>1, SyncAssumption DEF SyncInv, Shapes, Moved, Stays, Settles, Status
<1>3. BindingStands'
    BY <1>1, SyncAssumption DEF SyncInv, Shapes, BindingStands, SynchronizedIsBound,
        NothingCreated, Moved, Stays, Settles
<1>4. InHand'
    BY <1>1, SyncAssumption DEF SyncInv, Shapes, InHand, BindingStands,
        NothingCreated, NeedsManual, Moved, Stays, Settles
<1>5. SynchronizedIsBound'
    BY <1>1, SyncAssumption DEF SyncInv, Shapes, SynchronizedIsBound, InHand, Moved,
        Stays, Settles
<1>6. NothingCreated'
    BY <1>1, SyncAssumption DEF SyncInv, Shapes, NothingCreated, InHand,
        BindingStands, Moved, Stays, Settles
<1>7. CreatorHolds'
    BY <1>1, SyncAssumption DEF SyncInv, Shapes, CreatorHolds, Holds, BindingStands,
        NothingCreated, NoInvitation, NeedsManual, Moved, Stays, Settles
<1>8. NoInvitation'
    BY <1>1, SyncAssumption DEF SyncInv, Shapes, NoInvitation, Holds, CreatorHolds,
        NothingCreated, NeedsManual, Moved, Stays, Settles
<1>9. OneRemoteCustomer'
    BY <1>1, SyncAssumption DEF SyncInv, Shapes, OneRemoteCustomer, CreatorHolds,
        NothingCreated, Moved, Stays, Settles
<1> QED
    BY <1>2, <1>3, <1>4, <1>5, <1>6, <1>7, <1>8, <1>9 DEF SyncInv

LEMMA ReportKeeps == ASSUME SyncInv, NEW c \in Call, Report(c) PROVE SyncInv'
<1>1. /\ UNCHANGED <<native, binding, created, keyed, refused>>
      /\ Settles(c, "reconciliation_required", call[c].answer)
      /\ call[c].pc = "reporting"
      /\ Leaves(c, "ended")
    <2>1. row' \in {row, IF Holds(c) THEN Completed("reconciliation_required", call[c].answer) ELSE row}
        BY DEF Report
    <2>2. Settles(c, "reconciliation_required", call[c].answer)
        BY <2>1, CompletedSettles DEF SyncInv
    <2>3. Leaves(c, "ended")
        BY LeavingMoves DEF Report, End, SyncInv
    <2> QED
        BY <2>2, <2>3 DEF Report, At, remote
<1>2. Shapes'
    BY <1>1, SyncAssumption DEF SyncInv, Shapes, Moved, Leaves, NoRow, Settles,
        Status, RowFields
<1>3. BindingStands'
    BY <1>1, SyncAssumption DEF SyncInv, Shapes, BindingStands, SynchronizedIsBound,
        NothingCreated, Moved, Leaves, NoRow, Settles
<1>4. InHand'
    BY <1>1, SyncAssumption DEF SyncInv, Shapes, InHand, BindingStands,
        NothingCreated, NeedsManual, Moved, Leaves, NoRow, Settles
<1>5. SynchronizedIsBound'
    BY <1>1, SyncAssumption DEF SyncInv, Shapes, SynchronizedIsBound, InHand, Moved,
        Leaves, NoRow, Settles
<1>6. NothingCreated'
    BY <1>1, SyncAssumption DEF SyncInv, Shapes, NothingCreated, InHand,
        BindingStands, Moved, Leaves, NoRow, Settles
<1>7. CreatorHolds'
    BY <1>1, SyncAssumption DEF SyncInv, Shapes, CreatorHolds, Holds, BindingStands,
        NothingCreated, NoInvitation, NeedsManual, Moved, Leaves, NoRow, Settles
<1>8. NoInvitation'
    BY <1>1, SyncAssumption DEF SyncInv, Shapes, NoInvitation, Holds, CreatorHolds,
        NothingCreated, NeedsManual, Moved, Leaves, NoRow, Settles
<1>9. OneRemoteCustomer'
    BY <1>1, SyncAssumption DEF SyncInv, Shapes, OneRemoteCustomer, CreatorHolds,
        NothingCreated, Moved, Leaves, NoRow, Settles
<1> QED
    BY <1>2, <1>3, <1>4, <1>5, <1>6, <1>7, <1>8, <1>9 DEF SyncInv

LEMMA ReportUncertainKeeps == ASSUME SyncInv, NEW c \in Call, ReportUncertain(c) PROVE SyncInv'
<1>1. /\ UNCHANGED <<native, binding, created, keyed, refused>>
      /\ Settles(c, "reconciliation_required", 0)
      /\ call[c].pc = "uncertain"
      /\ Leaves(c, "ended")
    <2>1. row' \in {row, IF Holds(c) THEN Completed("reconciliation_required", 0) ELSE row}
        BY DEF ReportUncertain
    <2>2. Settles(c, "reconciliation_required", 0)
        BY <2>1, CompletedSettles DEF SyncInv
    <2>3. Leaves(c, "ended")
        BY LeavingMoves DEF ReportUncertain, End, SyncInv
    <2> QED
        BY <2>2, <2>3 DEF ReportUncertain, At, remote
<1>2. Shapes'
    BY <1>1, SyncAssumption DEF SyncInv, Shapes, Moved, Leaves, NoRow, Settles,
        Status, RowFields
<1>3. BindingStands'
    BY <1>1, SyncAssumption DEF SyncInv, Shapes, BindingStands, SynchronizedIsBound,
        NothingCreated, Moved, Leaves, NoRow, Settles
<1>4. InHand'
    BY <1>1, SyncAssumption DEF SyncInv, Shapes, InHand, BindingStands,
        NothingCreated, NeedsManual, Moved, Leaves, NoRow, Settles
<1>5. SynchronizedIsBound'
    BY <1>1, SyncAssumption DEF SyncInv, Shapes, SynchronizedIsBound, InHand, Moved,
        Leaves, NoRow, Settles
<1>6. NothingCreated'
    BY <1>1, SyncAssumption DEF SyncInv, Shapes, NothingCreated, InHand,
        BindingStands, Moved, Leaves, NoRow, Settles
<1>7. CreatorHolds'
    BY <1>1, SyncAssumption DEF SyncInv, Shapes, CreatorHolds, Holds, BindingStands,
        NothingCreated, NoInvitation, NeedsManual, Moved, Leaves, NoRow, Settles
<1>8. NoInvitation'
    BY <1>1, SyncAssumption DEF SyncInv, Shapes, NoInvitation, Holds, CreatorHolds,
        NothingCreated, NeedsManual, Moved, Leaves, NoRow, Settles
<1>9. OneRemoteCustomer'
    BY <1>1, SyncAssumption DEF SyncInv, Shapes, OneRemoteCustomer, CreatorHolds,
        NothingCreated, Moved, Leaves, NoRow, Settles
<1> QED
    BY <1>2, <1>3, <1>4, <1>5, <1>6, <1>7, <1>8, <1>9 DEF SyncInv

LEMMA ReportFailedKeeps == ASSUME SyncInv, NEW c \in Call, ReportFailed(c) PROVE SyncInv'
<1>1. /\ UNCHANGED <<native, binding, created, keyed, refused>>
      /\ call[c].pc = "failing"
      /\ Settles(c, "failed", call[c].answer)
      /\ Leaves(c, "ended")
    <2>1. row' \in {row, IF Holds(c) THEN Completed("failed", call[c].answer) ELSE row}
        BY DEF ReportFailed
    <2>2. Settles(c, "failed", call[c].answer)
        BY <2>1, CompletedSettles DEF SyncInv
    <2>3. Leaves(c, "ended")
        BY LeavingMoves DEF ReportFailed, End, SyncInv
    <2> QED
        BY <2>2, <2>3 DEF ReportFailed, At, remote
<1>2. Shapes'
    BY <1>1, SyncAssumption DEF SyncInv, Shapes, Moved, Leaves, NoRow, Settles,
        Status, RowFields
<1>3. BindingStands'
    BY <1>1, SyncAssumption DEF SyncInv, Shapes, BindingStands, SynchronizedIsBound,
        NothingCreated, Moved, Leaves, NoRow, Settles
<1>4. InHand'
    BY <1>1, SyncAssumption DEF SyncInv, Shapes, InHand, BindingStands,
        NothingCreated, NeedsManual, Moved, Leaves, NoRow, Settles
<1>5. SynchronizedIsBound'
    BY <1>1, SyncAssumption DEF SyncInv, Shapes, SynchronizedIsBound, InHand, Moved,
        Leaves, NoRow, Settles
<1>6. NothingCreated'
    BY <1>1, SyncAssumption DEF SyncInv, Shapes, NothingCreated, InHand,
        BindingStands, Moved, Leaves, NoRow, Settles
<1>7. CreatorHolds'
    BY <1>1, SyncAssumption DEF SyncInv, Shapes, CreatorHolds, Holds, BindingStands,
        NothingCreated, NoInvitation, NeedsManual, Moved, Leaves, NoRow, Settles
<1>8. NoInvitation'
    BY <1>1, SyncAssumption DEF SyncInv, Shapes, NoInvitation, Holds, CreatorHolds,
        NothingCreated, NeedsManual, Moved, Leaves, NoRow, Settles
<1>9. OneRemoteCustomer'
    BY <1>1, SyncAssumption DEF SyncInv, Shapes, OneRemoteCustomer, CreatorHolds,
        NothingCreated, Moved, Leaves, NoRow, Settles
<1> QED
    BY <1>2, <1>3, <1>4, <1>5, <1>6, <1>7, <1>8, <1>9 DEF SyncInv

LEMMA ReportThrowsKeeps == ASSUME SyncInv, NEW c \in Call, ReportThrows(c) PROVE SyncInv'
<1>1. /\ UNCHANGED <<native, row, binding, created, keyed, refused>>
      /\ Leaves(c, "ended")
    BY LeavingMoves DEF ReportThrows, At, Fault, remote, SyncInv
<1>2. Shapes'
    BY <1>1, SyncAssumption DEF SyncInv, Shapes, Moved, Leaves, NoRow, Status,
        RowFields
<1>3. BindingStands'
    BY <1>1, SyncAssumption DEF SyncInv, Shapes, BindingStands, SynchronizedIsBound,
        NothingCreated, Moved, Leaves, NoRow
<1>4. InHand'
    BY <1>1, SyncAssumption DEF SyncInv, Shapes, InHand, BindingStands,
        NothingCreated, NeedsManual, Moved, Leaves, NoRow
<1>5. SynchronizedIsBound'
    BY <1>1, SyncAssumption DEF SyncInv, Shapes, SynchronizedIsBound, InHand, Moved,
        Leaves, NoRow
<1>6. NothingCreated'
    BY <1>1, SyncAssumption DEF SyncInv, Shapes, NothingCreated, InHand,
        BindingStands, Moved, Leaves, NoRow
<1>7. CreatorHolds'
    BY <1>1, SyncAssumption DEF SyncInv, Shapes, CreatorHolds, Holds, BindingStands,
        NothingCreated, NoInvitation, NeedsManual, Moved, Leaves, NoRow
<1>8. NoInvitation'
    BY <1>1, SyncAssumption DEF SyncInv, Shapes, NoInvitation, Holds, CreatorHolds,
        NothingCreated, NeedsManual, Moved, Leaves, NoRow
<1>9. OneRemoteCustomer'
    BY <1>1, SyncAssumption DEF SyncInv, Shapes, OneRemoteCustomer, CreatorHolds,
        NothingCreated, Moved, Leaves, NoRow
<1> QED
    BY <1>2, <1>3, <1>4, <1>5, <1>6, <1>7, <1>8, <1>9 DEF SyncInv

LEMMA CrashKeeps == ASSUME SyncInv, NEW c \in Call, Crash(c) PROVE SyncInv'
<1>1. /\ UNCHANGED <<native, row, binding, created, keyed, refused>>
      /\ Leaves(c, "ended")
    BY LeavingMoves DEF Crash, At, Fault, remote, SyncInv
<1>2. Shapes'
    BY <1>1, SyncAssumption DEF SyncInv, Shapes, Moved, Leaves, NoRow, Status,
        RowFields
<1>3. BindingStands'
    BY <1>1, SyncAssumption DEF SyncInv, Shapes, BindingStands, SynchronizedIsBound,
        NothingCreated, Moved, Leaves, NoRow
<1>4. InHand'
    BY <1>1, SyncAssumption DEF SyncInv, Shapes, InHand, BindingStands,
        NothingCreated, NeedsManual, Moved, Leaves, NoRow
<1>5. SynchronizedIsBound'
    BY <1>1, SyncAssumption DEF SyncInv, Shapes, SynchronizedIsBound, InHand, Moved,
        Leaves, NoRow
<1>6. NothingCreated'
    BY <1>1, SyncAssumption DEF SyncInv, Shapes, NothingCreated, InHand,
        BindingStands, Moved, Leaves, NoRow
<1>7. CreatorHolds'
    BY <1>1, SyncAssumption DEF SyncInv, Shapes, CreatorHolds, Holds, BindingStands,
        NothingCreated, NoInvitation, NeedsManual, Moved, Leaves, NoRow
<1>8. NoInvitation'
    BY <1>1, SyncAssumption DEF SyncInv, Shapes, NoInvitation, Holds, CreatorHolds,
        NothingCreated, NeedsManual, Moved, Leaves, NoRow
<1>9. OneRemoteCustomer'
    BY <1>1, SyncAssumption DEF SyncInv, Shapes, OneRemoteCustomer, CreatorHolds,
        NothingCreated, Moved, Leaves, NoRow
<1> QED
    BY <1>2, <1>3, <1>4, <1>5, <1>6, <1>7, <1>8, <1>9 DEF SyncInv
LEMMA ForgetKeyKeeps == ASSUME SyncInv, ForgetKey PROVE SyncInv'
<1>1. UNCHANGED <<native, row, binding, created, call, refused>> /\ keyed' = 0
    BY DEF ForgetKey
<1> QED
    BY <1>1 DEF SyncInv, Shapes, BindingStands, InHand, SynchronizedIsBound,
        NothingCreated, CreatorHolds, NoInvitation, OneRemoteCustomer, Holds, NeedsManual

\* Time moves leases only.
LEMMA TickKeeps == ASSUME SyncInv, Tick PROVE SyncInv'
<1>1. UNCHANGED <<native, binding, created, keyed, refused>>
    BY DEF Tick, remote
<1>2. /\ DOMAIN row' = RowFields
      /\ row'.status = row.status /\ row'.remote = row.remote
      /\ row'.attempts = row.attempts /\ row'.owner = row.owner
    BY DEF Tick, SyncInv, Shapes, RowFields
<1>3. call' = [c \in Call |-> [call[c] EXCEPT !.seen.lease = Before(@)]]
    BY DEF Tick
<1>4. ASSUME NEW c \in Call
      PROVE  /\ DOMAIN call'[c] = CallFields /\ DOMAIN call'[c].seen = RowFields
             /\ call'[c].pc = call[c].pc /\ call'[c].bound = call[c].bound
             /\ call'[c].answer = call[c].answer
             /\ call'[c].seen.status = call[c].seen.status
             /\ call'[c].seen.remote = call[c].seen.remote
             /\ call'[c].seen.attempts = call[c].seen.attempts
    <2>1. DOMAIN call[c] = CallFields /\ DOMAIN call[c].seen = RowFields
        BY DEF SyncInv, Shapes
    <2>2. call'[c] = [call[c] EXCEPT !.seen = [call[c].seen EXCEPT !.lease = Before(@)]]
        BY <1>3
    <2> QED
        BY <2>1, <2>2 DEF CallFields, RowFields
<1>5. Shapes'
    BY <1>1, <1>2, <1>3, <1>4 DEF SyncInv, Shapes
<1>6. BindingStands' /\ SynchronizedIsBound' /\ NothingCreated'
    BY <1>1, <1>2, <1>4 DEF SyncInv, BindingStands, SynchronizedIsBound, NothingCreated
<1>7. InHand'
    BY <1>1, <1>4 DEF SyncInv, InHand, NeedsManual
<1>8. CreatorHolds' /\ NoInvitation' /\ OneRemoteCustomer'
    BY <1>1, <1>2, <1>4 DEF SyncInv, CreatorHolds, NoInvitation, OneRemoteCustomer, Holds
<1> QED
    BY <1>5, <1>6, <1>7, <1>8 DEF SyncInv

LEMMA SyncInvNext == SyncInv /\ [Next]_vars => SyncInv'
<1> SUFFICES ASSUME SyncInv, [Next]_vars PROVE SyncInv'
    OBVIOUS
<1>1. ASSUME NEW c \in Call, Begin(c) PROVE SyncInv'
    BY <1>1, ReadBindingKeeps, ReadStateKeeps, TakeClaimKeeps, ExpireLeaseKeeps,
       StandBackKeeps, RereadKeeps, FollowKeeps DEF Begin
<1>2. ASSUME NEW c \in Call, Work(c) PROVE SyncInv'
    BY <1>2, CreateRemoteKeeps, CreateAnsweredKeeps, CreateUncertainKeeps,
       CreateRefusedKeeps, UpdateRemoteKeeps, UpdateThrowsKeeps, PersistKeeps,
       PersistThrowsKeeps, SynchronizeKeeps, SynchronizeThrowsKeeps, ReportKeeps,
       ReportUncertainKeeps, ReportFailedKeeps, ReportThrowsKeeps DEF Work
<1>3. CASE UNCHANGED vars
    BY <1>3 DEF vars, remote, SyncInv, Shapes, BindingStands, InHand, SynchronizedIsBound,
        NothingCreated, CreatorHolds, NoInvitation, OneRemoteCustomer, Holds, NeedsManual
<1> QED
    BY <1>1, <1>2, <1>3, CrashKeeps, ForgetKeyKeeps, TickKeeps DEF Next

-----------------------------------------------------------------------------
\* Theorems

\* The strengthening that all of the following rests on.
THEOREM SyncInvariant == Spec => []SyncInv
BY SyncInvInit, SyncInvNext, PTL DEF Spec

\* A row that says synchronized names the customer that is bound, for any
\* number of calls, lost claims, lost commits and dead processes
\* (CustomerProviderSyncLifecycle.synchronized and the binding writer).
THEOREM BindingAgrees == Spec => []SynchronizedIsBound
BY SyncInvariant, PTL DEF SyncInv

\* Without native idempotency, and as long as no update failed, no second
\* customer is created at the provider, for any number of calls whose leases
\* run out at any point (beginAttempt, expirePendingAttempt).
THEOREM OneCustomer == Spec => []OneRemoteCustomer
BY SyncInvariant, PTL DEF SyncInv

-----------------------------------------------------------------------------
\* What became of the customers that calls learned of

\* Customers are numbered from 1, and nobody knows one that was not created.
Numbered ==
    /\ binding \in 0..created /\ keyed \in 0..created /\ row.remote \in 0..created
    /\ known \subseteq 1..created
    /\ \A c \in Call : call[c].answer \in 0..created /\ call[c].seen.remote \in 0..created

\* Which customer a call has in hand, by where it is.
Answers ==
    \A c \in Call :
        /\ call[c].pc \notin {"created", "persisting", "synchronizing", "reporting",
                              "failing"} => call[c].answer = 0
        /\ call[c].pc = "failing" => call[c].answer \in {0, binding}
        /\ call[c].pc = "reporting" => call[c].answer # 0

\* An update was tried, hence a customer is bound.
RefusedIsBound == refused => binding # 0

Secret(c) ==
    /\ binding = 0 /\ row.remote = 0 /\ known = {}
    /\ \A d \in Call : d # c => call[d].answer = 0
    /\ \A d \in Call : call[d].seen.remote = 0

\* A customer just created, or perhaps created while the answer was lost, is
\* known to nobody else.
Untold ==
    ~native /\ ~refused => \A c \in Call :
        call[c].pc = "created" \/ (call[c].pc = "uncertain" /\ Holds(c)) => Secret(c)

\* A call that reports a customer knows of every conflict with the bound one,
\* unless it could not look.
Reporters ==
    ~native => \A c \in Call : call[c].pc = "reporting" =>
        \/ call[c].conflict \/ binding = 0 \/ call[c].answer = binding
        \/ call[c].answer \in unlooked

\* What the row forgets once a customer is bound is not lost, or was never
\* looked at.
RowKept ==
    ~native /\ binding # 0 => row.remote \in {0, binding} \cup orphaned \cup unlooked

AccountInv ==
    /\ Numbered
    /\ Answers
    /\ RefusedIsBound
    /\ Untold
    /\ Reporters
    /\ RowKept
    /\ KnownIsAccounted

LEMMA AccountInvInit == Init => AccountInv
<1> SUFFICES ASSUME Init PROVE AccountInv
    OBVIOUS
<1>1. row = NoRow /\ call = [c \in Call |-> Resting]
    BY DEF Init
<1>2. Numbered /\ Answers /\ RefusedIsBound /\ Untold
    BY <1>1 DEF Init, Numbered, Answers, RefusedIsBound, Untold, NoRow, Resting
<1>3. Reporters /\ RowKept /\ KnownIsAccounted
    BY <1>1 DEF Init, Reporters, RowKept, KnownIsAccounted, NoRow, Resting
<1> QED
    BY <1>2, <1>3 DEF AccountInv

\* A call goes on with a customer that it has, has read, or that is bound; it
\* creates and tells nothing.
GoesOn(c) ==
    /\ UNCHANGED <<native, binding, created, keyed, known, orphaned, unlooked, refused>>
    /\ row'.remote = row.remote
    /\ row'.owner = c \/ UNCHANGED <<row.owner, row.attempts>>
    /\ \A d \in Call : d # c => call'[d] = call[d]
    /\ call'[c].seen.remote \in {0, call[c].seen.remote, row.remote}
    /\ call'[c].answer \in {0, call[c].answer, call[c].seen.remote, binding}
    /\ call'[c].pc \notin {"created", "uncertain"}
    /\ call'[c].answer = 0 \/ call'[c].pc \in {"persisting", "synchronizing", "reporting",
                                               "failing"}
    /\ call'[c].pc = "failing" => call'[c].answer \in {0, binding}
    /\ call'[c].pc = "reporting" =>
          /\ call'[c].answer # 0
          /\ native \/ call'[c].conflict \/ binding = 0 \/ call'[c].answer = binding

LEMMA GoingOnKeeps ==
    ASSUME SyncInv, AccountInv, NEW c \in Call, GoesOn(c)
    PROVE  AccountInv'
<1>1. Numbered'
    <2>1. created' = created /\ keyed' = keyed /\ binding' = binding /\ known' = known /\ row'.remote = row.remote
        BY DEF GoesOn
    <2>2. ASSUME NEW d \in Call
          PROVE  call'[d].answer \in 0..created /\ call'[d].seen.remote \in 0..created
        <3>1. CASE d # c
            BY <3>1 DEF AccountInv, Numbered, GoesOn
        <3>2. CASE d = c
            BY <3>2, SMT DEF AccountInv, Numbered, GoesOn, SyncInv, Shapes
        <3> QED  BY <3>1, <3>2
    <2> QED
        BY <2>1, <2>2 DEF AccountInv, Numbered
<1>2. Answers' /\ RefusedIsBound'
    BY DEF AccountInv, Answers, RefusedIsBound, GoesOn
<1>3. Untold'
    <2> SUFFICES ASSUME ~native, ~refused, NEW d \in Call,
                        call'[d].pc = "created" \/ (call'[d].pc = "uncertain" /\ Holds(d)')
                 PROVE  Secret(d)'
        BY DEF Untold, GoesOn
    <2>1. d # c /\ call'[d] = call[d]
        BY DEF GoesOn
    <2>2. Holds(d)' => Holds(d)
        BY <2>1, SyncAssumption DEF Holds, GoesOn
    <2>3. Secret(d)
        BY <2>1, <2>2 DEF AccountInv, Untold
    <2> QED
        BY <2>1, <2>3 DEF Secret, GoesOn
<1>4. Reporters'
    BY DEF AccountInv, Reporters, GoesOn
<1>5. RowKept' /\ KnownIsAccounted'
    BY DEF AccountInv, RowKept, KnownIsAccounted, GoesOn
<1> QED
    BY <1>1, <1>2, <1>3, <1>4, <1>5 DEF AccountInv

LEMMA BeginGoesOn ==
    ASSUME SyncInv, AccountInv, NEW c \in Call, Begin(c)
    PROVE  GoesOn(c)
<1> USE DEF GoesOn, SyncInv, Shapes, AccountInv, Answers, At, CallFields, RowFields, remote
<1>1. CASE ReadBinding(c)
    BY <1>1 DEF ReadBinding
<1>2. CASE ReadState(c)
    BY <1>2 DEF ReadState
<1>3. CASE TakeClaim(c)
    <2>1. call[c].answer = 0
        BY <1>3 DEF TakeClaim
    <2>2. CASE Unmoved(c)
        <3>1. row'.owner = c /\ row'.remote = row.remote
            BY <1>3, <2>2 DEF TakeClaim
        <3>2. \/ call' = [call EXCEPT ![c].pc = "rereading"]
              \/ call' = [call EXCEPT ![c] = Course(c, call[c].bound)]
            BY <1>3, <2>2 DEF TakeClaim
        <3>3. CASE call' = [call EXCEPT ![c].pc = "rereading"]
            BY <1>3, <2>1, <3>1, <3>3 DEF TakeClaim
        <3>4. CASE call' = [call EXCEPT ![c] = Course(c, call[c].bound)]
            BY <1>3, <2>1, <3>1, <3>4 DEF TakeClaim, Course
        <3> QED  BY <3>2, <3>3, <3>4
    <2>3. CASE ~Unmoved(c)
        BY <1>3, <2>1, <2>3 DEF TakeClaim, Goto
    <2> QED  BY <2>2, <2>3
<1>4. CASE ExpireLease(c)
    <2>1. row'.remote = row.remote /\ row'.owner = row.owner /\ row'.attempts = row.attempts
        BY <1>4 DEF ExpireLease
    <2>2. call' = [call EXCEPT ![c] = Again] \/ call' = [call EXCEPT ![c].pc = "reading"]
        BY <1>4 DEF ExpireLease, Goto
    <2> QED
        BY <1>4, <2>1, <2>2 DEF ExpireLease, Again, Resting, NoRow
<1>5. CASE StandBack(c)
    BY <1>5 DEF StandBack, Goto
<1>6. CASE Reread(c)
    BY <1>6 DEF Reread, Course, Ended, Again, Resting, NoRow
<1>7. CASE Follow(c)
    BY <1>7 DEF Follow, Ended, Again, Resting, NoRow
<1> QED
    BY <1>1, <1>2, <1>3, <1>4, <1>5, <1>6, <1>7 DEF Begin

\* Steps of an attempt that neither create, bind nor record.
LEMMA WorkGoesOn ==
    ASSUME SyncInv, AccountInv, NEW c \in Call,
           \/ CreateAnswered(c) \/ CreateRefused(c) \/ UpdateRemote(c)
           \/ ReportThrows(c) \/ Crash(c)
    PROVE  GoesOn(c)
<1> USE DEF GoesOn, SyncInv, Shapes, AccountInv, Answers, At, CallFields, remote, Goto
<1>1. CASE CreateAnswered(c)
    BY <1>1 DEF CreateAnswered
<1>2. CASE CreateRefused(c)
    BY <1>2 DEF CreateRefused
<1>3. CASE UpdateRemote(c)
    BY <1>3 DEF UpdateRemote, BindingStands, InHand
<1>4. CASE ReportThrows(c) \/ Crash(c)
    BY <1>4 DEF ReportThrows, Crash, Ended, Resting, NoRow
<1> QED
    BY <1>1, <1>2, <1>3, <1>4

LEMMA CreateRemoteAccounts ==
    ASSUME SyncInv, AccountInv, NEW c \in Call, CreateRemote(c)
    PROVE  AccountInv'
<1>1. /\ UNCHANGED <<native, row, binding, known, orphaned, unlooked, refused>>
      /\ call[c].pc = "creating" /\ call[c].answer = 0
      /\ call'[c].pc = "created"
      /\ call'[c].seen = call[c].seen
      /\ \A d \in Call : d # c => call'[d] = call[d]
    BY DEF CreateRemote, At, SyncInv, Shapes, CallFields, AccountInv, Answers
<1>2. created \in Nat
    BY DEF SyncInv, Shapes
<1>3. CASE native /\ keyed # 0
    <2>1. created' = created /\ keyed' = keyed /\ call'[c].answer = keyed
        BY <1>3 DEF CreateRemote, remote, SyncInv, Shapes, CallFields
    <2>2. Numbered'
        <3>1. ASSUME NEW d \in Call
              PROVE  call'[d].answer \in 0..created /\ call'[d].seen.remote \in 0..created
            <4>1. CASE d = c
                BY <1>1, <2>1, <4>1 DEF AccountInv, Numbered
            <4>2. CASE d # c
                BY <1>1, <4>2 DEF AccountInv, Numbered
            <4> QED  BY <4>1, <4>2
        <3> QED
            BY <1>1, <2>1, <3>1 DEF AccountInv, Numbered
    <2>3. Answers' /\ RefusedIsBound' /\ Untold'
        BY <1>1, <1>3 DEF AccountInv, Answers, RefusedIsBound, Untold
    <2>4. Reporters' /\ RowKept' /\ KnownIsAccounted'
        BY <1>1 DEF AccountInv, Reporters, RowKept, KnownIsAccounted
    <2> QED
        BY <2>2, <2>3, <2>4 DEF AccountInv
<1>4. CASE ~(native /\ keyed # 0)
    <2>1. created' = created + 1 /\ keyed' = created + 1 /\ call'[c].answer = created + 1
        BY <1>4 DEF CreateRemote, SyncInv, Shapes, CallFields
    <2>2. Numbered'
        <3>1. ASSUME NEW d \in Call
              PROVE  call'[d].answer \in 0..(created + 1) /\ call'[d].seen.remote \in 0..(created + 1)
            <4>1. CASE d = c
                BY <1>1, <1>2, <2>1, <4>1 DEF AccountInv, Numbered
            <4>2. CASE d # c
                <5>1. call'[d] = call[d]
                    BY <1>1, <4>2
                <5> QED
                    BY <1>2, <5>1 DEF AccountInv, Numbered
            <4> QED  BY <4>1, <4>2
        <3>2. 0..created \subseteq 0..(created + 1) /\ 1..created \subseteq 1..(created + 1)
            BY <1>2
        <3>3. created + 1 \in 0..(created + 1)
            BY <1>2
        <3> QED
            BY <1>1, <2>1, <3>1, <3>2, <3>3 DEF AccountInv, Numbered
    <2>3. Answers' /\ RefusedIsBound'
        BY <1>1 DEF AccountInv, Answers, RefusedIsBound
    <2>4. Untold'
        <3> SUFFICES ASSUME ~native, ~refused, NEW d \in Call,
                            call'[d].pc = "created" \/ (call'[d].pc = "uncertain" /\ Holds(d)')
                     PROVE  Secret(d)'
            BY <1>1 DEF Untold
        <3>1. created = 0 /\ Holds(c)
            BY <1>1 DEF SyncInv, CreatorHolds
        <3>2. binding = 0 /\ row.remote = 0 /\ \A e \in Call : call[e].seen.remote = 0
                                               /\ call[e].answer = 0
            BY <3>1 DEF SyncInv, NothingCreated
        <3>3. known = {}
            BY <3>1 DEF AccountInv, Numbered
        <3>4. CASE d = c
            BY <1>1, <3>2, <3>3, <3>4 DEF Secret
        <3>5. CASE d # c
            <4>1. Holds(d)' => Holds(d)
                BY <1>1, <3>5 DEF Holds
            <4>2. ~Holds(d)
                BY <3>1, <3>5 DEF Holds
            <4>3. call[d].pc = "created" /\ call[d].answer = 0
                BY <1>1, <3>2, <3>5, <4>1, <4>2
            <4> QED
                BY <4>3 DEF SyncInv, InHand
        <3> QED  BY <3>4, <3>5
    <2>5. Reporters' /\ RowKept' /\ KnownIsAccounted'
        BY <1>1 DEF AccountInv, Reporters, RowKept, KnownIsAccounted
    <2> QED
        BY <2>2, <2>3, <2>4, <2>5 DEF AccountInv
<1> QED
    BY <1>3, <1>4

LEMMA CreateUncertainAccounts ==
    ASSUME SyncInv, AccountInv, NEW c \in Call, CreateUncertain(c)
    PROVE  AccountInv'
<1>1. /\ UNCHANGED <<native, row, binding, created, keyed, known, orphaned, unlooked, refused>>
      /\ call[c].pc \in {"creating", "created"}
      /\ call'[c].pc = IF native THEN "failing" ELSE "uncertain"
      /\ call'[c].answer = 0
      /\ call'[c].seen = call[c].seen
      /\ \A d \in Call : d # c => call'[d] = call[d]
    BY DEF CreateUncertain, AfterUncertain, At, SyncInv, Shapes, CallFields, remote
<1>2. Numbered'
    <2>1. ASSUME NEW d \in Call
          PROVE  call'[d].answer \in 0..created /\ call'[d].seen.remote \in 0..created
        <3>1. CASE d = c
            BY <1>1, <3>1 DEF SyncInv, Shapes, AccountInv, Numbered
        <3>2. CASE d # c
            BY <1>1, <3>2 DEF AccountInv, Numbered
        <3> QED  BY <3>1, <3>2
    <2> QED
        BY <1>1, <2>1 DEF AccountInv, Numbered
<1>3. Answers' /\ RefusedIsBound'
    BY <1>1 DEF AccountInv, Answers, RefusedIsBound
<1>4. Untold'
    <2> SUFFICES ASSUME ~native, ~refused, NEW d \in Call,
                        call'[d].pc = "created" \/ (call'[d].pc = "uncertain" /\ Holds(d)')
                 PROVE  Secret(d)'
        BY <1>1 DEF Untold
    <2>1. CASE d = c
        <3>1. Secret(c)
            <4>1. CASE call[c].pc = "created"
                BY <4>1 DEF AccountInv, Untold
            <4>2. CASE call[c].pc = "creating"
                <5>1. created = 0
                    BY <4>2 DEF SyncInv, CreatorHolds
                <5> QED
                    BY <5>1 DEF SyncInv, NothingCreated, AccountInv, Numbered, Secret
            <4> QED  BY <1>1, <4>1, <4>2
        <3> QED
            BY <1>1, <2>1, <3>1 DEF Secret
    <2>2. CASE d # c
        <3>1. Secret(d)
            BY <1>1, <2>2 DEF AccountInv, Untold, Holds
        <3> QED
            BY <1>1, <2>2, <3>1 DEF Secret
    <2> QED  BY <2>1, <2>2
<1>5. Reporters' /\ RowKept' /\ KnownIsAccounted'
    BY <1>1 DEF AccountInv, Reporters, RowKept, KnownIsAccounted
<1> QED
    BY <1>2, <1>3, <1>4, <1>5 DEF AccountInv

LEMMA UpdateThrowsAccounts ==
    ASSUME SyncInv, AccountInv, NEW c \in Call, UpdateThrows(c)
    PROVE  AccountInv'
<1>1. /\ UNCHANGED <<native, row, binding, created, keyed, known, orphaned, unlooked>>
      /\ refused' = TRUE
      /\ call[c].pc = "updating"
      /\ call'[c].pc = "failing"
      /\ call'[c].answer = call[c].bound
      /\ call'[c].seen = call[c].seen
      /\ \A d \in Call : d # c => call'[d] = call[d]
    BY DEF UpdateThrows, At, SyncInv, Shapes, CallFields, remote
<1>2. binding # 0 /\ call[c].bound = binding
    BY <1>1 DEF SyncInv, InHand, BindingStands
<1>3. Numbered'
    <2>1. ASSUME NEW d \in Call
          PROVE  call'[d].answer \in 0..created /\ call'[d].seen.remote \in 0..created
        <3>1. CASE d = c
            BY <1>1, <1>2, <3>1 DEF AccountInv, Numbered
        <3>2. CASE d # c
            BY <1>1, <3>2 DEF AccountInv, Numbered
        <3> QED  BY <3>1, <3>2
    <2> QED
        BY <1>1, <2>1 DEF AccountInv, Numbered
<1>4. Answers' /\ RefusedIsBound' /\ Untold'
    BY <1>1, <1>2 DEF AccountInv, Answers, RefusedIsBound, Untold
<1>5. Reporters' /\ RowKept' /\ KnownIsAccounted'
    BY <1>1 DEF AccountInv, Reporters, RowKept, KnownIsAccounted
<1> QED
    BY <1>3, <1>4, <1>5 DEF AccountInv

\* The insert that binds, answered or not.  Nobody has another customer then:
\* no update has failed, so that at most one was created.
LEMMA BindingAccounts ==
    ASSUME SyncInv, AccountInv, NEW c \in Call, call[c].pc = "persisting",
           binding = 0, binding' = call[c].answer,
           UNCHANGED <<native, row, created, keyed, known, orphaned, unlooked, refused>>,
           call'[c].pc \in {"synchronizing", "reporting"},
           call'[c].answer = call[c].answer, call'[c].seen = call[c].seen,
           \A d \in Call : d # c => call'[d] = call[d]
    PROVE  AccountInv'
<1>1. ~refused
    BY DEF AccountInv, RefusedIsBound
<1>2. created \in Nat /\ call[c].answer # 0
    BY DEF SyncInv, Shapes, InHand
<1>3. ~native => created <= 1
    BY <1>1 DEF SyncInv, OneRemoteCustomer
<1>4. call[c].answer \in 1..created
    BY <1>2 DEF AccountInv, Numbered
<1>5. ~native => \A id \in 1..created : id = call[c].answer
    BY <1>2, <1>3, <1>4
<1>6. Numbered'
    <2>1. ASSUME NEW d \in Call
          PROVE  call'[d].answer \in 0..created /\ call'[d].seen.remote \in 0..created
        <3>1. CASE d = c
            BY <3>1 DEF AccountInv, Numbered
        <3>2. CASE d # c
            BY <3>2 DEF AccountInv, Numbered
        <3> QED  BY <3>1, <3>2
    <2> QED
        BY <2>1 DEF AccountInv, Numbered
<1>7. Answers'
    <2>1. \A d \in Call : call[d].pc = "failing" => call[d].answer = 0
        BY DEF AccountInv, Answers
    <2> QED
        BY <1>2, <2>1 DEF AccountInv, Answers
<1>8. RefusedIsBound'
    BY <1>2 DEF RefusedIsBound
<1>9. Untold'
    <2> SUFFICES ASSUME ~native, ~refused, NEW d \in Call,
                        call'[d].pc = "created" \/ (call'[d].pc = "uncertain" /\ Holds(d)')
                 PROVE  FALSE
        BY DEF Untold
    <2>1. d # c /\ call'[d] = call[d]
        OBVIOUS
    <2>2. Secret(d)
        BY <2>1 DEF AccountInv, Untold, Holds
    <2> QED
        BY <1>2, <2>1, <2>2 DEF Secret
<1>10. Reporters'
    <2> SUFFICES ASSUME ~native, NEW d \in Call, call'[d].pc = "reporting"
                 PROVE  call'[d].answer = binding'
        BY DEF Reporters
    <2>1. CASE d = c
        BY <2>1
    <2>2. CASE d # c
        <3>1. call'[d] = call[d]
            BY <2>2
        <3>2. call[d].answer \in 0..created /\ call[d].answer # 0
            BY <3>1 DEF AccountInv, Answers, Numbered
        <3>3. call[d].answer \in 1..created
            BY <1>2, <3>2
        <3> QED
            BY <1>5, <3>1, <3>3
    <2> QED
        BY <2>1, <2>2
<1>11. RowKept'
    <2>1. row.remote \in 0..created
        BY DEF AccountInv, Numbered
    <2>2. row.remote = 0 \/ row.remote \in 1..created
        BY <1>2, <2>1
    <2> QED
        BY <1>5, <2>2 DEF RowKept
<1>12. KnownIsAccounted'
    BY <1>5 DEF KnownIsAccounted, AccountInv, Numbered
<1> QED
    BY <1>6, <1>7, <1>8, <1>9, <1>10, <1>11, <1>12 DEF AccountInv

LEMMA PersistAccounts ==
    ASSUME SyncInv, AccountInv, NEW c \in Call, Persist(c)
    PROVE  AccountInv'
<1>1. CASE binding \notin {0, call[c].answer}
    <2>1. /\ UNCHANGED <<native, row, binding, created, keyed, known, orphaned, unlooked, refused>>
          /\ call[c].pc = "persisting"
          /\ call'[c].pc = "reporting" /\ call'[c].conflict = TRUE
          /\ call'[c].answer = call[c].answer
          /\ call'[c].seen = call[c].seen
          /\ \A d \in Call : d # c => call'[d] = call[d]
        <3> DEFINE next == [call[c] EXCEPT !.pc = "reporting", !.conflict = TRUE]
        <3>1. call' = [call EXCEPT ![c] = next]
            BY <1>1 DEF Persist
        <3>2. /\ next.pc = "reporting" /\ next.conflict = TRUE
              /\ next.answer = call[c].answer /\ next.seen = call[c].seen
            BY DEF SyncInv, Shapes, CallFields
        <3>3. c \in DOMAIN call
            BY DEF SyncInv, Shapes
        <3> HIDE DEF next
        <3> QED
            BY <1>1, <3>1, <3>2, <3>3 DEF Persist, At, remote, SyncInv, Shapes
    <2>2. call[c].answer # 0
        BY <2>1 DEF SyncInv, InHand
    <2>3. GoesOn(c)
        <3>1. native \/ call'[c].conflict \/ binding = 0 \/ call'[c].answer = binding
            BY <2>1, Zenon
        <3>2. row'.remote = row.remote /\ UNCHANGED <<row.owner, row.attempts>>
            BY <2>1
        <3> QED
            BY <2>1, <2>2, <3>1, <3>2, Zenon DEF GoesOn
    <2> QED
        BY <2>3, GoingOnKeeps
<1>2. CASE binding \in {0, call[c].answer}
    <2>1. /\ UNCHANGED <<native, row, created, keyed, known, orphaned, unlooked, refused>>
          /\ call[c].pc = "persisting"
          /\ binding' = call[c].answer
          /\ call'[c].pc = "synchronizing"
          /\ call'[c].answer = call[c].answer
          /\ call'[c].seen = call[c].seen
          /\ \A d \in Call : d # c => call'[d] = call[d]
        BY <1>2 DEF Persist, Goto, At, SyncInv, Shapes, CallFields, remote
    <2>2. CASE binding = call[c].answer
        <3>1. GoesOn(c)
            BY <2>1, <2>2 DEF GoesOn
        <3> QED
            BY <3>1, GoingOnKeeps
    <2>3. CASE binding = 0
        BY <2>1, <2>3, BindingAccounts
    <2> QED
        BY <1>2, <2>2, <2>3
<1> QED
    BY <1>1, <1>2

\* The insert throws and nobody looks at the winner: a customer that lost to
\* another one is put down as such.
LEMMA PersistThrowsAccounts ==
    ASSUME SyncInv, AccountInv, NEW c \in Call, PersistThrows(c)
    PROVE  AccountInv'
<1>1. /\ UNCHANGED <<native, row, created, keyed, known, orphaned, refused>>
      /\ call[c].pc = "persisting"
      /\ UNCHANGED binding \/ (binding = 0 /\ binding' = call[c].answer)
      /\ unlooked' = IF binding \in {0, call[c].answer} THEN unlooked
                     ELSE unlooked \cup {call[c].answer}
    BY DEF PersistThrows, At, remote
<1>2. /\ call'[c].pc = "reporting"
      /\ call'[c].answer = call[c].answer
      /\ call'[c].seen = call[c].seen
      /\ \A d \in Call : d # c => call'[d] = call[d]
    BY DEF PersistThrows, Goto, SyncInv, Shapes, CallFields
<1>3. call[c].answer # 0
    BY <1>1 DEF SyncInv, InHand
<1>4. CASE UNCHANGED binding /\ binding \in {0, call[c].answer}
    <2>1. UNCHANGED unlooked
        BY <1>1, <1>4
    <2>2. GoesOn(c)
        BY <1>1, <1>2, <1>3, <1>4, <2>1 DEF GoesOn
    <2> QED
        BY <2>2, GoingOnKeeps
<1>5. CASE binding = 0 /\ binding' = call[c].answer
    BY <1>1, <1>2, <1>5, BindingAccounts
<1>6. CASE UNCHANGED binding /\ binding \notin {0, call[c].answer}
    <2>1. unlooked' = unlooked \cup {call[c].answer}
        BY <1>1, <1>6
    <2>2. Numbered'
        <3>1. ASSUME NEW d \in Call
              PROVE  call'[d].answer \in 0..created /\ call'[d].seen.remote \in 0..created
            <4>1. CASE d = c
                BY <1>2, <4>1 DEF AccountInv, Numbered
            <4>2. CASE d # c
                BY <1>2, <4>2 DEF AccountInv, Numbered
            <4> QED  BY <4>1, <4>2
        <3> QED
            BY <1>1, <1>6, <3>1 DEF AccountInv, Numbered
    <2>3. Answers' /\ RefusedIsBound'
        BY <1>1, <1>2, <1>3, <1>6 DEF AccountInv, Answers, RefusedIsBound
    <2>4. Untold'
        <3> SUFFICES ASSUME ~native, ~refused, NEW d \in Call,
                            call'[d].pc = "created" \/ (call'[d].pc = "uncertain" /\ Holds(d)')
                     PROVE  FALSE
            BY <1>1 DEF Untold
        <3>1. d # c /\ call'[d] = call[d]
            BY <1>2
        <3>2. Holds(d)' => Holds(d)
            BY <1>1, <3>1 DEF Holds
        <3>3. Secret(d)
            BY <3>1, <3>2 DEF AccountInv, Untold
        <3> QED
            BY <1>6, <3>3 DEF Secret
    <2>5. Reporters'
        BY <1>1, <1>2, <1>6, <2>1 DEF AccountInv, Reporters
    <2>6. RowKept' /\ KnownIsAccounted'
        BY <1>1, <1>6, <2>1 DEF AccountInv, RowKept, KnownIsAccounted
    <2> QED
        BY <2>2, <2>3, <2>4, <2>5, <2>6 DEF AccountInv
<1> QED
    BY <1>1, <1>4, <1>5, <1>6

\* An attempt ends, having told the row and perhaps reported an orphan.
Concludes(c) ==
    /\ UNCHANGED <<native, binding, created, keyed, unlooked, refused>>
    /\ row' = row \/ (Holds(c) /\ row'.remote = call[c].answer /\ row'.owner = Nobody)
    /\ orphaned \subseteq orphaned'
    /\ known' = known \cup ({call[c].answer} \ {0})
    /\ call'[c] = Ended
    /\ \A d \in Call : d # c => call'[d] = call[d]

LEMMA CompletingConcludes ==
    ASSUME SyncInv, NEW c \in Call, NEW status, End(c), orphaned \subseteq orphaned',
           UNCHANGED <<native, binding, remote, unlooked, refused>>,
           row' = IF Holds(c) THEN Completed(status, call[c].answer) ELSE row
    PROVE  Concludes(c)
<1>1. Settles(c, status, call[c].answer)
    BY CompletedSettles DEF SyncInv
<1>2. c \in DOMAIN call
    BY DEF SyncInv, Shapes
<1>3. row' = row \/ (Holds(c) /\ row'.remote = call[c].answer /\ row'.owner = Nobody)
    BY <1>1 DEF Settles
<1>4. call'[c] = Ended /\ \A d \in Call : d # c => call'[d] = call[d]
    BY <1>2 DEF End, SyncInv, Shapes
<1>5. known' = known \cup ({call[c].answer} \ {0})
    BY DEF End
<1> QED
    BY <1>3, <1>4, <1>5 DEF Concludes, remote

\* Once a customer is bound, the row no longer counts.
LEMMA BoundIsAccounted ==
    ASSUME SyncInv, AccountInv, ~native, binding # 0, NEW id \in known
    PROVE  id = binding \/ id \in orphaned \/ id \in unlooked
<1>1. id # 0
    BY DEF AccountInv, Numbered, SyncInv, Shapes
<1> QED
    BY <1>1 DEF AccountInv, RowKept, KnownIsAccounted

LEMMA ConcludingKeeps ==
    ASSUME SyncInv, AccountInv, NEW c \in Call, Concludes(c),
           RowKept', KnownIsAccounted'
    PROVE  AccountInv'
<1>1. created \in Nat
    BY DEF SyncInv, Shapes
<1>2. call'[c].answer = 0 /\ call'[c].seen.remote = 0 /\ call'[c].pc = "ended"
    BY DEF Concludes, Ended, Resting, NoRow
<1>3. Numbered'
    <2>1. ASSUME NEW d \in Call
          PROVE  call'[d].answer \in 0..created /\ call'[d].seen.remote \in 0..created
        <3>1. CASE d = c
            BY <1>1, <1>2, <3>1
        <3>2. CASE d # c
            BY <3>2 DEF Concludes, AccountInv, Numbered
        <3> QED  BY <3>1, <3>2
    <2>2. known' \subseteq 1..created
        <3>1. call[c].answer \in 0..created /\ known \subseteq 1..created
            BY DEF AccountInv, Numbered
        <3>2. ASSUME NEW id \in known' PROVE id \in 1..created
            BY <1>1, <3>1 DEF Concludes
        <3> QED  BY <3>2
    <2>3. row'.remote \in 0..created
        BY DEF Concludes, AccountInv, Numbered
    <2> QED
        BY <2>1, <2>2, <2>3 DEF Concludes, AccountInv, Numbered
<1>4. Answers' /\ RefusedIsBound' /\ Reporters'
    BY <1>2 DEF Concludes, AccountInv, Answers, RefusedIsBound, Reporters
<1>5. Untold'
    <2> SUFFICES ASSUME ~native, ~refused, NEW d \in Call,
                        call'[d].pc = "created" \/ (call'[d].pc = "uncertain" /\ Holds(d)')
                 PROVE  Secret(d)'
        BY DEF Untold, Concludes
    <2>1. d # c /\ call'[d] = call[d]
        BY <1>2 DEF Concludes
    <2>2. Holds(d)' => Holds(d)
        BY <2>1, SyncAssumption DEF Holds, Concludes
    <2>3. Secret(d)
        BY <2>1, <2>2 DEF AccountInv, Untold
    <2>4. call[c].answer = 0
        BY <2>1, <2>3 DEF Secret
    <2> QED
        BY <1>2, <2>1, <2>3, <2>4 DEF Secret, Concludes
<1> QED
    BY <1>3, <1>4, <1>5 DEF AccountInv

\* While the row has the customer that a call learned of, nobody may empty it.
LEMMA SynchronizeAccounts ==
    ASSUME SyncInv, AccountInv, NEW c \in Call, Synchronize(c)
    PROVE  AccountInv'
<1>1. call[c].pc = "synchronizing"
    BY DEF Synchronize, At
<1>2. binding # 0 /\ call[c].answer = binding
    BY <1>1 DEF SyncInv, InHand
<1>3. Concludes(c) /\ orphaned' = orphaned
    BY CompletingConcludes DEF Synchronize
<1>4. row' = row \/ row'.remote = binding
    BY <1>2, <1>3 DEF Concludes
<1>5. RowKept'
    BY <1>3, <1>4 DEF Concludes, AccountInv, RowKept
<1>6. KnownIsAccounted'
    BY <1>2, <1>3, BoundIsAccounted DEF Concludes, KnownIsAccounted
<1> QED
    BY <1>3, <1>5, <1>6, ConcludingKeeps

LEMMA ReportAccounts ==
    ASSUME SyncInv, AccountInv, NEW c \in Call, Report(c)
    PROVE  AccountInv'
<1>1. call[c].pc = "reporting"
    BY DEF Report, At
<1>2. Concludes(c)
    BY CompletingConcludes DEF Report
<1>3. /\ row' = IF Holds(c) THEN Completed("reconciliation_required", call[c].answer) ELSE row
      /\ Holds(c) => row'.remote = call[c].answer
      /\ ~Holds(c) => row' = row
    BY DEF Report, Completed, SyncInv, Shapes, RowFields
<1>4. ~Holds(c) \/ call[c].conflict => call[c].answer \in orphaned'
    BY DEF Report
<1>5. ~native /\ Holds(c) /\ binding # 0 =>
          \/ call[c].answer = binding
          \/ call[c].answer \in orphaned' \cup unlooked
    BY <1>1, <1>4 DEF AccountInv, Reporters
<1>6. RowKept'
    BY <1>2, <1>3, <1>5 DEF Concludes, AccountInv, RowKept
<1>7. KnownIsAccounted'
    <2> SUFFICES ASSUME ~native, NEW id \in known'
                 PROVE  id = binding \/ id \in orphaned' \/ id = row'.remote \/ id \in unlooked
        BY <1>2 DEF KnownIsAccounted, Concludes
    <2>1. CASE id = call[c].answer
        BY <1>3, <1>4, <2>1
    <2>2. CASE id # call[c].answer
        <3>1. id \in known
            BY <1>2, <2>2 DEF Concludes
        <3>2. id = binding \/ id \in orphaned \/ id = row.remote \/ id \in unlooked
            BY <3>1 DEF AccountInv, KnownIsAccounted
        <3>3. orphaned \subseteq orphaned'
            BY <1>2 DEF Concludes
        <3>4. CASE binding # 0
            BY <3>1, <3>3, <3>4, BoundIsAccounted
        <3>5. CASE binding = 0
            <4>1. created <= 1 /\ created \in Nat
                BY <3>5 DEF SyncInv, OneRemoteCustomer, Shapes, AccountInv, RefusedIsBound
            <4>2. call[c].answer \in 0..created /\ call[c].answer # 0 /\ id \in 1..created
                BY <1>1, <3>1 DEF AccountInv, Numbered, Answers
            <4> QED
                BY <2>2, <4>1, <4>2
        <3> QED
            BY <3>4, <3>5
    <2> QED
        BY <2>1, <2>2
<1> QED
    BY <1>2, <1>6, <1>7, ConcludingKeeps

LEMMA ReportUncertainAccounts ==
    ASSUME SyncInv, AccountInv, NEW c \in Call, ReportUncertain(c)
    PROVE  AccountInv'
<1>1. call[c].pc = "uncertain"
    BY DEF ReportUncertain, At
<1>2. call[c].answer = 0
    BY <1>1 DEF AccountInv, Answers
<1>3. Concludes(c) /\ orphaned' = orphaned /\ known' = known
    <2>1. Concludes(c) /\ orphaned' = orphaned
        BY <1>2, CompletingConcludes DEF ReportUncertain
    <2> QED
        BY <1>2, <2>1 DEF Concludes
<1>4. row' = row \/ (Holds(c) /\ row'.remote = 0)
    BY <1>2, <1>3 DEF Concludes
<1>5. RowKept'
    BY <1>3, <1>4 DEF Concludes, AccountInv, RowKept
<1>6. KnownIsAccounted'
    <2> SUFFICES ASSUME ~native, NEW id \in known
                 PROVE  id = binding \/ id \in orphaned \/ id = row'.remote \/ id \in unlooked
        BY <1>3 DEF KnownIsAccounted, Concludes
    <2>1. CASE row' = row
        BY <2>1 DEF AccountInv, KnownIsAccounted
    <2>2. CASE Holds(c) /\ ~refused
        BY <1>1, <2>2 DEF AccountInv, Untold, Secret
    <2>3. CASE refused
        <3>1. binding # 0
            BY <2>3 DEF AccountInv, RefusedIsBound
        <3> QED
            BY <3>1, BoundIsAccounted
    <2> QED
        BY <1>4, <2>1, <2>2, <2>3
<1> QED
    BY <1>3, <1>5, <1>6, ConcludingKeeps

LEMMA ReportFailedAccounts ==
    ASSUME SyncInv, AccountInv, NEW c \in Call, ReportFailed(c)
    PROVE  AccountInv'
<1>1. call[c].pc = "failing"
    BY DEF ReportFailed, At
<1>2. call[c].answer \in {0, binding}
    BY <1>1 DEF AccountInv, Answers
<1>3. Concludes(c) /\ orphaned' = orphaned
    BY CompletingConcludes DEF ReportFailed
<1>4. row' = row \/ row'.remote \in {0, binding}
    BY <1>2, <1>3 DEF Concludes
<1>5. RowKept'
    BY <1>3, <1>4 DEF Concludes, AccountInv, RowKept
<1>6. KnownIsAccounted'
    <2> SUFFICES ASSUME ~native, NEW id \in known'
                 PROVE  id = binding \/ id \in orphaned \/ id = row'.remote \/ id \in unlooked
        BY <1>3 DEF KnownIsAccounted, Concludes
    <2>1. CASE id \notin known
        BY <1>2, <1>3, <2>1 DEF Concludes
    <2>2. CASE binding # 0 /\ id \in known
        BY <2>2, BoundIsAccounted
    <2>3. CASE binding = 0 /\ id \in known
        <3>1. ~refused
            BY <2>3 DEF AccountInv, RefusedIsBound
        <3>2. created = 0
            BY <1>1, <3>1 DEF SyncInv, CreatorHolds
        <3> QED
            BY <2>3, <3>2 DEF AccountInv, Numbered
    <2> QED
        BY <2>1, <2>2, <2>3
<1> QED
    BY <1>3, <1>5, <1>6, ConcludingKeeps

\* Its transaction may commit before it throws: the call then still reports.
LEMMA SynchronizeThrowsAccounts ==
    ASSUME SyncInv, AccountInv, NEW c \in Call, SynchronizeThrows(c)
    PROVE  AccountInv'
<1>1. /\ UNCHANGED <<native, binding, created, keyed, known, orphaned, unlooked, refused>>
      /\ call[c].pc = "synchronizing"
      /\ call'[c].pc = "reporting"
      /\ call'[c].answer = call[c].answer
      /\ call'[c].seen = call[c].seen
      /\ \A d \in Call : d # c => call'[d] = call[d]
      /\ row' = row \/ (row'.remote = call[c].answer /\ row'.owner = Nobody)
    <2>1. row' \in {row, IF Holds(c) THEN Completed("synchronized", call[c].answer) ELSE row}
        BY DEF SynchronizeThrows
    <2>2. Settles(c, "synchronized", call[c].answer)
        BY <2>1, CompletedSettles DEF SyncInv
    <2>3. Stays(c, "reporting")
        BY GotoMoves DEF SynchronizeThrows, SyncInv
    <2>4. row' = row \/ (row'.remote = call[c].answer /\ row'.owner = Nobody)
        BY <2>2 DEF Settles
    <2>5. UNCHANGED <<native, binding, created, keyed, known, orphaned, unlooked, refused>>
          /\ call[c].pc = "synchronizing"
        BY DEF SynchronizeThrows, At, remote
    <2> QED
        BY <2>3, <2>4, <2>5 DEF Stays, Moved
<1>2. binding # 0 /\ call[c].answer = binding
    BY <1>1 DEF SyncInv, InHand
<1>3. Numbered'
    <2>1. ASSUME NEW d \in Call
          PROVE  call'[d].answer \in 0..created /\ call'[d].seen.remote \in 0..created
        <3>1. CASE d = c
            BY <1>1, <3>1 DEF AccountInv, Numbered
        <3>2. CASE d # c
            BY <1>1, <3>2 DEF AccountInv, Numbered
        <3> QED  BY <3>1, <3>2
    <2> QED
        BY <1>1, <1>2, <2>1 DEF AccountInv, Numbered
<1>4. Answers' /\ RefusedIsBound' /\ Reporters'
    BY <1>1, <1>2 DEF AccountInv, Answers, RefusedIsBound, Reporters
<1>5. Untold'
    <2> SUFFICES ASSUME ~native, ~refused, NEW d \in Call,
                        call'[d].pc = "created" \/ (call'[d].pc = "uncertain" /\ Holds(d)')
                 PROVE  FALSE
        BY <1>1 DEF Untold
    <2>1. d # c /\ call'[d] = call[d]
        BY <1>1
    <2>2. Holds(d)' => Holds(d)
        BY <1>1, <2>1, SyncAssumption DEF Holds
    <2> QED
        BY <1>2, <2>1, <2>2 DEF AccountInv, Untold, Secret
<1>6. RowKept' /\ KnownIsAccounted'
    BY <1>1, <1>2 DEF AccountInv, RowKept, KnownIsAccounted, Numbered
<1> QED
    BY <1>3, <1>4, <1>5, <1>6 DEF AccountInv

LEMMA AccountInvNext == SyncInv /\ AccountInv /\ [Next]_vars => AccountInv'
<1> SUFFICES ASSUME SyncInv, AccountInv, [Next]_vars PROVE AccountInv'
    OBVIOUS
<1>1. ASSUME NEW c \in Call, Begin(c) PROVE AccountInv'
    BY <1>1, BeginGoesOn, GoingOnKeeps
<1>2. ASSUME NEW c \in Call, Work(c) \/ Crash(c) PROVE AccountInv'
    <2>1. CASE \/ CreateAnswered(c) \/ CreateRefused(c) \/ UpdateRemote(c)
               \/ ReportThrows(c) \/ Crash(c)
        BY <2>1, WorkGoesOn, GoingOnKeeps
    <2> QED
        BY <1>2, <2>1, CreateRemoteAccounts, CreateUncertainAccounts, UpdateThrowsAccounts,
           PersistAccounts, PersistThrowsAccounts, SynchronizeAccounts, SynchronizeThrowsAccounts, ReportAccounts,
           ReportUncertainAccounts, ReportFailedAccounts DEF Work
<1>3. CASE ForgetKey
    <2>1. UNCHANGED <<native, row, binding, created, call, known, orphaned, unlooked, refused>>
          /\ keyed' = 0
        BY <1>3 DEF ForgetKey
    <2>2. created \in Nat
        BY DEF SyncInv, Shapes
    <2> QED
        BY <2>1, <2>2 DEF AccountInv, Numbered, Answers, RefusedIsBound, Untold, Secret, Holds,
            Reporters, RowKept, KnownIsAccounted
<1>4. CASE Tick
    <2>1. UNCHANGED <<native, binding, created, keyed, known, orphaned, unlooked, refused>>
        BY <1>4 DEF Tick, remote
    <2>2. /\ row'.remote = row.remote
          /\ row'.attempts = row.attempts /\ row'.owner = row.owner
        BY <1>4 DEF Tick, SyncInv, Shapes, RowFields
    <2>3. ASSUME NEW c \in Call
          PROVE  /\ call'[c].pc = call[c].pc /\ call'[c].answer = call[c].answer
                 /\ call'[c].conflict = call[c].conflict
                 /\ call'[c].seen.remote = call[c].seen.remote
                 /\ call'[c].seen.attempts = call[c].seen.attempts
        <3>1. DOMAIN call[c] = CallFields /\ DOMAIN call[c].seen = RowFields
            BY DEF SyncInv, Shapes
        <3>2. call'[c] = [call[c] EXCEPT !.seen = [call[c].seen EXCEPT !.lease = Before(@)]]
            BY <1>4 DEF Tick
        <3> QED
            BY <3>1, <3>2 DEF CallFields, RowFields
    <2>4. Numbered' /\ Answers' /\ RefusedIsBound'
        BY <2>1, <2>2, <2>3 DEF AccountInv, Numbered, Answers, RefusedIsBound
    <2>5. Untold'
        BY <2>1, <2>2, <2>3 DEF AccountInv, Untold, Secret, Holds
    <2>6. Reporters' /\ RowKept' /\ KnownIsAccounted'
        BY <2>1, <2>2, <2>3 DEF AccountInv, Reporters, RowKept, KnownIsAccounted
    <2> QED
        BY <2>4, <2>5, <2>6 DEF AccountInv
<1>5. CASE UNCHANGED vars
    BY <1>5 DEF vars, remote, AccountInv, Numbered, Answers, RefusedIsBound, Untold, Secret,
        Holds, Reporters, RowKept, KnownIsAccounted
<1> QED
    BY <1>1, <1>2, <1>3, <1>4, <1>5 DEF Next

\* Without native idempotency no customer is forgotten that a call learned of:
\* it is bound, kept in the row, or reported by customer.provider.orphaned
\* (CustomerProviderSyncLifecycle), for any number of calls, lost claims, lost
\* answers and failures; but for a second one whose call could not look at the
\* binding it had lost to (CustomerProviderBindingWriter.persist).
THEOREM CustomersAreAccounted == Spec => []KnownIsAccounted
<1>1. SyncInv /\ AccountInv /\ [Next]_vars => (SyncInv /\ AccountInv)'
    BY SyncInvNext, AccountInvNext
<1>2. Init => SyncInv /\ AccountInv
    BY SyncInvInit, AccountInvInit
<1>3. SyncInv /\ AccountInv => KnownIsAccounted
    BY DEF AccountInv
<1> QED
    BY <1>1, <1>2, <1>3, PTL DEF Spec

=============================================================================

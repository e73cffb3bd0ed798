---------------------------- MODULE OutboxProofs ----------------------------
(***************************************************************************)
(* The outbox relay and the webhook delivery built on it, for any number   *)
(* of events, tenants, workers and endpoints, every limit, lifetime and    *)
(* delay, and without a bound on crashes, stalls and faults.               *)
(***************************************************************************)
EXTENDS WebhookDelivery, FiniteSetTheorems, WellFoundedInduction, TLAPS

Status == {"absent", "pending", "processing", "published", "failed"}
Row == [status : Status, attempts : Nat, retryLeft : Nat,
        lockedBy : Worker \cup {None}, lockLeft : Nat]
Claimed == [id : Event, attempts : Nat]

RelayTypes ==
    /\ row \in [Event -> Row]
    /\ pc \in [Worker -> {"idle", "claiming", "delivering", "publishing", "failing"}]
    /\ batch \in [Worker -> Seq(Claimed)]
    /\ lease \in [Worker -> Nat]
    /\ failures \in [Event -> 0..MaxAttempts]

\* Rows have places of their own, and a claim looks only at rows that exist
Rows ==
    /\ IsFiniteSet(Staged)
    /\ createdAt \in [Event -> Nat]
    /\ \A e \in Staged : createdAt[e] \in 1..Cardinality(Staged)
    /\ \A e, f \in Staged : createdAt[e] = createdAt[f] => e = f
    /\ window \in [Worker -> SUBSET Staged]

\* A row waits or is locked only while its status says so
RowStates ==
    \A e \in Event :
        /\ row[e].status # "pending" => row[e].retryLeft = 0
        /\ row[e].status # "processing" => row[e].lockedBy = None /\ row[e].lockLeft = 0

Batches ==
    \A w \in Worker :
        /\ pc[w] \in {"idle", "claiming"} => batch[w] = <<>> /\ lease[w] = 0
        /\ pc[w] \notin {"idle", "claiming"} => batch[w] # <<>>
        /\ \A i, j \in DOMAIN batch[w] : batch[w][i].id = batch[w][j].id => i = j

\* What a worker in its claim knows of the rows it still has in hand
Holds(w, entry) ==
    /\ lease[w] > 0 => row[entry.id].lockedBy = w /\ row[entry.id].lockLeft >= lease[w]
    /\ row[entry.id].lockedBy = w => row[entry.id].attempts = entry.attempts

Claims == \A w \in Worker : \A i \in DOMAIN batch[w] : Holds(w, batch[w][i])

RelayInv == RelayTypes /\ Rows /\ RowStates /\ Batches /\ Claims

\* The attempts a row counts really failed, up to the limit
Earned(e, attempts) == failures[e] >= attempts \/ failures[e] = MaxAttempts

FailuresCounted ==
    /\ \A e \in Event :
        /\ Earned(e, row[e].attempts)
        /\ row[e].status = "failed" => failures[e] = MaxAttempts
    /\ \A w \in Worker :
        pc[w] = "failing" /\ row[Current(w)].lockedBy = w =>
            Earned(Current(w), row[Current(w)].attempts + 1)

-----------------------------------------------------------------------------
(* Orders: a finite set listed in a strict order has each element once.    *)

IsOrderOf(order, S) ==
    /\ \A x \in S : <<x, x>> \notin order
    /\ \A x, y, z \in S : <<x, y>> \in order /\ <<y, z>> \in order => <<x, z>> \in order
    /\ \A x, y \in S : x # y => <<x, y>> \in order \/ <<y, x>> \in order

LEMMA PlacesDiffer ==
    ASSUME NEW S, IsFiniteSet(S), NEW order, IsOrderOf(order, S),
           NEW x \in S, NEW y \in S, <<x, y>> \in order
    PROVE  Place(x, S, order) # Place(y, S, order)
<1> DEFINE Earlier(z) == {u \in S : <<u, z>> \in order}
<1>1. IsFiniteSet(Earlier(y))
    BY FS_Subset
<1>2. Earlier(x) \in SUBSET Earlier(y)
    BY DEF IsOrderOf
<1>3. x \in Earlier(y) /\ x \notin Earlier(x)
    BY DEF IsOrderOf
<1>4. Earlier(x) # Earlier(y)
    BY <1>3
<1> HIDE DEF Earlier
<1>5. Cardinality(Earlier(x)) # Cardinality(Earlier(y))
    BY <1>1, <1>2, <1>4, FS_Subset
<1> QED
    BY <1>5 DEF Earlier, Place

LEMMA PlacesBounded ==
    ASSUME NEW S, IsFiniteSet(S), NEW order, IsOrderOf(order, S), NEW x \in S
    PROVE  Place(x, S, order) \in 0..(Cardinality(S) - 1)
<1> DEFINE Earlier == {u \in S : <<u, x>> \in order}
<1>1. Earlier \in SUBSET S /\ Earlier # S
    BY DEF IsOrderOf
<1> HIDE DEF Earlier
<1>2. IsFiniteSet(Earlier) /\ Cardinality(Earlier) < Cardinality(S)
    BY <1>1, FS_Subset, FS_CardinalityType
<1>3. Cardinality(Earlier) \in Nat /\ Cardinality(S) \in Nat
    BY <1>2, FS_CardinalityType
<1> QED
    BY <1>2, <1>3 DEF Earlier, Place

\* Every place is taken: as many places as elements, and no two share one
LEMMA PlacesTaken ==
    ASSUME NEW S, IsFiniteSet(S), NEW order, IsOrderOf(order, S),
           NEW k \in 1..Cardinality(S)
    PROVE  \E x \in S : Place(x, S, order) = k - 1
<1> DEFINE T == 0..(Cardinality(S) - 1)
           place == [x \in S |-> Place(x, S, order)]
<1>1. Cardinality(S) \in Nat
    BY FS_CardinalityType
<1>2. IsFiniteSet(T) /\ Cardinality(T) = Cardinality(S)
    <2> DEFINE n == Cardinality(S)
    <2>1. n \in Nat /\ n - 1 \in Int
        BY <1>1
    <2> HIDE DEF n
    <2>2. /\ IsFiniteSet(0..(n - 1))
          /\ Cardinality(0..(n - 1)) = IF 0 > n - 1 THEN 0 ELSE (n - 1) - 0 + 1
        BY <2>1, FS_Interval
    <2> QED  BY <2>1, <2>2 DEF n
<1>3. place \in [S -> T]
    BY PlacesBounded
<1>4. \A x, y \in S : place[x] = place[y] => x = y
    BY PlacesDiffer DEF IsOrderOf
<1>5. place \in Injection(S, T)
    BY <1>3, <1>4 DEF Injection, IsInjective
<1>6. place \in Surjection(S, T)
    BY <1>2, <1>5, FS_Injection
<1>7. k - 1 \in T
    BY <1>1
<1> HIDE DEF place, T
<1>8. PICK x \in S : place[x] = k - 1
    BY <1>6, <1>7 DEF Surjection
<1> QED
    BY <1>8 DEF place

LEMMA InOrderListsEachOnce ==
    ASSUME NEW S, IsFiniteSet(S), NEW order, IsOrderOf(order, S)
    PROVE  /\ InOrder(S, order) \in [1..Cardinality(S) -> S]
           /\ \A i, j \in 1..Cardinality(S) :
                InOrder(S, order)[i] = InOrder(S, order)[j] => i = j
<1> DEFINE n == Cardinality(S)
           Nth(k) == CHOOSE x \in S : Place(x, S, order) = k - 1
<1>1. \A k \in 1..n : Nth(k) \in S /\ Place(Nth(k), S, order) = k - 1
    BY PlacesTaken
<1>2. InOrder(S, order) = [k \in 1..n |-> Nth(k)]
    BY DEF InOrder
<1> HIDE DEF n, Nth
<1>3. \A i, j \in 1..n : Nth(i) = Nth(j) => i = j
    BY <1>1
<1> QED
    BY <1>1, <1>2, <1>3 DEF n

LEMMA NatLeast ==
    ASSUME NEW S, S # {}, NEW f, \A x \in S : f[x] \in Nat
    PROVE  \E x \in S : \A y \in S : f[x] <= f[y]
<1> DEFINE R == OpToRel(<, Nat)
           T == {f[x] : x \in S}
<1>1. IsWellFoundedOn(R, Nat)
    BY NatLessThanWellFounded
<1>2. \A x, y \in Nat : y < x => <<y, x>> \in R
    BY DEF OpToRel
<1>3. T \subseteq Nat /\ T # {}
    OBVIOUS
<1> HIDE DEF R, T
<1>4. PICK m \in T : \A y \in T : ~ (<<y, m>> \in R)
    BY <1>1, <1>3, WFMin
<1>5. PICK x \in S : f[x] = m
    BY <1>4 DEF T
<1>6. \A y \in S : f[y] \in T
    BY DEF T
<1>7. \A y \in S : ~ (f[y] < f[x])
    BY <1>2, <1>3, <1>4, <1>5, <1>6
<1> QED
    BY <1>7

\* The turns a claim gives to its candidates are an order of them
LEMMA TurnsAreAnOrder ==
    ASSUME NEW C, IsFiniteSet(C), NEW at, NEW owner,
           \A e \in C : at[e] \in Nat,
           \A e, f \in C : at[e] = at[f] => e = f
    PROVE  IsOrderOf(TurnOrder(C, at, owner), C)
<1> DEFINE bucket(e) == {f \in C : owner[f] = owner[e]}
           upTo(e) == {f \in bucket(e) : at[f] <= at[e]}
           round(e) == Cardinality(upTo(e))
           seenFirst(e, f) == \E g \in bucket(e) : \A h \in bucket(f) : at[g] < at[h]
           order == TurnOrder(C, at, owner)
<1>1. \A e, f \in C : <<e, f>> \in order <=>
            round(e) < round(f) \/ (round(e) = round(f) /\ seenFirst(e, f))
    BY DEF TurnOrder
<1>2. \A e \in C : IsFiniteSet(upTo(e))
    <2> TAKE e \in C
    <2>1. upTo(e) \in SUBSET C
        OBVIOUS
    <2> QED  BY <2>1, FS_Subset
<1>3. \A e \in C : round(e) \in Nat
    BY <1>2, FS_CardinalityType
<1>4. \A e \in C : e \in bucket(e)
    OBVIOUS
<1>5. \A e, f \in C : f \in bucket(e) /\ at[f] < at[e] => round(f) # round(e)
    <2> SUFFICES ASSUME NEW e \in C, NEW f \in C, f \in bucket(e), at[f] < at[e]
                 PROVE  round(f) # round(e)
        OBVIOUS
    <2>1. upTo(f) \in SUBSET upTo(e)
        OBVIOUS
    <2>2. e \in upTo(e) /\ e \notin upTo(f)
        OBVIOUS
    <2>3. upTo(f) # upTo(e)
        BY <2>2
    <2> HIDE DEF upTo
    <2> QED  BY <1>2, <2>1, <2>3, FS_Subset
<1>6. \A e, f \in C : f \notin bucket(e) => seenFirst(e, f) \/ seenFirst(f, e)
    <2> SUFFICES ASSUME NEW e \in C, NEW f \in C, f \notin bucket(e)
                 PROVE  seenFirst(e, f) \/ seenFirst(f, e)
        OBVIOUS
    <2>1. PICK g \in bucket(e) : \A h \in bucket(e) : at[g] <= at[h]
        <3>1. bucket(e) # {} /\ \A h \in bucket(e) : at[h] \in Nat
            OBVIOUS
        <3> HIDE DEF bucket
        <3> QED  BY <3>1, NatLeast
    <2>2. PICK k \in bucket(f) : \A h \in bucket(f) : at[k] <= at[h]
        <3>1. bucket(f) # {} /\ \A h \in bucket(f) : at[h] \in Nat
            OBVIOUS
        <3> HIDE DEF bucket
        <3> QED  BY <3>1, NatLeast
    <2>3. g # k
        OBVIOUS
    <2>4. CASE at[g] < at[k]
        <3>1. \A h \in bucket(f) : at[g] < at[h]
            BY <2>2, <2>4
        <3> QED  BY <3>1
    <2>5. CASE at[k] < at[g]
        <3>1. \A h \in bucket(e) : at[k] < at[h]
            BY <2>1, <2>5
        <3> QED  BY <3>1
    <2> QED  BY <2>3, <2>4, <2>5
<1>7. \A e \in C : ~seenFirst(e, e)
    OBVIOUS
<1>8. \A e, f, g \in C : seenFirst(e, f) /\ seenFirst(f, g) => seenFirst(e, g)
    <2> TAKE e, f, g \in C
    <2> HAVE seenFirst(e, f) /\ seenFirst(f, g)
    <2>1. PICK x \in bucket(e) : \A h \in bucket(f) : at[x] < at[h]
        OBVIOUS
    <2>2. PICK y \in bucket(f) : \A h \in bucket(g) : at[y] < at[h]
        OBVIOUS
    <2>3. at[x] < at[y]
        BY <2>1
    <2>4. \A h \in bucket(g) : at[h] \in Nat
        OBVIOUS
    <2>5. at[x] \in Nat /\ at[y] \in Nat
        OBVIOUS
    <2>6. \A h \in bucket(g) : at[x] < at[h]
        <3> HIDE DEF bucket
        <3> QED  BY <2>2, <2>3, <2>4, <2>5
    <2> QED  BY <2>6
<1>9. ASSUME NEW e \in C, NEW f \in C, e # f, round(e) = round(f)
      PROVE  seenFirst(e, f) \/ seenFirst(f, e)
    <2>1. at[e] < at[f] \/ at[f] < at[e]
        <3>1. at[e] \in Nat /\ at[f] \in Nat /\ at[e] # at[f]
            BY <1>9
        <3> QED  BY <3>1
    <2>2. f \in bucket(e) <=> e \in bucket(f)
        OBVIOUS
    <2> HIDE DEF round, bucket, seenFirst
    <2> QED  BY <1>5, <1>6, <1>9, <2>1, <2>2
<1> HIDE DEF round, bucket, seenFirst, order
<1>10. \A e, f, g \in C : <<e, f>> \in order /\ <<f, g>> \in order => <<e, g>> \in order
    BY <1>1, <1>3, <1>8
<1>11. \A e \in C : <<e, e>> \notin order
    BY <1>1, <1>3, <1>7
<1>12. \A e, f \in C : e # f => <<e, f>> \in order \/ <<f, e>> \in order
    BY <1>1, <1>3, <1>9
<1> QED
    BY <1>10, <1>11, <1>12 DEF IsOrderOf, order

\* The part of an order that lies in a smaller set is an order of it
LEMMA PartIsAnOrder ==
    ASSUME NEW S, NEW T \in SUBSET S, NEW order, IsOrderOf(order, S)
    PROVE  IsOrderOf(order, T)
BY DEF IsOrderOf

-----------------------------------------------------------------------------
(* Claim, lease and batch: one lemma per kind of step.                     *)

LEMMA MinOfTwo ==
    ASSUME NEW a \in Int, NEW b \in Int
    PROVE  Min({a, b}) = IF a <= b THEN a ELSE b
<1>1. \A x \in {a, b} : (\A y \in {a, b} : x <= y) <=> x = (IF a <= b THEN a ELSE b)
    OBVIOUS
<1>2. (IF a <= b THEN a ELSE b) \in {a, b}
    OBVIOUS
<1> QED
    BY <1>1, <1>2 DEF Min

\* The head of a batch and what is left of it
LEMMA BatchTail ==
    ASSUME NEW b \in Seq(Claimed), b # <<>>
    PROVE  /\ 1 \in DOMAIN b /\ Head(b) = b[1] /\ Head(b) \in Claimed
           /\ Tail(b) \in Seq(Claimed)
           /\ Len(b) = 1 <=> Tail(b) = <<>>
           /\ \A i \in DOMAIN Tail(b) :
                i \in Nat /\ i + 1 \in DOMAIN b /\ Tail(b)[i] = b[i + 1]
<1>1. 1 \in DOMAIN b /\ Head(b) = b[1] /\ Head(b) \in Claimed
    OBVIOUS
<1>2. Tail(b) \in Seq(Claimed)
    OBVIOUS
<1>3. Len(Tail(b)) = Len(b) - 1 /\ Len(b) \in Nat
    OBVIOUS
<1>4. Len(b) = 1 <=> Tail(b) = <<>>
    <2>1. \A t \in Seq(Claimed) : Len(t) = 0 <=> t = <<>>
        OBVIOUS
    <2>2. Len(Tail(b)) = 0 <=> Tail(b) = <<>>
        BY <1>2, <2>1
    <2> QED  BY <1>3, <2>2
<1>5. \A i \in DOMAIN Tail(b) : i \in Nat /\ i + 1 \in DOMAIN b /\ Tail(b)[i] = b[i + 1]
    BY <1>2, <1>3
<1> QED
    BY <1>1, <1>2, <1>4, <1>5

LEMMA EntriesTyped ==
    ASSUME RelayTypes, NEW w \in Worker, NEW i \in DOMAIN batch[w]
    PROVE  batch[w][i].id \in Event /\ batch[w][i].attempts \in Nat
<1>1. batch[w] \in Seq(Claimed)
    BY DEF RelayTypes
<1>2. batch[w][i] \in Claimed
    BY <1>1
<1> QED
    BY <1>2 DEF Claimed

LEMMA RelayInit == Init => RelayInv
<1> SUFFICES ASSUME Init PROVE RelayInv
    OBVIOUS
<1> USE OutboxAssumption DEF Init
<1>1. RelayTypes
    BY DEF RelayTypes, NoRow, Row, Status
<1>2. Staged = {}
    BY DEF Staged, NoRow
<1>3. Rows
    BY <1>2, FS_EmptySet DEF Rows
<1>4. RowStates
    BY DEF RowStates, NoRow
<1>5. Batches
    BY DEF Batches
<1>6. Claims
    BY DEF Claims
<1> QED
    BY <1>1, <1>3, <1>4, <1>5, <1>6 DEF RelayInv

\* A step that creates no row and opens no claim leaves the places alone
LEMMA RowsStay ==
    ASSUME Rows, UNCHANGED createdAt, Staged' = Staged,
           window' \in [Worker -> SUBSET Staged]
    PROVE  Rows'
BY DEF Rows

LEMMA StageKeeps ==
    ASSUME RelayInv, NEW e \in Event, Stage(e)
    PROVE  RelayInv'
<1> USE DEF RelayInv
<1>1. /\ row' = [row EXCEPT ![e] = [row[e] EXCEPT !.status = "pending"]]
      /\ row[e].status = "absent"
      /\ UNCHANGED <<pc, window, batch, lease, failures>>
    BY DEF Stage, RelayTypes
<1>2. RelayTypes'
    BY <1>1 DEF RelayTypes, Row, Status
<1>3. Staged' = Staged \cup {e} /\ e \notin Staged
    BY <1>1 DEF Staged, RelayTypes
<1>4. Rows'
    <2> DEFINE n == Cardinality(Staged)
    <2>1. n \in Nat /\ IsFiniteSet(Staged') /\ Cardinality(Staged') = n + 1
        BY <1>3, FS_AddElement, FS_CardinalityType DEF Rows
    <2>2. createdAt' = [createdAt EXCEPT ![e] = n + 1]
        BY DEF Stage
    <2> HIDE DEF n
    <2>3. \A f \in Staged : createdAt[f] \in 1..n
        BY DEF Rows, n
    <2>4. Staged \subseteq Event /\ createdAt \in [Event -> Nat]
        BY DEF Rows, Staged
    <2>5. \A f \in Staged : createdAt'[f] = createdAt[f]
        BY <1>3, <2>2, <2>4
    <2>6. createdAt'[e] = n + 1 /\ createdAt' \in [Event -> Nat]
        BY <2>1, <2>2, <2>4
    <2>7. \A f \in Staged' : createdAt'[f] \in 1..Cardinality(Staged')
        BY <1>3, <2>1, <2>3, <2>5, <2>6
    <2>8. \A f, g \in Staged' : createdAt'[f] = createdAt'[g] => f = g
        BY <1>3, <2>1, <2>3, <2>5, <2>6 DEF Rows
    <2>9. window' \in [Worker -> SUBSET Staged']
        BY <1>1, <1>3 DEF Rows
    <2> QED  BY <2>1, <2>6, <2>7, <2>8, <2>9 DEF Rows
<1>5. RowStates'
    BY <1>1 DEF RowStates, RelayTypes, Row
<1>6. Batches'
    BY <1>1 DEF Batches
<1>7. Claims'
    <2>1. \A f \in Event : row'[f].lockedBy = row[f].lockedBy
                /\ row'[f].lockLeft = row[f].lockLeft /\ row'[f].attempts = row[f].attempts
        BY <1>1 DEF RelayTypes, Row
    <2>2. \A w \in Worker : \A i \in DOMAIN batch[w] : batch[w][i].id \in Event
        BY EntriesTyped
    <2> QED  BY <1>1, <2>1, <2>2 DEF Claims, Holds
<1> QED
    BY <1>2, <1>4, <1>5, <1>6, <1>7

\* What a claim may look at: rows that exist
LEMMA OpenClaimKeeps ==
    ASSUME RelayInv, NEW w \in Worker, SelectForUpdate(w) \/ FindCandidates(w)
    PROVE  RelayInv'
<1> USE DEF RelayInv
<1> DEFINE all == {e \in Event : Claimable(e)}
<1>1. all \subseteq Staged
    BY DEF Claimable, Staged
<1>2. PICK open : open \subseteq Staged /\ OpenClaim(w, open)
    BY <1>1 DEF SelectForUpdate, FindCandidates
<1> HIDE DEF all
<1>3. /\ pc[w] = "idle"
      /\ pc' = [pc EXCEPT ![w] = "claiming"]
      /\ window' = [window EXCEPT ![w] = FirstOf(FetchLimit, open, Older)]
      /\ UNCHANGED <<createdAt, row, batch, lease, failures>>
    BY <1>2 DEF OpenClaim
<1>4. FirstOf(FetchLimit, open, Older) \subseteq Staged
    BY <1>2 DEF FirstOf
<1>5. RelayTypes'
    BY <1>3 DEF RelayTypes
<1>6. Rows'
    <2>1. Staged' = Staged
        BY <1>3 DEF Staged
    <2>2. window' \in [Worker -> SUBSET Staged]
        BY <1>3, <1>4 DEF Rows
    <2> QED  BY <1>3, <2>1, <2>2, RowsStay
<1>7. RowStates'
    BY <1>3 DEF RowStates
<1>8. Batches'
    BY <1>3 DEF Batches, RelayTypes
<1>9. Claims'
    BY <1>3 DEF Claims, Holds
<1> QED
    BY <1>5, <1>6, <1>7, <1>8, <1>9

\* A row in the hands of a worker inside its claim is not claimable
LEMMA NotClaimableWhileHeld ==
    ASSUME RelayInv, NEW v \in Worker, NEW i \in DOMAIN batch[v],
           Claimable(batch[v][i].id)
    PROVE  lease[v] = 0
<1> DEFINE e == batch[v][i].id
<1>1. e \in Event /\ lease[v] \in Nat /\ row[e].lockLeft \in Nat
    BY EntriesTyped DEF RelayInv, RelayTypes, Row
<1>2. lease[v] > 0 => row[e].lockedBy = v /\ row[e].lockLeft >= lease[v]
    BY DEF RelayInv, Claims, Holds
<1>3. row[e].status # "processing" => row[e].lockedBy = None
    BY <1>1 DEF RelayInv, RowStates
<1>4. row[e].status # "processing" \/ row[e].lockLeft = 0
    BY DEF Claimable
<1> HIDE DEF e
<1> QED
    BY <1>1, <1>2, <1>3, <1>4, OutboxAssumption

\* The batch of a claim lists the rows it took, each once
LEMMA ClaimListsEachOnce ==
    ASSUME RelayInv, NEW w \in Worker
    PROVE  /\ Chosen(w) \subseteq window[w] /\ Chosen(w) \subseteq Event
           /\ InOrder(Chosen(w), Turns(w)) \in Seq(Chosen(w))
           /\ InOrder(Chosen(w), Turns(w)) = <<>> <=> Chosen(w) = {}
           /\ \A i, j \in DOMAIN InOrder(Chosen(w), Turns(w)) :
                InOrder(Chosen(w), Turns(w))[i] = InOrder(Chosen(w), Turns(w))[j] => i = j
<1> DEFINE S == Chosen(w)
           ids == InOrder(S, Turns(w))
<1>1. window[w] \subseteq Staged /\ Staged \subseteq Event
    BY DEF RelayInv, Rows, Staged
<1>2. S \subseteq window[w]
    BY DEF Chosen, FirstOf
<1>3. IsFiniteSet(window[w])
    BY <1>1, FS_Subset DEF RelayInv, Rows
<1>4. IsOrderOf(Turns(w), window[w])
    <2>1. /\ \A e \in window[w] : createdAt[e] \in Nat
          /\ \A e, f \in window[w] : createdAt[e] = createdAt[f] => e = f
        BY <1>1 DEF RelayInv, Rows
    <2> QED  BY <1>3, <2>1, TurnsAreAnOrder DEF Turns
<1>5. IsFiniteSet(S) /\ IsOrderOf(Turns(w), S)
    BY <1>2, <1>3, <1>4, FS_Subset, PartIsAnOrder
<1>6. Cardinality(S) \in Nat /\ (Cardinality(S) = 0 <=> S = {})
    BY <1>5, FS_CardinalityType, FS_EmptySet
<1>7. /\ ids \in [1..Cardinality(S) -> S]
      /\ \A i, j \in 1..Cardinality(S) : ids[i] = ids[j] => i = j
    BY <1>5, InOrderListsEachOnce
<1> HIDE DEF S, ids
<1>8. ids \in Seq(S) /\ DOMAIN ids = 1..Cardinality(S) /\ Len(ids) = Cardinality(S)
    BY <1>6, <1>7
<1>9. ids = <<>> <=> Len(ids) = 0
    BY <1>8
<1> QED
    BY <1>1, <1>2, <1>6, <1>7, <1>8, <1>9 DEF S, ids

LEMMA ClaimRowsKeeps ==
    ASSUME RelayInv, NEW w \in Worker, ClaimRows(w)
    PROVE  RelayInv'
<1> USE DEF RelayInv
<1> DEFINE chosen == Chosen(w)
           ids == InOrder(chosen, Turns(w))
           claim == [i \in DOMAIN ids |-> [id |-> ids[i], attempts |-> row[ids[i]].attempts]]
           lent == IF chosen = {} THEN 0 ELSE ClaimTtl
           label == IF chosen = {} THEN "idle" ELSE "delivering"
<1>1. /\ chosen \subseteq window[w] /\ chosen \subseteq Event
      /\ ids \in Seq(chosen)
      /\ ids = <<>> <=> chosen = {}
      /\ \A i, j \in DOMAIN ids : ids[i] = ids[j] => i = j
    BY ClaimListsEachOnce
<1>2. /\ pc[w] = "claiming"
      /\ row' = [e \in Event |-> IF e \in chosen
             THEN [row[e] EXCEPT !.status = "processing", !.lockedBy = w,
                                 !.lockLeft = ClaimTtl]
             ELSE row[e]]
      /\ batch' = [batch EXCEPT ![w] = claim]
      /\ lease' = [lease EXCEPT ![w] = lent]
      /\ pc' = [pc EXCEPT ![w] = label]
      /\ window' = [window EXCEPT ![w] = {}]
      /\ UNCHANGED <<createdAt, failures>>
    BY DEF ClaimRows
<1>3. \A e \in chosen : Claimable(e) /\ row[e].status # "absent"
    BY DEF Chosen, Claimable
<1> HIDE DEF chosen, ids
<1>4. lent \in Nat /\ label \in {"idle", "delivering"}
    BY OutboxAssumption
<1>5. \A e \in Event : row[e] \in Row
    BY DEF RelayTypes
<1>6. /\ \A e \in chosen : row'[e] = [row[e] EXCEPT !.status = "processing",
                                          !.lockedBy = w, !.lockLeft = ClaimTtl]
      /\ \A e \in Event \ chosen : row'[e] = row[e]
    BY <1>1, <1>2
<1>61. ASSUME NEW e \in chosen
       PROVE  /\ row'[e] \in Row
              /\ row'[e].status = "processing" /\ row'[e].lockedBy = w
              /\ row'[e].lockLeft = ClaimTtl
              /\ row'[e].retryLeft = row[e].retryLeft
              /\ row'[e].attempts = row[e].attempts
    <2>1. row[e] \in Row /\ "processing" \in Status /\ ClaimTtl \in Nat
        BY <1>1, <1>5, OutboxAssumption DEF Status
    <2>2. row'[e] = [row[e] EXCEPT !.status = "processing",
                                   !.lockedBy = w, !.lockLeft = ClaimTtl]
        BY <1>6
    <2> QED  BY <2>1, <2>2 DEF Row
<1>7. claim \in Seq(Claimed) /\ DOMAIN claim = DOMAIN ids
    <2>1. \A i \in DOMAIN ids : ids[i] \in chosen
        BY <1>1
    <2>2. \A i \in DOMAIN ids : claim[i] \in Claimed
        BY <1>1, <1>5, <2>1 DEF Claimed, Row
    <2> HIDE DEF claim
    <2>3. DOMAIN ids = 1..Len(ids) /\ Len(ids) \in Nat
        BY <1>1
    <2>4. DOMAIN claim = DOMAIN ids /\ claim = [i \in DOMAIN ids |-> claim[i]]
        BY DEF claim
    <2> QED  BY <2>2, <2>3, <2>4
<1>8. \A i \in DOMAIN claim :
        claim[i].id = ids[i] /\ ids[i] \in chosen /\ claim[i].attempts = row[ids[i]].attempts
    BY <1>1
<1>9. claim = <<>> <=> chosen = {}
    <2> HIDE DEF claim
    <2>1. ids = <<>> <=> DOMAIN ids = {}
        BY <1>1
    <2>2. claim = <<>> <=> DOMAIN claim = {}
        BY <1>7
    <2> QED  BY <1>1, <1>7, <2>1, <2>2
<1> HIDE DEF claim, lent, label
<1>10. RelayTypes'
    <2>1. row' \in [Event -> Row]
        <3>1. \A e \in Event : row'[e] \in Row
            BY <1>5, <1>6, <1>61
        <3> QED  BY <1>2, <3>1
    <2> QED  BY <1>2, <1>4, <1>7, <2>1 DEF RelayTypes
<1>11. Rows'
    <2>1. \A e \in Event : row'[e].status = "absent" <=> row[e].status = "absent"
        BY <1>3, <1>6, <1>61
    <2>2. Staged' = Staged
        BY <2>1 DEF Staged
    <2>3. window' \in [Worker -> SUBSET Staged]
        BY <1>2 DEF Rows
    <2> QED  BY <1>2, <2>2, <2>3, RowsStay
<1>12. RowStates'
    <2>1. \A e \in chosen : row[e].retryLeft = 0
        BY <1>1, <1>3 DEF RowStates, Claimable
    <2> SUFFICES ASSUME NEW e \in Event
                 PROVE  /\ row'[e].status # "pending" => row'[e].retryLeft = 0
                        /\ row'[e].status # "processing" =>
                              row'[e].lockedBy = None /\ row'[e].lockLeft = 0
        BY DEF RowStates
    <2>2. CASE e \in chosen
        BY <1>61, <2>1, <2>2
    <2>3. CASE e \notin chosen
        BY <1>6, <2>3 DEF RowStates
    <2> QED  BY <2>2, <2>3
<1>13. Batches'
    <2>1. label = "idle" <=> chosen = {}
        BY DEF label
    <2>2. chosen = {} => lent = 0
        BY DEF lent
    <2>3. \A i, j \in DOMAIN claim : claim[i].id = claim[j].id => i = j
        BY <1>1, <1>7, <1>8
    <2> QED  BY <1>2, <1>4, <1>9, <2>1, <2>2, <2>3 DEF Batches, RelayTypes
<1>14. Claims'
    <2> SUFFICES ASSUME NEW v \in Worker, NEW i \in DOMAIN batch'[v]
                 PROVE  Holds(v, batch[v][i])'
        BY DEF Claims
    <2>1. CASE v = w
        <3>1. batch'[v] = claim /\ lease'[v] = lent
            BY <1>2, <2>1 DEF RelayTypes
        <3>2. claim[i].id \in chosen /\ claim[i].attempts = row[claim[i].id].attempts
            BY <1>8, <3>1
        <3>3. /\ row'[claim[i].id].lockedBy = w /\ row'[claim[i].id].lockLeft = ClaimTtl
              /\ row'[claim[i].id].attempts = row[claim[i].id].attempts
            BY <1>61, <3>2
        <3>4. lent <= ClaimTtl
            BY OutboxAssumption DEF lent
        <3> QED  BY <2>1, <3>1, <3>2, <3>3, <3>4 DEF Holds
    <2>2. CASE v # w
        <3> DEFINE entry == batch[v][i]
        <3>1. batch'[v] = batch[v] /\ lease'[v] = lease[v] /\ i \in DOMAIN batch[v]
            BY <1>2, <2>2 DEF RelayTypes
        <3>2. entry.id \in Event /\ Holds(v, entry) /\ lease[v] \in Nat
            BY <3>1, EntriesTyped DEF Claims, RelayTypes
        <3>3. CASE entry.id \in chosen
            <4>1. lease[v] = 0
                BY <1>3, <3>1, <3>3, NotClaimableWhileHeld
            <4>2. row'[entry.id].lockedBy = w
                BY <1>61, <3>3
            <4> QED  BY <2>2, <3>1, <4>1, <4>2 DEF Holds
        <3>4. CASE entry.id \notin chosen
            <4>1. row'[entry.id] = row[entry.id]
                BY <1>6, <3>2, <3>4
            <4> QED  BY <3>1, <3>2, <4>1 DEF Holds
        <3> QED  BY <3>3, <3>4
    <2> QED  BY <2>1, <2>2
<1> QED
    BY <1>10, <1>11, <1>12, <1>13, <1>14

\* Only the place of a worker changes
LEMMA MoveKeeps ==
    ASSUME RelayInv, NEW w \in Worker, pc[w] \notin {"idle", "claiming"},
           NEW label \in {"delivering", "publishing", "failing"},
           pc' = [pc EXCEPT ![w] = label],
           failures' \in [Event -> 0..MaxAttempts],
           UNCHANGED <<createdAt, row, window, batch, lease>>
    PROVE  RelayInv'
<1> USE DEF RelayInv
<1>1. RelayTypes'
    BY DEF RelayTypes
<1>2. Rows'
    BY RowsStay DEF Rows, Staged
<1>3. RowStates'
    BY DEF RowStates
<1>4. Batches'
    BY DEF Batches, RelayTypes
<1>5. Claims'
    BY DEF Claims, Holds
<1> QED
    BY <1>1, <1>2, <1>3, <1>4, <1>5

\* The event a worker has in hand, and the failures it counts
LEMMA CurrentTyped ==
    ASSUME RelayInv, NEW w \in Worker, pc[w] \notin {"idle", "claiming"}
    PROVE  /\ Current(w) \in Event /\ batch[w] \in Seq(Claimed) /\ batch[w] # <<>>
           /\ 1 \in DOMAIN batch[w] /\ Head(batch[w]) = batch[w][1]
           /\ Head(batch[w]).attempts \in Nat
           /\ Current(w) = batch[w][1].id
<1>1. batch[w] \in Seq(Claimed) /\ batch[w] # <<>>
    BY DEF RelayInv, RelayTypes, Batches
<1>2. Head(batch[w]) \in Claimed /\ 1 \in DOMAIN batch[w] /\ Head(batch[w]) = batch[w][1]
    BY <1>1, BatchTail
<1> QED
    BY <1>1, <1>2 DEF Claimed, Current

LEMMA DeliverKeeps ==
    ASSUME RelayInv, NEW w \in Worker, DeliverReturns(w) \/ DeliverThrows(w)
    PROVE  RelayInv'
<1>1. CASE DeliverReturns(w)
    BY <1>1, MoveKeeps DEF DeliverReturns, RelayInv, RelayTypes
<1>2. CASE DeliverThrows(w)
    <2>1. Current(w) \in Event
        BY <1>2, CurrentTyped DEF DeliverThrows
    <2>2. failures[Current(w)] \in 0..MaxAttempts
        BY <2>1 DEF RelayInv, RelayTypes
    <2>3. Min({failures[Current(w)] + 1, MaxAttempts}) \in 0..MaxAttempts
        BY <2>2, MinOfTwo, OutboxAssumption
    <2>4. failures' \in [Event -> 0..MaxAttempts]
        BY <1>2, <2>3 DEF DeliverThrows, RelayInv, RelayTypes
    <2> QED  BY <1>2, <2>4, MoveKeeps DEF DeliverThrows
<1> QED
    BY <1>1, <1>2

\* A mark settles the head of the batch, whose row it changes only if the
\* worker still owns it, and the loop goes on
LEMMA MarkKeeps ==
    ASSUME RelayInv, NEW w \in Worker, pc[w] \notin {"idle", "claiming"},
           NextEvent(w), UNCHANGED <<createdAt, window, failures>>,
           NEW marked \in Row,
           marked.lockedBy = None, marked.lockLeft = 0,
           marked.status \notin {"absent", "processing"},
           marked.status = "pending" \/ marked.retryLeft = 0,
           \/ UNCHANGED row
           \/ Owned(Current(w), w) /\ row' = [row EXCEPT ![Current(w)] = marked]
    PROVE  RelayInv'
<1> USE DEF RelayInv
<1> DEFINE e == Current(w)
           left == Tail(batch[w])
<1>1. /\ e \in Event /\ e = batch[w][1].id /\ 1 \in DOMAIN batch[w]
      /\ left \in Seq(Claimed)
      /\ Len(batch[w]) = 1 <=> left = <<>>
      /\ \A i \in DOMAIN left :
            i \in Nat /\ i + 1 \in DOMAIN batch[w] /\ left[i] = batch[w][i + 1]
    BY CurrentTyped, BatchTail
<1>2. /\ batch' = [batch EXCEPT ![w] = left]
      /\ pc' = [pc EXCEPT ![w] = IF left = <<>> THEN "idle" ELSE "delivering"]
      /\ lease' = [lease EXCEPT ![w] = IF left = <<>> THEN 0 ELSE lease[w]]
    BY <1>1 DEF NextEvent, RelayTypes
<1>3. /\ \A f \in Event \ {e} : row'[f] = row[f]
      /\ \/ row'[e] = row[e]
         \/ row'[e] = marked /\ row[e].lockedBy = w
      /\ row' \in [Event -> Row]
    BY <1>1 DEF RelayTypes, Owned
<1> HIDE DEF e, left
<1>4. RelayTypes'
    BY <1>1, <1>2, <1>3 DEF RelayTypes
<1>5. Rows'
    <2>1. row[e].lockedBy = w => row[e].status = "processing"
        BY <1>1, OutboxAssumption DEF RowStates
    <2>2. \A f \in Event : row'[f].status = "absent" <=> row[f].status = "absent"
        BY <1>3, <2>1
    <2>3. Staged' = Staged
        BY <2>2 DEF Staged
    <2>4. window' \in [Worker -> SUBSET Staged]
        BY DEF Rows
    <2> QED  BY <2>3, <2>4, RowsStay
<1>6. RowStates'
    BY <1>1, <1>3 DEF RowStates
<1>7. \A i \in DOMAIN left : left[i].id # e
    <2> SUFFICES ASSUME NEW i \in DOMAIN left, left[i].id = e PROVE FALSE
        OBVIOUS
    <2>1. i + 1 = 1
        BY <1>1 DEF Batches
    <2> QED  BY <1>1, <2>1
<1>8. Batches'
    <2>1. \A i, j \in DOMAIN left : left[i].id = left[j].id => i = j
        <3> SUFFICES ASSUME NEW i \in DOMAIN left, NEW j \in DOMAIN left,
                            left[i].id = left[j].id
                     PROVE  i = j
            OBVIOUS
        <3>1. i + 1 = j + 1
            BY <1>1 DEF Batches
        <3> QED  BY <1>1, <3>1
    <2>2. pc'[w] = IF left = <<>> THEN "idle" ELSE "delivering"
        BY <1>2 DEF RelayTypes
    <2>3. batch'[w] = left /\ lease'[w] = IF left = <<>> THEN 0 ELSE lease[w]
        BY <1>2 DEF RelayTypes
    <2>4. \A v \in Worker \ {w} : pc'[v] = pc[v] /\ batch'[v] = batch[v] /\ lease'[v] = lease[v]
        BY <1>2 DEF RelayTypes
    <2> QED  BY <2>1, <2>2, <2>3, <2>4 DEF Batches
<1>9. Claims'
    <2> SUFFICES ASSUME NEW v \in Worker, NEW i \in DOMAIN batch'[v]
                 PROVE  Holds(v, batch[v][i])'
        BY DEF Claims
    <2>1. CASE v = w
        <3>1. batch'[v] = left /\ (lease'[v] = 0 \/ lease'[v] = lease[v])
            BY <1>2, <2>1 DEF RelayTypes
        <3>2. i + 1 \in DOMAIN batch[w] /\ left[i] = batch[w][i + 1]
            BY <1>1, <3>1
        <3>3. left[i].id \in Event \ {e} /\ Holds(w, left[i])
            BY <1>7, <3>1, <3>2, EntriesTyped DEF Claims
        <3> QED  BY <1>3, <2>1, <3>1, <3>3 DEF Holds
    <2>2. CASE v # w
        <3>1. batch'[v] = batch[v] /\ lease'[v] = lease[v] /\ i \in DOMAIN batch[v]
            BY <1>2, <2>2 DEF RelayTypes
        <3>2. batch[v][i].id \in Event /\ Holds(v, batch[v][i]) /\ lease[v] \in Nat
            BY <3>1, EntriesTyped DEF Claims, RelayTypes
        <3>3. CASE row'[e] = row[e]
            BY <1>3, <3>1, <3>2, <3>3 DEF Holds
        <3>4. CASE row'[e] = marked /\ row[e].lockedBy = w
            <4>1. CASE batch[v][i].id = e
                BY <2>2, <3>1, <3>2, <3>4, <4>1, OutboxAssumption DEF Holds
            <4>2. CASE batch[v][i].id # e
                BY <1>3, <3>1, <3>2, <4>2 DEF Holds
            <4> QED  BY <4>1, <4>2
        <3> QED  BY <1>3, <3>3, <3>4
    <2> QED  BY <2>1, <2>2
<1> QED
    BY <1>4, <1>5, <1>6, <1>8, <1>9

LEMMA CrashKeeps ==
    ASSUME RelayInv, NEW w \in Worker, Crash(w)
    PROVE  RelayInv'
<1> USE DEF RelayInv
<1>1. /\ pc' = [pc EXCEPT ![w] = "idle"]
      /\ window' = [window EXCEPT ![w] = {}]
      /\ batch' = [batch EXCEPT ![w] = <<>>]
      /\ lease' = [lease EXCEPT ![w] = 0]
      /\ UNCHANGED <<createdAt, row, failures>>
    BY DEF Crash
<1>2. RelayTypes'
    BY <1>1 DEF RelayTypes
<1>3. Rows'
    BY <1>1, RowsStay DEF Rows, Staged
<1>4. RowStates'
    BY <1>1 DEF RowStates
<1>5. Batches'
    BY <1>1 DEF Batches, RelayTypes
<1>6. Claims'
    <2> SUFFICES ASSUME NEW v \in Worker, NEW i \in DOMAIN batch'[v]
                 PROVE  Holds(v, batch[v][i])'
        BY DEF Claims
    <2>1. v # w
        BY <1>1 DEF RelayTypes
    <2>2. batch'[v] = batch[v] /\ lease'[v] = lease[v]
        BY <1>1, <2>1 DEF RelayTypes
    <2> QED  BY <1>1, <2>2 DEF Claims, Holds
<1> QED
    BY <1>2, <1>3, <1>4, <1>5, <1>6

LEMMA TickKeeps ==
    ASSUME RelayInv, Tick
    PROVE  RelayInv'
<1> USE DEF RelayInv
<1>1. /\ row' = [e \in Event |-> [row[e] EXCEPT !.retryLeft = Before(@),
                                                !.lockLeft = Before(@)]]
      /\ lease' = [w \in Worker |-> Before(lease[w])]
      /\ UNCHANGED <<createdAt, pc, window, batch, failures>>
    BY DEF Tick
<1>2. \A n \in Nat : Before(n) \in Nat
    BY DEF Before
<1>3. ASSUME NEW e \in Event
      PROVE  /\ row'[e] \in Row
             /\ row'[e].status = row[e].status /\ row'[e].lockedBy = row[e].lockedBy
             /\ row'[e].attempts = row[e].attempts
             /\ row'[e].retryLeft = Before(row[e].retryLeft)
             /\ row'[e].lockLeft = Before(row[e].lockLeft)
             /\ row[e].lockLeft \in Nat
    <2>1. row[e] \in Row
        BY DEF RelayTypes
    <2>2. row'[e] = [row[e] EXCEPT !.retryLeft = Before(row[e].retryLeft),
                                   !.lockLeft = Before(row[e].lockLeft)]
        BY <1>1, <2>1 DEF Row
    <2> QED  BY <1>2, <2>1, <2>2 DEF Row
<1>4. RelayTypes'
    BY <1>1, <1>2, <1>3 DEF RelayTypes
<1>5. Rows'
    <2>1. Staged' = Staged
        BY <1>3 DEF Staged
    <2> QED  BY <1>1, <2>1, RowsStay DEF Rows
<1>6. RowStates'
    BY <1>3 DEF RowStates, Before
<1>7. Batches'
    BY <1>1 DEF Batches, RelayTypes, Before
<1>8. Claims'
    <2> SUFFICES ASSUME NEW v \in Worker, NEW i \in DOMAIN batch[v]
                 PROVE  Holds(v, batch[v][i])'
        BY <1>1 DEF Claims
    <2>1. batch[v][i].id \in Event /\ Holds(v, batch[v][i]) /\ lease[v] \in Nat
        BY EntriesTyped DEF Claims, RelayTypes
    <2>2. lease'[v] = Before(lease[v])
        BY <1>1
    <2> DEFINE entry == batch[v][i]
    <2>3. batch'[v][i] = entry
        BY <1>1
    <2>4. /\ row'[entry.id].lockedBy = row[entry.id].lockedBy
          /\ row'[entry.id].attempts = row[entry.id].attempts
          /\ row'[entry.id].lockLeft = Before(row[entry.id].lockLeft)
          /\ row[entry.id].lockLeft \in Nat
        BY <1>3, <2>1
    <2> HIDE DEF entry
    <2>5. Holds(v, entry)
        BY <2>1 DEF entry
    <2>6. lease'[v] > 0 => row'[entry.id].lockedBy = v /\ row'[entry.id].lockLeft >= lease'[v]
        BY <2>1, <2>2, <2>4, <2>5 DEF Holds, Before
    <2> QED  BY <2>3, <2>4, <2>5, <2>6 DEF Holds
<1> QED
    BY <1>4, <1>5, <1>6, <1>7, <1>8

\* What each mark writes, if it writes
Published(e) == [row[e] EXCEPT !.status = "published", !.lockedBy = None, !.lockLeft = 0]
Failed(e, delay) ==
    [status |-> IF delay > 0 THEN "pending" ELSE "failed", attempts |-> row[e].attempts + 1,
     retryLeft |-> IF delay > 0 THEN delay ELSE 0, lockedBy |-> None, lockLeft |-> 0]

LEMMA DelayIsANumber ==
    ASSUME NEW attempts, NEW delay \in RetryAfter(attempts)
    PROVE  delay \in Int
BY DEF RetryAfter, Delays

LEMMA MarkPublishedKeeps ==
    ASSUME RelayInv, NEW w \in Worker, MarkPublished(w)
    PROVE  /\ RelayInv'
           /\ \/ UNCHANGED row
              \/ /\ Owned(Current(w), w)
                 /\ row' = [row EXCEPT ![Current(w)] = Published(Current(w))]
<1> DEFINE e == Current(w)
<1>1. pc[w] \notin {"idle", "claiming"} /\ NextEvent(w)
      /\ UNCHANGED <<createdAt, window, failures>>
    BY DEF MarkPublished
<1>2. e \in Event /\ row \in [Event -> Row] /\ row[e] \in Row
    BY <1>1, CurrentTyped DEF RelayInv, RelayTypes
<1>3. UNCHANGED row \/ (Owned(e, w) /\ row' = [row EXCEPT ![e] = Published(e)])
    BY <1>2 DEF MarkPublished, Published, Row
<1>4. CASE UNCHANGED row
    <2> DEFINE marked == [status |-> "published", attempts |-> 0, retryLeft |-> 0,
                          lockedBy |-> None, lockLeft |-> 0]
    <2>1. marked \in Row
        BY DEF Row, Status
    <2>2. /\ marked.lockedBy = None /\ marked.lockLeft = 0
          /\ marked.status \notin {"absent", "processing"} /\ marked.retryLeft = 0
        OBVIOUS
    <2> HIDE DEF marked
    <2> QED  BY <1>1, <1>4, <2>1, <2>2, MarkKeeps
<1>5. CASE Owned(e, w) /\ row' = [row EXCEPT ![e] = Published(e)]
    <2>1. row[e].status = "processing"
        BY <1>2, <1>5, OutboxAssumption DEF RelayInv, RowStates, Owned
    <2>2. row[e].retryLeft = 0
        BY <1>2, <2>1 DEF RelayInv, RowStates
    <2>3. /\ Published(e) \in Row
          /\ Published(e).lockedBy = None /\ Published(e).lockLeft = 0
          /\ Published(e).status \notin {"absent", "processing"}
          /\ Published(e).retryLeft = 0
        BY <1>2, <2>2 DEF Published, Row, Status
    <2> QED  BY <1>1, <1>5, <2>3, MarkKeeps
<1> QED
    BY <1>3, <1>4, <1>5

LEMMA MarkFailedKeeps ==
    ASSUME RelayInv, NEW w \in Worker, MarkFailed(w)
    PROVE  /\ RelayInv'
           /\ \E delay \in RetryAfter(Head(batch[w]).attempts) :
                \/ UNCHANGED row
                \/ /\ Owned(Current(w), w)
                   /\ row' = [row EXCEPT ![Current(w)] = Failed(Current(w), delay)]
<1> DEFINE e == Current(w)
<1>1. pc[w] \notin {"idle", "claiming"} /\ NextEvent(w)
      /\ UNCHANGED <<createdAt, window, failures>>
    BY DEF MarkFailed
<1>2. e \in Event /\ row \in [Event -> Row] /\ row[e] \in Row
    BY <1>1, CurrentTyped DEF RelayInv, RelayTypes
<1>3. PICK delay \in RetryAfter(Head(batch[w]).attempts) :
        UNCHANGED row \/ (Owned(e, w) /\ row' = [row EXCEPT ![e] = Failed(e, delay)])
    BY <1>2 DEF MarkFailed, Failed
<1>4. /\ Failed(e, delay) \in Row
      /\ Failed(e, delay).lockedBy = None /\ Failed(e, delay).lockLeft = 0
      /\ Failed(e, delay).status \notin {"absent", "processing"}
      /\ Failed(e, delay).status = "pending" \/ Failed(e, delay).retryLeft = 0
    <2>1. delay \in Int /\ row[e].attempts \in Nat
        BY <1>2, <1>3, DelayIsANumber DEF Row
    <2>2. CASE delay > 0
        BY <2>1, <2>2 DEF Failed, Row, Status
    <2>3. CASE ~(delay > 0)
        BY <2>1, <2>3 DEF Failed, Row, Status
    <2> QED  BY <2>2, <2>3
<1>5. RelayInv'
    BY <1>1, <1>3, <1>4, MarkKeeps
<1> QED
    BY <1>3, <1>5

LEMMA MarkThrowsKeeps ==
    ASSUME RelayInv, NEW w \in Worker, MarkThrows(w)
    PROVE  RelayInv'
<1> DEFINE marked == [status |-> "published", attempts |-> 0, retryLeft |-> 0,
                      lockedBy |-> None, lockLeft |-> 0]
<1>1. marked \in Row
    BY DEF Row, Status
<1>2. /\ marked.lockedBy = None /\ marked.lockLeft = 0
      /\ marked.status \notin {"absent", "processing"} /\ marked.retryLeft = 0
    OBVIOUS
<1> HIDE DEF marked
<1>3. pc[w] \notin {"idle", "claiming"} /\ NextEvent(w)
      /\ UNCHANGED <<createdAt, window, failures, row>>
    BY DEF MarkThrows
<1> QED
    BY <1>1, <1>2, <1>3, MarkKeeps

LEMMA RelayStep == RelayInv /\ [Next]_vars => RelayInv'
<1> SUFFICES ASSUME RelayInv, [Next]_vars PROVE RelayInv'
    OBVIOUS
<1>1. ASSUME NEW e \in Event, Stage(e) PROVE RelayInv'
    BY <1>1, StageKeeps
<1>2. ASSUME NEW w \in Worker, Work(w) PROVE RelayInv'
    <2>1. CASE SelectForUpdate(w) \/ FindCandidates(w)
        BY <2>1, OpenClaimKeeps
    <2>2. CASE ClaimRows(w)
        BY <2>2, ClaimRowsKeeps
    <2>3. CASE DeliverReturns(w) \/ DeliverThrows(w)
        BY <2>3, DeliverKeeps
    <2>4. CASE MarkPublished(w)
        BY <2>4, MarkPublishedKeeps
    <2>5. CASE MarkFailed(w)
        BY <2>5, MarkFailedKeeps
    <2>6. CASE MarkThrows(w)
        BY <2>6, MarkThrowsKeeps
    <2> QED  BY <1>2, <2>1, <2>2, <2>3, <2>4, <2>5, <2>6 DEF Work
<1>3. ASSUME NEW w \in Worker, Crash(w) PROVE RelayInv'
    BY <1>3, CrashKeeps
<1>4. CASE Tick
    BY <1>4, TickKeeps
<1>5. CASE UNCHANGED vars
    BY <1>5 DEF vars, RelayInv, RelayTypes, Rows, Staged, RowStates, Batches, Claims, Holds
<1> QED
    BY <1>1, <1>2, <1>3, <1>4, <1>5 DEF Next

LEMMA RelayHolds == Spec => []RelayInv
<1>1. Init => RelayInv
    BY RelayInit
<1>2. RelayInv /\ [Next]_vars => RelayInv'
    BY RelayStep
<1> QED
    BY <1>1, <1>2, PTL DEF Spec

-----------------------------------------------------------------------------

\* claimPending never hands an event to a second worker while the first is
\* inside its claim and has not settled the event, with row locks or without.
THEOREM OutboxClaimIsExclusive == Spec => []ClaimIsExclusive
<1>1. RelayInv => ClaimIsExclusive
    <2> SUFFICES ASSUME RelayInv, NEW v \in Worker, NEW w \in Worker,
                        v # w, lease[v] > 0, lease[w] > 0,
                        NEW i \in DOMAIN batch[v], NEW j \in DOMAIN batch[w],
                        batch[v][i].id = batch[w][j].id
                 PROVE  FALSE
        BY DEF ClaimIsExclusive, Ids
    <2>1. row[batch[v][i].id].lockedBy = v /\ row[batch[w][j].id].lockedBy = w
        BY DEF RelayInv, Claims, Holds
    <2> QED  BY <2>1
<1> QED
    BY <1>1, RelayHolds, PTL

\* A published or dead-lettered row is never claimed or marked again, also not
\* by a worker whose claim was taken over while it delivered.
THEOREM OutboxSettledIsFinal == Spec => SettledIsFinal
<1> DEFINE Final == \A e \in Event :
                row[e].status \in {"published", "failed"} => row'[e] = row[e]
<1>1. RelayInv /\ [Next]_vars => [Final]_vars
    <2> SUFFICES ASSUME RelayInv, Next,
                        NEW e \in Event, row[e].status \in {"published", "failed"}
                 PROVE  row'[e] = row[e]
        OBVIOUS
    <2>1. /\ row[e] \in Row /\ row \in [Event -> Row]
          /\ row[e].retryLeft = 0 /\ row[e].lockedBy = None /\ row[e].lockLeft = 0
        BY DEF RelayInv, RelayTypes, RowStates
    <2>2. \A w \in Worker : ~Owned(e, w)
        BY <2>1, OutboxAssumption DEF Owned
    <2>3. ASSUME NEW f \in Event, Stage(f) PROVE row'[e] = row[e]
        BY <2>1, <2>3 DEF Stage
    <2>4. ASSUME NEW w \in Worker, ClaimRows(w) PROVE row'[e] = row[e]
        <3>1. e \notin Chosen(w)
            BY DEF Chosen, Claimable
        <3> QED  BY <2>4, <3>1 DEF ClaimRows
    <2>5. ASSUME NEW w \in Worker, MarkPublished(w) PROVE row'[e] = row[e]
        BY <2>1, <2>2, <2>5, MarkPublishedKeeps
    <2>6. ASSUME NEW w \in Worker, MarkFailed(w) PROVE row'[e] = row[e]
        BY <2>1, <2>2, <2>6, MarkFailedKeeps
    <2>7. CASE Tick
        <3>1. row'[e] = [row[e] EXCEPT !.retryLeft = Before(row[e].retryLeft),
                                       !.lockLeft = Before(row[e].lockLeft)]
            BY <2>1, <2>7 DEF Tick, Row
        <3>2. Before(0) = 0
            BY DEF Before
        <3>3. row'[e] = [row[e] EXCEPT !.retryLeft = row[e].retryLeft,
                                       !.lockLeft = row[e].lockLeft]
            BY <2>1, <3>1, <3>2
        <3> QED  BY <2>1, <3>3 DEF Row
    <2>8. ASSUME NEW w \in Worker,
                 SelectForUpdate(w) \/ FindCandidates(w) \/ DeliverReturns(w)
                   \/ DeliverThrows(w) \/ MarkThrows(w) \/ Crash(w)
          PROVE  row'[e] = row[e]
        BY <2>8 DEF SelectForUpdate, FindCandidates, OpenClaim, DeliverReturns,
                    DeliverThrows, MarkThrows, Crash
    <2> QED  BY <2>3, <2>4, <2>5, <2>6, <2>7, <2>8 DEF Next, Work
<1>2. SettledIsFinal <=> [][Final]_vars
    BY DEF SettledIsFinal
<1> QED
    BY <1>1, <1>2, RelayHolds, PTL DEF Spec

-----------------------------------------------------------------------------
(* A claim serves the tenants of its candidates evenly.                    *)

\* What an order lists first comes with all that is before it
LEMMA FirstOfIsClosed ==
    ASSUME NEW S, IsFiniteSet(S), NEW order, IsOrderOf(order, S), NEW n \in Int,
           NEW x \in FirstOf(n, S, order), NEW y \in S, <<y, x>> \in order
    PROVE  y \in FirstOf(n, S, order)
<1> DEFINE Earlier(z) == {u \in S : <<u, z>> \in order}
<1>1. x \in S /\ Cardinality(Earlier(x)) < n
    BY DEF FirstOf, Place
<1>2. Earlier(y) \in SUBSET Earlier(x)
    BY <1>1 DEF IsOrderOf
<1>3. IsFiniteSet(Earlier(x))
    BY FS_Subset
<1> HIDE DEF Earlier
<1>4. /\ Cardinality(Earlier(y)) <= Cardinality(Earlier(x))
      /\ Cardinality(Earlier(y)) \in Nat /\ Cardinality(Earlier(x)) \in Nat
    BY <1>2, <1>3, FS_Subset, FS_CardinalityType
<1>5. Cardinality(Earlier(y)) < n
    BY <1>1, <1>4
<1> QED
    BY <1>5 DEF FirstOf, Place, Earlier

LEMMA OneMore ==
    ASSUME NEW S, IsFiniteSet(S), NEW x
    PROVE  IsFiniteSet(S \cup {x}) /\ Cardinality(S \cup {x}) <= Cardinality(S) + 1
<1>1. Cardinality(S) \in Nat
    BY FS_CardinalityType
<1> QED
    BY <1>1, FS_AddElement

\* A tenant with two rows fewer than another among the first has no row left:
\* its next row would have its turn before the last one of the other
LEMMA TurnsAreEven ==
    ASSUME NEW C, IsFiniteSet(C), NEW at, NEW owner, NEW bound \in Nat, NEW n \in Int,
           \A e \in C : at[e] \in 1..bound,
           \A e, f \in C : at[e] = at[f] => e = f,
           NEW s, NEW t,
           Cardinality({e \in FirstOf(n, C, TurnOrder(C, at, owner)) : owner[e] = s})
             > Cardinality({e \in FirstOf(n, C, TurnOrder(C, at, owner)) : owner[e] = t}) + 1
    PROVE  \A e \in C : owner[e] = t => e \in FirstOf(n, C, TurnOrder(C, at, owner))
<1> DEFINE order == TurnOrder(C, at, owner)
           first == FirstOf(n, C, order)
           of(u) == {e \in first : owner[e] = u}
           upTo(e) == {f \in {g \in C : owner[g] = owner[e]} : at[f] <= at[e]}
           left == {e \in C : owner[e] = t /\ e \notin first}
<1> SUFFICES ASSUME left # {} PROVE FALSE
    OBVIOUS
<1>1. IsOrderOf(order, C)
    <2>1. \A e \in C : at[e] \in Nat
        OBVIOUS
    <2> QED  BY <2>1, TurnsAreAnOrder
<1>2. /\ \A e \in C : IsFiniteSet(upTo(e)) /\ Cardinality(upTo(e)) \in Nat
      /\ \A u : IsFiniteSet(of(u)) /\ Cardinality(of(u)) \in Nat
    <2>1. \A T \in SUBSET C : IsFiniteSet(T) /\ Cardinality(T) \in Nat
        <3> TAKE T \in SUBSET C
        <3>1. IsFiniteSet(T)
            BY FS_Subset
        <3> QED  BY <3>1, FS_CardinalityType
    <2>2. \A e \in C : upTo(e) \in SUBSET C
        OBVIOUS
    <2>3. \A u : of(u) \in SUBSET C
        BY DEF FirstOf
    <2> HIDE DEF upTo, of
    <2> QED  BY <2>1, <2>2, <2>3
<1>3. PICK e \in left : \A f \in left : at[e] <= at[f]
    <2>1. \A f \in left : at[f] \in Nat
        OBVIOUS
    <2> HIDE DEF left
    <2> QED  BY <2>1, NatLeast
<1>4. Cardinality(upTo(e)) <= Cardinality(of(t)) + 1
    <2>1. upTo(e) \in SUBSET (of(t) \cup {e})
        BY <1>3
    <2> HIDE DEF upTo, of
    <2>2. IsFiniteSet(of(t) \cup {e}) /\ Cardinality(of(t) \cup {e}) <= Cardinality(of(t)) + 1
        <3>1. IsFiniteSet(of(t))
            BY <1>2
        <3> QED  BY <3>1, OneMore
    <2>3. Cardinality(upTo(e)) <= Cardinality(of(t) \cup {e})
        BY <2>1, <2>2, FS_Subset
    <2>4. Cardinality(of(t) \cup {e}) \in Nat /\ Cardinality(upTo(e)) \in Nat
        BY <1>2, <1>3, <2>2, FS_CardinalityType
    <2> QED  BY <1>2, <2>2, <2>3, <2>4
<1>5. PICK x \in of(s) : \A f \in of(s) : at[f] <= at[x]
    <2>1. of(s) # {}
        <3> SUFFICES ASSUME of(s) = {} PROVE FALSE
            OBVIOUS
        <3>1. Cardinality(of(s)) = 0
            BY FS_EmptySet
        <3>2. Cardinality(of(s)) > Cardinality(of(t)) + 1
            OBVIOUS
        <3> HIDE DEF of
        <3> QED  BY <1>2, <3>1, <3>2
    <2> DEFINE toBound == [f \in of(s) |-> bound - at[f]]
    <2>2. \A f \in of(s) : at[f] \in 1..bound
        BY DEF FirstOf
    <2>3. \A f \in of(s) : toBound[f] \in Nat
        BY <2>2
    <2>4. PICK x \in of(s) : \A f \in of(s) : toBound[x] <= toBound[f]
        <3> HIDE DEF toBound, of
        <3> QED  BY <2>1, <2>3, NatLeast
    <2>5. \A f \in of(s) : at[f] <= at[x]
        <3> HIDE DEF of
        <3> QED  BY <2>2, <2>4
    <2> QED  BY <2>5
<1>6. Cardinality(of(s)) <= Cardinality(upTo(x))
    <2>1. x \in C
        BY DEF FirstOf
    <2>2. of(s) \in SUBSET upTo(x)
        BY <1>5 DEF FirstOf
    <2> HIDE DEF upTo, of
    <2> QED  BY <1>2, <2>1, <2>2, FS_Subset
<1>7. e \in C /\ x \in C /\ x \in first /\ e \notin first
    BY <1>3, <1>5 DEF FirstOf
<1>8. Cardinality(upTo(e)) < Cardinality(upTo(x))
    <2>1. Cardinality(of(s)) > Cardinality(of(t)) + 1
        OBVIOUS
    <2> HIDE DEF upTo, of
    <2> QED  BY <1>2, <1>4, <1>6, <1>7, <2>1
<1>9. <<e, x>> \in order
    BY <1>7, <1>8 DEF TurnOrder
<1> QED
    BY <1>1, <1>7, <1>9, FirstOfIsClosed

\* Row locks keep the candidates of an open claim from everybody else, and no
\* time passes while a claim is open
RowLocks ==
    /\ \A w \in Worker : pc[w] # "claiming" => window[w] = {}
    /\ locking =>
        /\ \A w \in Worker : \A e \in window[w] : Claimable(e)
        /\ \A v, w \in Worker : v # w => window[v] \cap window[w] = {}

LEMMA RowLocksInit == Init => RowLocks
BY DEF Init, RowLocks

\* A step that opens no claim and writes no candidate of one
LEMMA RowLocksStay ==
    ASSUME RelayInv, RowLocks, UNCHANGED locking,
           \A w \in Worker : window'[w] = window[w] \/ window'[w] = {},
           \A w \in Worker : pc'[w] # "claiming" => pc[w] # "claiming" \/ window'[w] = {},
           locking => \A w \in Worker : \A e \in window'[w] : row'[e] = row[e]
    PROVE  RowLocks'
BY DEF RowLocks, Claimable

LEMMA RowLocksStep == RelayInv /\ RowLocks /\ [Next]_vars => RowLocks'
<1> SUFFICES ASSUME RelayInv, RowLocks, Next PROVE RowLocks'
    BY DEF vars, RowLocks, Claimable
<1>0. /\ UNCHANGED locking /\ pc \in [Worker -> {"idle", "claiming", "delivering",
                                                 "publishing", "failing"}]
      /\ window \in [Worker -> SUBSET Event]
      /\ row \in [Event -> Row]
    BY DEF Next, RelayInv, RelayTypes, Rows, Staged
<1>1. ASSUME NEW e \in Event, Stage(e) PROVE RowLocks'
    <2>1. \A w \in Worker : e \notin window[w]
        BY <1>1 DEF Stage, RelayInv, Rows, Staged
    <2>2. \A w \in Worker : \A f \in window[w] : row'[f] = row[f]
        BY <1>0, <1>1, <2>1 DEF Stage
    <2> QED  BY <1>0, <1>1, <2>2, RowLocksStay DEF Stage
<1>2. ASSUME NEW w \in Worker, SelectForUpdate(w) \/ FindCandidates(w) PROVE RowLocks'
    <2>1. PICK open : /\ OpenClaim(w, open)
                      /\ locking => /\ \A e \in open : Claimable(e)
                                    /\ open \cap LockedByOthers(w) = {}
        BY <1>2 DEF SelectForUpdate, FindCandidates
    <2>2. /\ pc' = [pc EXCEPT ![w] = "claiming"] /\ UNCHANGED row
          /\ window' = [window EXCEPT ![w] = FirstOf(FetchLimit, open, Older)]
          /\ FirstOf(FetchLimit, open, Older) \subseteq open
        BY <2>1 DEF OpenClaim, FirstOf
    <2>3. \A v \in Worker : pc'[v] # "claiming" => window'[v] = {}
        BY <1>0, <2>2 DEF RowLocks
    <2>4. locking => \A v \in Worker : \A e \in window'[v] : Claimable(e)
        BY <1>0, <2>1, <2>2 DEF RowLocks
    <2>5. locking => \A v \in Worker \ {w} : window'[v] \cap window'[w] = {}
        BY <1>0, <2>1, <2>2 DEF LockedByOthers
    <2>6. locking => \A u, v \in Worker : u # v => window'[u] \cap window'[v] = {}
        BY <1>0, <2>2, <2>5 DEF RowLocks
    <2> QED  BY <1>0, <2>2, <2>3, <2>4, <2>6 DEF RowLocks, Claimable
<1>3. ASSUME NEW w \in Worker, ClaimRows(w) PROVE RowLocks'
    <2>1. Chosen(w) \subseteq window[w]
        BY DEF Chosen, FirstOf
    <2>2. /\ \A e \in Event \ Chosen(w) : row'[e] = row[e]
          /\ window' = [window EXCEPT ![w] = {}]
          /\ \A v \in Worker \ {w} : pc'[v] = pc[v]
        BY <1>0, <1>3 DEF ClaimRows
    <2>3. locking => \A v \in Worker : \A e \in window'[v] : row'[e] = row[e]
        BY <1>0, <2>1, <2>2 DEF RowLocks
    <2> QED  BY <1>0, <2>2, <2>3, RowLocksStay
<1>4. ASSUME NEW w \in Worker, MarkPublished(w) \/ MarkFailed(w) PROVE RowLocks'
    <2>1. /\ pc[w] # "claiming" /\ Current(w) \notin LockedByOthers(w)
          /\ UNCHANGED window /\ Current(w) \in Event
          /\ \A v \in Worker : pc'[v] # "claiming" => pc[v] # "claiming"
        BY <1>0, <1>4, CurrentTyped DEF MarkPublished, MarkFailed, NextEvent
    <2>2. \A e \in Event \ {Current(w)} : row'[e] = row[e]
        <3>1. CASE MarkPublished(w)
            BY <1>0, <3>1, MarkPublishedKeeps
        <3>2. CASE MarkFailed(w)
            BY <1>0, <3>2, MarkFailedKeeps
        <3> QED  BY <1>4, <3>1, <3>2
    <2>3. window[w] = {}
        BY <2>1 DEF RowLocks
    <2>4. locking => \A v \in Worker : Current(w) \notin window[v]
        BY <2>1, <2>3 DEF LockedByOthers
    <2>5. locking => \A v \in Worker : \A e \in window'[v] : row'[e] = row[e]
        BY <1>0, <2>1, <2>2, <2>4
    <2> QED  BY <1>0, <2>1, <2>5, RowLocksStay
<1>5. ASSUME NEW w \in Worker, DeliverReturns(w) \/ DeliverThrows(w) \/ MarkThrows(w)
      PROVE  RowLocks'
    <2>1. /\ UNCHANGED <<window, row>>
          /\ \A v \in Worker : pc'[v] # "claiming" => pc[v] # "claiming"
        BY <1>0, <1>5 DEF DeliverReturns, DeliverThrows, MarkThrows, NextEvent
    <2> QED  BY <1>0, <2>1, RowLocksStay
<1>6. ASSUME NEW w \in Worker, Crash(w) PROVE RowLocks'
    <2>1. /\ window' = [window EXCEPT ![w] = {}] /\ UNCHANGED row
          /\ pc' = [pc EXCEPT ![w] = "idle"]
        BY <1>6 DEF Crash
    <2> QED  BY <1>0, <2>1, RowLocksStay
<1>7. CASE Tick
    <2>1. UNCHANGED <<pc, window>> /\ \A w \in Worker : window[w] = {}
        BY <1>7 DEF Tick, RowLocks
    <2> QED  BY <1>0, <2>1, RowLocksStay
<1> QED
    BY <1>1, <1>2, <1>3, <1>4, <1>5, <1>6, <1>7 DEF Next, Work

\* The batch of a claim is all it chose
LEMMA BatchIsChosen ==
    ASSUME RelayInv, NEW w \in Worker, ClaimRows(w)
    PROVE  Ids(batch'[w]) = Chosen(w)
<1> DEFINE S == Chosen(w)
           ids == InOrder(S, Turns(w))
<1>1. window[w] \subseteq Staged /\ Staged \subseteq Event /\ S \subseteq window[w]
    BY DEF RelayInv, Rows, Staged, Chosen, FirstOf
<1>2. IsFiniteSet(window[w])
    BY <1>1, FS_Subset DEF RelayInv, Rows
<1>3. IsOrderOf(Turns(w), window[w])
    <2>1. /\ \A e \in window[w] : createdAt[e] \in Nat
          /\ \A e, f \in window[w] : createdAt[e] = createdAt[f] => e = f
        BY <1>1 DEF RelayInv, Rows
    <2> QED  BY <1>2, <2>1, TurnsAreAnOrder DEF Turns
<1>4. IsFiniteSet(S) /\ IsOrderOf(Turns(w), S)
    BY <1>1, <1>2, <1>3, FS_Subset, PartIsAnOrder
<1>5. ids \in [1..Cardinality(S) -> S]
    BY <1>4, InOrderListsEachOnce
<1>6. batch'[w] = [i \in DOMAIN ids |-> [id |-> ids[i], attempts |-> row[ids[i]].attempts]]
    BY DEF ClaimRows, RelayInv, RelayTypes
<1>7. ASSUME NEW e \in S PROVE \E i \in 1..Cardinality(S) : ids[i] = e
    <2> DEFINE place == Place(e, S, Turns(w))
    <2>1. place \in 0..(Cardinality(S) - 1) /\ Cardinality(S) \in Nat
        BY <1>4, PlacesBounded, FS_CardinalityType
    <2>2. place + 1 \in 1..Cardinality(S)
        BY <2>1
    <2>3. ids[place + 1] = CHOOSE x \in S : Place(x, S, Turns(w)) = (place + 1) - 1
        BY <2>2 DEF InOrder
    <2>4. \A x \in S : Place(x, S, Turns(w)) = (place + 1) - 1 <=> x = e
        <3>1. (place + 1) - 1 = place
            BY <2>1
        <3>2. \A x \in S : x # e => Place(x, S, Turns(w)) # place
            BY <1>4, PlacesDiffer DEF IsOrderOf
        <3> QED  BY <3>1, <3>2
    <2> HIDE DEF place, S
    <2>5. ids[place + 1] = e
        BY <2>3, <2>4
    <2> QED  BY <2>2, <2>5
<1> HIDE DEF ids
<1>8. Ids(batch'[w]) = {ids[i] : i \in DOMAIN ids}
    BY <1>6 DEF Ids
<1> QED
    BY <1>5, <1>7, <1>8

\* A claim of candidates of many tenants takes as many of each, give or take
\* one, as long as there are any: the share of no tenant is given to another,
\* and only another claim of the same rows can spoil it, where none are locked.
THEOREM OutboxClaimServesTenantsEvenly == Spec => ClaimServesTenantsEvenly
<1> DEFINE Even == \A w \in Worker : pc[w] = "claiming" /\ pc'[w] = "delivering" =>
                \A s, t \in Tenant :
                    Served(batch'[w], s) > Served(batch'[w], t) + 1 =>
                        LET candidates == {e \in window[w] : TenantOf[e] = t}
                        IN  \/ candidates \subseteq Ids(batch'[w])
                            \/ ~locking /\ \E e \in candidates : ~Claimable(e)
<1>1. RelayInv /\ RowLocks /\ [Next]_vars => [Even]_vars
    <2> SUFFICES ASSUME RelayInv, RowLocks, Next, NEW w \in Worker,
                        pc[w] = "claiming", pc'[w] = "delivering",
                        NEW s \in Tenant, NEW t \in Tenant,
                        Served(batch'[w], s) > Served(batch'[w], t) + 1,
                        \A e \in window[w] : TenantOf[e] = t => Claimable(e)
                 PROVE  \A e \in window[w] : TenantOf[e] = t => e \in Ids(batch'[w])
        BY DEF RowLocks
    <2>1. ClaimRows(w)
        <3>1. pc \in [Worker -> {"idle", "claiming", "delivering", "publishing", "failing"}]
            BY DEF RelayInv, RelayTypes
        <3>2. CASE \E v \in Worker : SelectForUpdate(v) \/ FindCandidates(v)
            BY <3>1, <3>2 DEF SelectForUpdate, FindCandidates, OpenClaim
        <3>3. CASE \E v \in Worker : ClaimRows(v)
            BY <3>1, <3>3 DEF ClaimRows
        <3>4. CASE \E v \in Worker : DeliverReturns(v) \/ DeliverThrows(v) \/ Crash(v)
            BY <3>1, <3>4 DEF DeliverReturns, DeliverThrows, Crash
        <3>5. CASE \E v \in Worker : MarkPublished(v) \/ MarkFailed(v) \/ MarkThrows(v)
            BY <3>1, <3>5 DEF MarkPublished, MarkFailed, MarkThrows, NextEvent
        <3>6. CASE (\E e \in Event : Stage(e)) \/ Tick
            BY <3>6 DEF Stage, Tick
        <3> QED  BY <3>2, <3>3, <3>4, <3>5, <3>6 DEF Next, Work
    <2> DEFINE first == FirstOf(Limit, window[w], TurnOrder(window[w], createdAt, TenantOf))
               ofFirst(u) == {e \in first : TenantOf[e] = u}
               ofChosen(u) == {e \in Chosen(w) : TenantOf[e] = u}
    <2>2. Ids(batch'[w]) = Chosen(w)
        BY <2>1, BatchIsChosen
    <2>3. /\ first \subseteq window[w] /\ Chosen(w) \subseteq first
          /\ \A e \in first : Claimable(e) => e \in Chosen(w)
        BY DEF Chosen, Turns, FirstOf
    <2>4. /\ IsFiniteSet(window[w]) /\ Cardinality(Staged) \in Nat
          /\ \A e \in window[w] : createdAt[e] \in 1..Cardinality(Staged)
          /\ \A e, f \in window[w] : createdAt[e] = createdAt[f] => e = f
        BY FS_Subset, FS_CardinalityType DEF RelayInv, Rows
    <2>5. Cardinality(ofChosen(s)) > Cardinality(ofChosen(t)) + 1
        BY <2>2 DEF Served
    <2>6. ofChosen(t) = ofFirst(t) /\ ofChosen(s) \in SUBSET ofFirst(s)
        BY <2>3
    <2>7. ofFirst(s) \in SUBSET window[w] /\ ofChosen(t) \in SUBSET window[w]
        BY <2>3
    <2>8. Cardinality(ofFirst(s)) > Cardinality(ofFirst(t)) + 1
        <3> HIDE DEF ofFirst, ofChosen
        <3>1. IsFiniteSet(ofFirst(s)) /\ IsFiniteSet(ofChosen(t))
            BY <2>4, <2>7, FS_Subset
        <3>2. /\ Cardinality(ofChosen(s)) <= Cardinality(ofFirst(s))
              /\ IsFiniteSet(ofChosen(s))
            BY <2>6, <3>1, FS_Subset
        <3>3. /\ Cardinality(ofChosen(s)) \in Nat /\ Cardinality(ofFirst(s)) \in Nat
              /\ Cardinality(ofChosen(t)) \in Nat
            BY <3>1, <3>2, FS_CardinalityType
        <3> QED  BY <2>5, <2>6, <3>2, <3>3
    <2>9. \A e \in window[w] : TenantOf[e] = t => e \in first
        <3>1. Limit \in Int
            BY OutboxAssumption
        <3> HIDE DEF ofChosen
        <3> QED  BY <2>4, <2>8, <3>1, TurnsAreEven
    <2> QED  BY <2>2, <2>3, <2>9
<1>2. ClaimServesTenantsEvenly <=> [][Even]_vars
    BY DEF ClaimServesTenantsEvenly
<1>3. Spec => []RowLocks
    BY RowLocksInit, RowLocksStep, RelayHolds, PTL DEF Spec
<1> QED
    BY <1>1, <1>2, <1>3, RelayHolds, PTL DEF Spec

-----------------------------------------------------------------------------
(* A row counts no more attempts than deliveries of it failed.             *)

LEMMA FailuresInit == Init => FailuresCounted
<1> SUFFICES ASSUME Init PROVE FailuresCounted
    OBVIOUS
<1> QED
    BY OutboxAssumption DEF Init, FailuresCounted, Earned, NoRow

\* More failures never make an attempt less earned
LEMMA EarnedStays ==
    ASSUME RelayTypes, RelayTypes', NEW e \in Event, NEW n \in Nat, Earned(e, n),
           failures'[e] >= failures[e]
    PROVE  Earned(e, n)'
BY OutboxAssumption DEF Earned, RelayTypes

\* A step that fails no delivery, and marks no row failed
LEMMA CountsStay ==
    ASSUME RelayInv, RelayInv', FailuresCounted, UNCHANGED failures,
           \A e \in Event : row'[e].attempts = row[e].attempts,
           \A e \in Event : row'[e].status = "failed" => row[e].status = "failed",
           \A w \in Worker : pc'[w] = "failing" =>
                /\ pc[w] = "failing" /\ Current(w)' = Current(w)
                /\ row'[Current(w)].lockedBy = w => row[Current(w)].lockedBy = w
    PROVE  FailuresCounted'
<1>1. ASSUME NEW w \in Worker, pc'[w] = "failing", row'[Current(w)'].lockedBy = w
      PROVE  Earned(Current(w), row[Current(w)].attempts + 1)'
    <2>1. pc[w] = "failing" /\ Current(w)' = Current(w) /\ row[Current(w)].lockedBy = w
        BY <1>1
    <2>2. Current(w) \in Event
        BY <2>1, CurrentTyped
    <2>3. Earned(Current(w), row[Current(w)].attempts + 1)
        BY <2>1 DEF FailuresCounted
    <2> QED  BY <2>1, <2>2, <2>3 DEF Earned
<1>2. \A e \in Event :
        Earned(e, row[e].attempts)' /\ (row'[e].status = "failed" => failures'[e] = MaxAttempts)
    BY DEF FailuresCounted, Earned
<1> QED
    BY <1>1, <1>2 DEF FailuresCounted

LEMMA DeliverThrowsCounts ==
    ASSUME RelayInv, RelayInv', FailuresCounted, NEW w \in Worker, DeliverThrows(w)
    PROVE  FailuresCounted'
<1> DEFINE e == Current(w)
<1>1. /\ pc' = [pc EXCEPT ![w] = "failing"]
      /\ failures' = [failures EXCEPT ![e] = Min({failures[e] + 1, MaxAttempts})]
      /\ UNCHANGED <<row, batch>>
    BY DEF DeliverThrows, RelayInv, RelayTypes
<1>2. /\ e \in Event /\ row[e].attempts \in Nat /\ failures[e] \in 0..MaxAttempts
      /\ \A f \in Event : failures[f] \in 0..MaxAttempts /\ row[f].attempts \in Nat
    BY CurrentTyped DEF DeliverThrows, RelayInv, RelayTypes, Row
<1>3. failures'[e] = IF failures[e] + 1 <= MaxAttempts THEN failures[e] + 1 ELSE MaxAttempts
    <2>1. failures'[e] = Min({failures[e] + 1, MaxAttempts})
        BY <1>1, <1>2 DEF RelayInv, RelayTypes
    <2> QED  BY <1>2, <2>1, MinOfTwo, OutboxAssumption
<1>4. \A f \in Event : failures'[f] >= failures[f] /\ failures'[f] \in 0..MaxAttempts
    BY <1>1, <1>2, <1>3, OutboxAssumption DEF RelayInv, RelayTypes
<1> USE OutboxAssumption
<1>5. ASSUME NEW f \in Event
      PROVE  /\ Earned(f, row[f].attempts)'
             /\ row'[f].status = "failed" => failures'[f] = MaxAttempts
    <2>1. /\ row'[f] = row[f] /\ row[f].attempts \in Nat
          /\ failures[f] \in 0..MaxAttempts /\ failures'[f] \in 0..MaxAttempts
          /\ failures'[f] >= failures[f]
        BY <1>1, <1>2, <1>4
    <2>2. /\ failures[f] >= row[f].attempts \/ failures[f] = MaxAttempts
          /\ row[f].status = "failed" => failures[f] = MaxAttempts
        BY DEF FailuresCounted, Earned
    <2>3. failures'[f] >= row'[f].attempts \/ failures'[f] = MaxAttempts
        BY <2>1, <2>2
    <2>4. row'[f].status = "failed" => failures'[f] = MaxAttempts
        BY <2>1, <2>2
    <2> QED  BY <2>3, <2>4 DEF Earned
<1>6. ASSUME NEW v \in Worker, pc'[v] = "failing", row'[Current(v)'].lockedBy = v
      PROVE  Earned(Current(v), row[Current(v)].attempts + 1)'
    <2>1. Current(v)' = Current(v) /\ UNCHANGED row
        BY <1>1 DEF Current
    <2>2. CASE v = w
        <3>1. Earned(e, row[e].attempts)
            BY <1>2 DEF FailuresCounted
        <3>2. failures'[e] >= row[e].attempts + 1 \/ failures'[e] = MaxAttempts
            BY <1>2, <1>3, <3>1, OutboxAssumption DEF Earned
        <3> QED  BY <2>1, <2>2, <3>2 DEF Earned
    <2>3. CASE v # w
        <3>1. pc[v] = "failing" /\ row[Current(v)].lockedBy = v
            BY <1>1, <1>6, <2>1, <2>3 DEF RelayInv, RelayTypes
        <3>2. Current(v) \in Event
            BY <3>1, CurrentTyped
        <3>3. Earned(Current(v), row[Current(v)].attempts + 1)
            BY <3>1 DEF FailuresCounted
        <3> QED  BY <1>2, <1>4, <2>1, <3>2, <3>3, OutboxAssumption DEF Earned
    <2> QED  BY <2>2, <2>3
<1> QED
    BY <1>5, <1>6 DEF FailuresCounted

\* markFailed counts an attempt that failed, and gives up only after the last
LEMMA MarkFailedCounts ==
    ASSUME RelayInv, RelayInv', FailuresCounted, RetriesLieAhead,
           NEW w \in Worker, MarkFailed(w)
    PROVE  FailuresCounted'
<1> DEFINE e == Current(w)
           n == Head(batch[w]).attempts
<1>1. /\ pc[w] = "failing" /\ NextEvent(w) /\ UNCHANGED failures
      /\ e \in Event /\ e = batch[w][1].id /\ 1 \in DOMAIN batch[w]
      /\ Head(batch[w]) = batch[w][1] /\ n \in Nat
      /\ row \in [Event -> Row] /\ row[e] \in Row
    BY CurrentTyped DEF MarkFailed, RelayInv, RelayTypes
<1>2. PICK delay \in RetryAfter(n) :
        UNCHANGED row \/ (Owned(e, w) /\ row' = [row EXCEPT ![e] = Failed(e, delay)])
    BY MarkFailedKeeps
<1>3. \A v \in Worker : pc'[v] = "failing" => v # w /\ pc[v] = "failing" /\ batch'[v] = batch[v]
    BY <1>1 DEF NextEvent, RelayInv, RelayTypes
<1>4. CASE UNCHANGED row
    <2>1. \A v \in Worker : pc'[v] = "failing" =>
                /\ pc[v] = "failing" /\ Current(v)' = Current(v)
                /\ row'[Current(v)].lockedBy = v => row[Current(v)].lockedBy = v
        BY <1>3, <1>4 DEF Current
    <2> QED  BY <1>1, <1>4, <2>1, CountsStay
<1>5. CASE Owned(e, w) /\ row' = [row EXCEPT ![e] = Failed(e, delay)]
    <2>1. row[e].lockedBy = w /\ row[e].attempts = n
        BY <1>1, <1>5 DEF Owned, RelayInv, Claims, Holds
    <2>2. failures[e] >= n + 1 \/ failures[e] = MaxAttempts
        BY <1>1, <2>1 DEF FailuresCounted, Earned
    <2>3. row'[e] = Failed(e, delay) /\ \A f \in Event \ {e} : row'[f] = row[f]
        BY <1>1, <1>5
    <2>4. row'[e].attempts = n + 1 /\ row'[e].lockedBy = None
        BY <2>1, <2>3 DEF Failed
    <2>5. row'[e].status = "failed" => failures[e] = MaxAttempts
        <3> SUFFICES ASSUME row'[e].status = "failed" PROVE failures[e] = MaxAttempts
            OBVIOUS
        <3>1. ~(delay > 0)
            BY <2>3 DEF Failed
        <3>2. n + 1 >= MaxAttempts
            <4> SUFFICES ASSUME n + 1 < MaxAttempts PROVE FALSE
                BY <1>1, OutboxAssumption
            <4>1. n + 1 \in 1..(MaxAttempts - 1)
                BY <1>1, OutboxAssumption
            <4>2. delay \in Delays(n + 1)
                BY <1>1, <1>2, OutboxAssumption DEF RetryAfter
            <4> QED  BY <3>1, <4>1, <4>2 DEF RetriesLieAhead
        <3>3. failures[e] \in 0..MaxAttempts
            BY <1>1 DEF RelayInv, RelayTypes
        <3> QED  BY <1>1, <2>2, <3>2, <3>3, OutboxAssumption
    <2>6. ASSUME NEW f \in Event
          PROVE  /\ Earned(f, row[f].attempts)'
                 /\ row'[f].status = "failed" => failures'[f] = MaxAttempts
        <3>1. CASE f = e
            BY <1>1, <2>2, <2>4, <2>5, <3>1 DEF Earned
        <3>2. CASE f # e
            BY <1>1, <2>3, <3>2 DEF FailuresCounted, Earned
        <3> QED  BY <3>1, <3>2
    <2>7. ASSUME NEW v \in Worker, pc'[v] = "failing", row'[Current(v)'].lockedBy = v
          PROVE  Earned(Current(v), row[Current(v)].attempts + 1)'
        <3>1. pc[v] = "failing" /\ Current(v)' = Current(v) /\ Current(v) \in Event
            BY <1>3, <2>7, CurrentTyped DEF Current
        <3>2. Current(v) # e
            BY <2>4, <2>7, <3>1, OutboxAssumption
        <3>3. row'[Current(v)] = row[Current(v)]
            BY <2>3, <3>1, <3>2
        <3>4. Earned(Current(v), row[Current(v)].attempts + 1)
            BY <2>7, <3>1, <3>3 DEF FailuresCounted
        <3> QED  BY <1>1, <3>1, <3>3, <3>4 DEF Earned
    <2> QED  BY <2>6, <2>7 DEF FailuresCounted
<1> QED
    BY <1>2, <1>4, <1>5

\* The other steps: a worker that fails goes on to fail the same event
LEMMA OthersCount ==
    ASSUME RelayInv, RelayInv', FailuresCounted,
           \/ \E e \in Event : Stage(e)
           \/ \E w \in Worker :
                \/ SelectForUpdate(w) \/ FindCandidates(w) \/ ClaimRows(w)
                \/ DeliverReturns(w) \/ MarkPublished(w) \/ MarkThrows(w) \/ Crash(w)
           \/ Tick
           \/ UNCHANGED vars
    PROVE  FailuresCounted'
<1> USE DEF RelayInv
<1>1. ASSUME NEW e \in Event, Stage(e) PROVE FailuresCounted'
    <2>1. /\ row' = [row EXCEPT ![e] = [row[e] EXCEPT !.status = "pending"]]
          /\ UNCHANGED <<pc, batch, failures>>
        BY <1>1 DEF Stage, RelayTypes
    <2>2. \A f \in Event : /\ row'[f].attempts = row[f].attempts
                           /\ row'[f].lockedBy = row[f].lockedBy
                           /\ row'[f].status = "failed" => row[f].status = "failed"
        BY <2>1 DEF RelayTypes, Row
    <2>3. \A w \in Worker : pc'[w] = "failing" =>
                /\ pc[w] = "failing" /\ Current(w)' = Current(w) /\ Current(w) \in Event
        BY <2>1, CurrentTyped DEF Current
    <2> QED  BY <2>1, <2>2, <2>3, CountsStay
<1>2. ASSUME NEW w \in Worker, ClaimRows(w) PROVE FailuresCounted'
    <2>1. /\ row' = [e \in Event |-> IF e \in Chosen(w)
             THEN [row[e] EXCEPT !.status = "processing", !.lockedBy = w,
                                 !.lockLeft = ClaimTtl]
             ELSE row[e]]
          /\ \A v \in Worker : pc'[v] = "failing" => v # w /\ pc[v] = "failing"
          /\ \A v \in Worker \ {w} : batch'[v] = batch[v]
          /\ UNCHANGED failures
        BY <1>2 DEF ClaimRows, RelayTypes
    <2>2. ASSUME NEW e \in Event
          PROVE  /\ row'[e].attempts = row[e].attempts
                 /\ row'[e].status = "failed" => row[e].status = "failed"
                 /\ row'[e].lockedBy = row[e].lockedBy \/ row'[e].lockedBy = w
        <3>1. row[e] \in Row
            BY DEF RelayTypes
        <3>2. CASE e \in Chosen(w)
            <4>1. row'[e] = [row[e] EXCEPT !.status = "processing", !.lockedBy = w,
                                           !.lockLeft = ClaimTtl]
                BY <2>1, <3>2
            <4> QED  BY <3>1, <4>1 DEF Row
        <3>3. CASE e \notin Chosen(w)
            BY <2>1, <3>3
        <3> QED  BY <3>2, <3>3
    <2>3. \A v \in Worker : pc'[v] = "failing" =>
                v # w /\ pc[v] = "failing" /\ Current(v)' = Current(v) /\ Current(v) \in Event
        BY <2>1, CurrentTyped DEF Current
    <2> QED  BY <2>1, <2>2, <2>3, CountsStay
<1>3. ASSUME NEW w \in Worker,
             SelectForUpdate(w) \/ FindCandidates(w) \/ DeliverReturns(w)
               \/ MarkThrows(w) \/ Crash(w)
      PROVE  FailuresCounted'
    <2>1. /\ UNCHANGED <<row, failures>>
          /\ \A v \in Worker : pc'[v] = "failing" => pc[v] = "failing" /\ batch'[v] = batch[v]
        BY <1>3 DEF SelectForUpdate, FindCandidates, OpenClaim, DeliverReturns,
                    MarkThrows, NextEvent, Crash, RelayTypes
    <2>2. \A v \in Worker : pc'[v] = "failing" => pc[v] = "failing" /\ Current(v)' = Current(v)
        BY <2>1 DEF Current
    <2> QED  BY <2>1, <2>2, CountsStay
<1>4. ASSUME NEW w \in Worker, MarkPublished(w) PROVE FailuresCounted'
    <2>1. /\ \/ UNCHANGED row
             \/ row' = [row EXCEPT ![Current(w)] = Published(Current(w))]
          /\ Current(w) \in Event /\ UNCHANGED failures
        BY <1>4, MarkPublishedKeeps, CurrentTyped DEF MarkPublished
    <2>2. \A f \in Event : /\ row'[f].attempts = row[f].attempts
                           /\ row'[f].status = "failed" => row[f].status = "failed"
                           /\ row'[f].lockedBy = row[f].lockedBy \/ row'[f].lockedBy = None
        <3>1. ASSUME NEW e \in Event
              PROVE  /\ Published(e).attempts = row[e].attempts
                     /\ Published(e).status = "published" /\ Published(e).lockedBy = None
            <4>1. row[e] \in Row
                BY DEF RelayTypes
            <4> QED  BY <4>1 DEF Published, Row
        <3>2. row \in [Event -> Row]
            BY DEF RelayTypes
        <3> QED  BY <2>1, <3>1, <3>2
    <2>3. \A v \in Worker : pc'[v] = "failing" => pc[v] = "failing" /\ batch'[v] = batch[v]
        BY <1>4 DEF MarkPublished, NextEvent, RelayTypes
    <2>4. \A v \in Worker : pc'[v] = "failing" =>
                pc[v] = "failing" /\ Current(v)' = Current(v) /\ Current(v) \in Event
        BY <2>3, CurrentTyped DEF Current
    <2> QED  BY <2>1, <2>2, <2>4, CountsStay, OutboxAssumption
<1>5. CASE Tick
    <2>1. /\ row' = [e \in Event |-> [row[e] EXCEPT !.retryLeft = Before(@),
                                                   !.lockLeft = Before(@)]]
          /\ UNCHANGED <<pc, batch, failures>>
        BY <1>5 DEF Tick
    <2>2. ASSUME NEW e \in Event
          PROVE  /\ row'[e].attempts = row[e].attempts
                 /\ row'[e].status = row[e].status
                 /\ row'[e].lockedBy = row[e].lockedBy
        BY <2>1 DEF RelayTypes, Row
    <2>3. \A v \in Worker : pc'[v] = "failing" =>
                pc[v] = "failing" /\ Current(v)' = Current(v) /\ Current(v) \in Event
        BY <2>1, CurrentTyped DEF Current
    <2> QED  BY <2>1, <2>2, <2>3, CountsStay
<1>6. CASE UNCHANGED vars
    BY <1>6 DEF vars, FailuresCounted, Earned, Current
<1> QED
    BY <1>1, <1>2, <1>3, <1>4, <1>5, <1>6

\* A row is dead-lettered only after maxAttempts deliveries of it threw,
\* whatever claims expired and whichever workers made the attempts, if no
\* retry delay is rounded to nothing.
THEOREM OutboxDeadLetterOnlyWhenExhausted ==
    ASSUME RetriesLieAhead
    PROVE  Spec => []DeadLetterOnlyWhenExhausted
<1>1. Init => FailuresCounted
    BY FailuresInit
<1>2. RelayInv /\ RelayInv' /\ FailuresCounted /\ [Next]_vars => FailuresCounted'
    <2> SUFFICES ASSUME RelayInv, RelayInv', FailuresCounted, [Next]_vars
                 PROVE  FailuresCounted'
        OBVIOUS
    <2> QED
        BY DeliverThrowsCounts, MarkFailedCounts, OthersCount DEF Next, Work
<1>3. FailuresCounted => DeadLetterOnlyWhenExhausted
    BY DEF FailuresCounted, DeadLetterOnlyWhenExhausted
<1> QED
    BY <1>1, <1>2, <1>3, RelayHolds, PTL DEF Spec

-----------------------------------------------------------------------------
(* Delivery to the merchants' endpoints.                                   *)

Delivery == [status : {"none", "delivered", "failed"}, attempts : Nat]

DeliveryTypes ==
    /\ enabled \subseteq Endpoint
    /\ everDisabled \subseteq Endpoint
    /\ recorded \in [Event -> [Endpoint -> Delivery]]
    /\ received \in [Event -> SUBSET Endpoint]
    /\ failedPosts \in [Event -> [Endpoint -> 0..MaxDeliveryAttempts]]
    /\ step \in [Worker -> {"start", "loading", "posting", "recording", "disabling"}]
    /\ todo \in [Worker -> SUBSET DOMAIN Endpoints]
    /\ prior \in [Worker -> [Endpoint -> Delivery]]
    /\ incomplete \in [Worker -> BOOLEAN]
    /\ posted \in [Worker -> BOOLEAN]

Settled(e, p) == p \in received[e] \/ p \in everDisabled

\* What a delivery row says of event e and endpoint p is so
Truthful(e, p, delivery) ==
    IF delivery.status = "delivered"
    THEN p \in received[e]
    ELSE delivery.attempts <= failedPosts[e][p]

\* What handle() knows of the event it has in hand, at each of its awaits
Handling(w) ==
    /\ step[w] # "start" =>
        /\ pc[w] = "delivering"
        /\ \A i \in DOMAIN Endpoints :
            i \in todo[w] \/ Settled(Current(w), Endpoints[i]) \/ incomplete[w]
    /\ step[w] \in {"posting", "recording", "disabling"} =>
        \A p \in Endpoint : Truthful(Current(w), p, prior[w][p])
    /\ step[w] = "recording" =>
        /\ todo[w] # {}
        /\ IF posted[w]
           THEN Facing(w) \in received[Current(w)]
           ELSE \/ failedPosts[Current(w)][Facing(w)] >= Attempts(w)
                \/ failedPosts[Current(w)][Facing(w)] = MaxDeliveryAttempts
    /\ step[w] = "disabling" =>
        /\ todo[w] # {}
        /\ failedPosts[Current(w)][Facing(w)] = MaxDeliveryAttempts
    /\ pc[w] = "publishing" => \A p \in Endpoint : Settled(Current(w), p)

Recorded ==
    /\ Endpoint \subseteq enabled \cup everDisabled
    /\ \A e \in Event, p \in Endpoint : Truthful(e, p, recorded[e][p])

DeliveryInv ==
    /\ DeliveryTypes
    /\ Recorded
    /\ \A w \in Worker : Handling(w)
    /\ PublishedReachedEndpoints
    /\ DisabledWasEarned

LEMMA DeliveryStepIsRelayStep == [DeliveryNext]_dvars => [Next]_vars
<1> SUFFICES ASSUME [DeliveryNext]_dvars PROVE [Next]_vars
    OBVIOUS
<1>1. CASE UNCHANGED dvars
    BY <1>1 DEF dvars
<1>2. ASSUME UNCHANGED locking, NEW w \in Worker, Handle(w) PROVE [Next]_vars
    <2>1. DeliverReturns(w) \/ DeliverThrows(w) \/ UNCHANGED vars
        BY <1>2 DEF Handle, ListEndpoints, LoadPrior, SkipDelivered, Post, Record,
                    Disable, EndHandle, StoreThrows
    <2> QED  BY <1>2, <2>1 DEF Next, Work
<1>3. ASSUME UNCHANGED locking, NEW w \in Worker, Relay(w) PROVE [Next]_vars
    BY <1>3 DEF Relay, Next, Work
<1>4. ASSUME UNCHANGED locking, NEW w \in Worker, Crash(w) PROVE [Next]_vars
    BY <1>4 DEF Next
<1>5. ASSUME NEW p \in Endpoint, EnableEndpoint(p) PROVE [Next]_vars
    BY <1>5 DEF EnableEndpoint
<1>6. ASSUME UNCHANGED locking, Tick \/ \E e \in Event : Stage(e) PROVE [Next]_vars
    BY <1>6 DEF Next
<1> QED
    BY <1>1, <1>2, <1>3, <1>4, <1>5, <1>6 DEF DeliveryNext

\* handle() is a deliver() callback as the relay expects it: the composition
\* takes no step that the outbox on its own could not take, so what is proved
\* of the outbox holds for webhook delivery.
THEOREM DeliveryImplementsOutbox == DeliverySpec => ImplementsOutbox
<1>1. DeliveryInit => Init
    BY DEF DeliveryInit
<1>2. [DeliveryNext]_dvars => [Next]_vars
    BY DeliveryStepIsRelayStep
<1> QED
    BY <1>1, <1>2, PTL DEF DeliverySpec, ImplementsOutbox, Spec

LEMMA DeliveryInitially == DeliveryInit => DeliveryInv
<1> SUFFICES ASSUME DeliveryInit PROVE DeliveryInv
    OBVIOUS
<1> USE DeliveryAssumption, OutboxAssumption DEF DeliveryInit
<1>1. NoDeliveries \in [Endpoint -> Delivery]
    BY DEF NoDeliveries, Delivery
<1>2. DeliveryTypes
    BY <1>1 DEF DeliveryTypes
<1>3. Recorded
    BY DEF Recorded, Truthful, NoDeliveries
<1>4. \A w \in Worker : Handling(w)
    BY DEF Handling, Init
<1>5. PublishedReachedEndpoints
    BY DEF PublishedReachedEndpoints, Init, NoRow
<1>6. DisabledWasEarned
    BY DEF DisabledWasEarned
<1> QED
    BY <1>2, <1>3, <1>4, <1>5, <1>6 DEF DeliveryInv

LEMMA MinIsAMember ==
    ASSUME NEW S \in SUBSET Nat, S # {}
    PROVE  Min(S) \in S
<1> DEFINE f == [x \in S |-> x]
<1>1. \A x \in S : f[x] = x
    OBVIOUS
<1>2. PICK x \in S : \A y \in S : f[x] <= f[y]
    <2>1. \A x \in S : f[x] \in Nat
        OBVIOUS
    <2> HIDE DEF f
    <2> QED  BY <2>1, NatLeast
<1>3. \A y \in S : x <= y
    BY <1>1, <1>2
<1> QED
    BY <1>3 DEF Min

\* The endpoint of a round is one of the list, and the round takes its place
LEMMA FacingTyped ==
    ASSUME DeliveryTypes, NEW w \in Worker, todo[w] # {}
    PROVE  /\ Min(todo[w]) \in todo[w] /\ Min(todo[w]) \in DOMAIN Endpoints
           /\ Facing(w) \in Endpoint
<1>1. todo[w] \subseteq DOMAIN Endpoints /\ DOMAIN Endpoints \subseteq Nat
    BY DeliveryAssumption DEF DeliveryTypes
<1>2. Min(todo[w]) \in todo[w]
    BY <1>1, MinIsAMember
<1> QED
    BY <1>1, <1>2 DEF Facing, Endpoint

\* What is known of an event is not lost by posts and switches of others
Grows ==
    /\ \A e \in Event : received[e] \subseteq received'[e]
    /\ everDisabled \subseteq everDisabled'
    /\ \A e \in Event, p \in Endpoint : failedPosts[e][p] <= failedPosts'[e][p]

LEMMA TruthStays ==
    ASSUME DeliveryTypes, DeliveryTypes', Grows, NEW e \in Event, NEW p \in Endpoint,
           NEW delivery \in Delivery, Truthful(e, p, delivery)
    PROVE  Truthful(e, p, delivery)'
<1>1. /\ delivery.attempts \in Nat
      /\ failedPosts[e][p] \in Nat /\ failedPosts'[e][p] \in Nat
      /\ failedPosts[e][p] <= failedPosts'[e][p]
      /\ received[e] \subseteq received'[e]
    BY DEF DeliveryTypes, Grows, Delivery
<1> QED
    BY <1>1 DEF Truthful

\* A worker whose own variables stay knows what it knew
LEMMA HandlingStays ==
    ASSUME RelayInv, DeliveryTypes, DeliveryTypes', Grows, NEW w \in Worker, Handling(w),
           pc'[w] = pc[w], batch'[w] = batch[w], step'[w] = step[w], todo'[w] = todo[w],
           prior'[w] = prior[w], incomplete'[w] = incomplete[w], posted'[w] = posted[w]
    PROVE  Handling(w)'
<1>0. PICK e : e = Current(w)
    OBVIOUS
<1>1. Current(w)' = e /\ Facing(w)' = Facing(w) /\ Attempts(w)' = Attempts(w)
    BY <1>0 DEF Current, Facing, Attempts
<1>2. CASE pc[w] \notin {"delivering", "publishing"}
    BY <1>2 DEF Handling
<1>3. CASE pc[w] \in {"delivering", "publishing"}
    <2>1. e \in Event
        BY <1>0, <1>3, CurrentTyped
    <2>2. \A p \in Endpoint : Settled(e, p) => Settled(e, p)'
        BY <2>1 DEF Settled, Grows
    <2>3. \A i \in DOMAIN Endpoints : Endpoints[i] \in Endpoint
        BY DEF Endpoint
    <2>4. \A p \in Endpoint : prior[w][p] \in Delivery
        BY DEF DeliveryTypes
    <2>5. \A p \in Endpoint : Truthful(e, p, prior[w][p]) => Truthful(e, p, prior[w][p])'
        BY <2>1, <2>4, TruthStays
    <2>6. todo[w] # {} =>
            /\ Facing(w) \in Endpoint /\ Attempts(w) \in Nat
            /\ failedPosts[e][Facing(w)] \in 0..MaxDeliveryAttempts
            /\ failedPosts'[e][Facing(w)] \in 0..MaxDeliveryAttempts
            /\ failedPosts[e][Facing(w)] <= failedPosts'[e][Facing(w)]
        BY <2>1, <2>4, FacingTyped DEF DeliveryTypes, Delivery, Attempts, Facing, Grows
    <2>7. received[e] \subseteq received'[e]
        BY <2>1 DEF Grows
    <2>8. step[w] # "start" => /\ pc[w] = "delivering"
                               /\ \A i \in DOMAIN Endpoints :
                                    i \in todo[w] \/ Settled(e, Endpoints[i])' \/ incomplete[w]
        BY <1>0, <2>2, <2>3 DEF Handling
    <2>9. step[w] \in {"posting", "recording", "disabling"} =>
            \A p \in Endpoint : Truthful(e, p, prior[w][p])'
        BY <1>0, <2>5 DEF Handling
    <2>10. step[w] = "recording" =>
            /\ todo[w] # {}
            /\ IF posted[w] THEN Facing(w) \in received'[e]
               ELSE \/ failedPosts'[e][Facing(w)] >= Attempts(w)
                    \/ failedPosts'[e][Facing(w)] = MaxDeliveryAttempts
        BY <1>0, <2>6, <2>7, DeliveryAssumption DEF Handling
    <2>11. step[w] = "disabling" =>
            todo[w] # {} /\ failedPosts'[e][Facing(w)] = MaxDeliveryAttempts
        BY <1>0, <2>6, DeliveryAssumption DEF Handling
    <2>12. pc[w] = "publishing" => \A p \in Endpoint : Settled(e, p)'
        BY <1>0, <2>2 DEF Handling
    <2> QED
        BY <1>1, <2>8, <2>9, <2>10, <2>11, <2>12 DEF Handling
<1> QED
    BY <1>2, <1>3 DEF RelayInv, RelayTypes

\* What was published has reached its endpoints still, what is has reached them
LEMMA PromisesStay ==
    ASSUME DeliveryInv, DeliveryTypes', Grows, Recorded',
           \A e \in Event : row'[e].status = "published" =>
                row[e].status = "published" \/ \A p \in Endpoint : Settled(e, p),
           \A p \in everDisabled' \ everDisabled :
                \E e \in Event : failedPosts'[e][p] = MaxDeliveryAttempts,
           \A v \in Worker : Handling(v)'
    PROVE  DeliveryInv'
<1>1. PublishedReachedEndpoints'
    BY DEF DeliveryInv, PublishedReachedEndpoints, Settled, Grows
<1>2. DisabledWasEarned'
    <2> SUFFICES ASSUME NEW p \in everDisabled
                 PROVE  \E e \in Event : failedPosts'[e][p] = MaxDeliveryAttempts
        BY DEF DisabledWasEarned
    <2>1. PICK e \in Event : failedPosts[e][p] = MaxDeliveryAttempts
        BY DEF DeliveryInv, DisabledWasEarned
    <2>2. p \in Endpoint
        BY DEF DeliveryInv, DeliveryTypes
    <2>3. failedPosts'[e][p] \in 0..MaxDeliveryAttempts
        BY <2>2 DEF DeliveryTypes
    <2>4. failedPosts[e][p] <= failedPosts'[e][p]
        BY <2>2 DEF Grows
    <2> QED  BY <2>1, <2>3, <2>4, DeliveryAssumption
<1> QED
    BY <1>1, <1>2 DEF DeliveryInv

Idles(v) ==
    /\ pc'[v] = pc[v] /\ batch'[v] = batch[v] /\ step'[v] = step[v]
    /\ todo'[v] = todo[v] /\ prior'[v] = prior[v]
    /\ incomplete'[v] = incomplete[v] /\ posted'[v] = posted[v]

\* Worker w takes a step of handle(), the others do nothing
LEMMA StepKeeps ==
    ASSUME RelayInv, DeliveryInv, DeliveryTypes', Grows, Recorded', UNCHANGED row,
           \A p \in everDisabled' \ everDisabled :
                \E e \in Event : failedPosts'[e][p] = MaxDeliveryAttempts,
           NEW w \in Worker, Handling(w)',
           \A v \in Worker \ {w} : Idles(v)
    PROVE  DeliveryInv'
<1>1. \A v \in Worker \ {w} : Handling(v)'
    BY HandlingStays DEF DeliveryInv, Idles
<1> QED
    BY <1>1, PromisesStay

\* A step that touches none of the records loses nothing
LEMMA RecordsStay ==
    ASSUME DeliveryInv, UNCHANGED <<recorded, received, failedPosts, enabled, everDisabled>>
    PROVE  Grows /\ Recorded'
BY DEF DeliveryInv, DeliveryTypes, Grows, Recorded, Truthful

LEMMA ListEndpointsKeeps ==
    ASSUME RelayInv, DeliveryInv, NEW w \in Worker, ListEndpoints(w)
    PROVE  DeliveryInv'
<1> USE DEF DeliveryInv
<1> DEFINE found == {i \in DOMAIN Endpoints : Endpoints[i] \in enabled}
<1>0. PICK e : e = Current(w)
    OBVIOUS
<1>1. /\ pc[w] = "delivering" /\ step[w] = "start"
      /\ UNCHANGED <<enabled, everDisabled, recorded, received, failedPosts, row, batch,
                     prior, incomplete, posted>>
    BY DEF ListEndpoints, At, DeliverReturns, deliveryVars, handleVars, vars
<1>2. Grows /\ Recorded'
    BY <1>1, RecordsStay
<1>3. Current(w)' = e /\ \A p : Settled(e, p)' <=> Settled(e, p)
    BY <1>0, <1>1 DEF Current, Settled
<1>4. \A p \in Endpoint : p \in enabled \/ Settled(e, p)
    BY DEF Recorded, Settled
<1>5. CASE found = {}
    <2>1. DeliverReturns(w) /\ UNCHANGED handleVars
        BY <1>5 DEF ListEndpoints
    <2>2. /\ pc' = [pc EXCEPT ![w] = "publishing"]
          /\ UNCHANGED <<step, todo, prior, incomplete, posted>>
        BY <2>1 DEF DeliverReturns, handleVars
    <2>3. DeliveryTypes'
        BY <1>1, <2>2 DEF DeliveryTypes
    <2>4. \A p \in Endpoint : Settled(e, p)
        BY <1>4, <1>5 DEF Endpoint
    <2>5. Handling(w)'
        BY <1>1, <1>3, <2>2, <2>4 DEF Handling, RelayInv, RelayTypes
    <2>6. \A v \in Worker \ {w} : Idles(v)
        BY <1>1, <2>2 DEF Idles, RelayInv, RelayTypes
    <2> HIDE DEF DeliveryInv
    <2> QED  BY <1>1, <1>2, <2>2, <2>3, <2>5, <2>6, StepKeeps
<1>6. CASE found # {}
    <2>1. /\ todo' = [todo EXCEPT ![w] = found]
          /\ step' = [step EXCEPT ![w] = "loading"]
          /\ UNCHANGED pc
        BY <1>6 DEF ListEndpoints, Goto, vars
    <2>2. DeliveryTypes'
        BY <1>1, <2>1 DEF DeliveryTypes
    <2>3. \A i \in DOMAIN Endpoints : i \in found \/ Settled(e, Endpoints[i])
        BY <1>4 DEF Endpoint
    <2> HIDE DEF found
    <2>4. todo'[w] = found /\ step'[w] = "loading" /\ pc'[w] = "delivering"
        BY <1>1, <2>1 DEF DeliveryTypes
    <2>5. Handling(w)'
        BY <1>3, <2>3, <2>4 DEF Handling
    <2>6. \A v \in Worker \ {w} : Idles(v)
        BY <1>1, <2>1 DEF Idles, DeliveryTypes
    <2> HIDE DEF DeliveryInv
    <2> QED  BY <1>1, <1>2, <2>1, <2>2, <2>5, <2>6, StepKeeps
<1> QED
    BY <1>5, <1>6

LEMMA LoadPriorKeeps ==
    ASSUME RelayInv, DeliveryInv, NEW w \in Worker, LoadPrior(w)
    PROVE  DeliveryInv'
<1> USE DEF DeliveryInv
<1>0. PICK e : e = Current(w)
    OBVIOUS
<1>1. /\ pc[w] = "delivering" /\ step[w] = "loading"
      /\ prior' = [prior EXCEPT ![w] = recorded[e]]
      /\ step' = [step EXCEPT ![w] = "posting"]
      /\ UNCHANGED <<enabled, everDisabled, recorded, received, failedPosts, row, pc, batch,
                     todo, incomplete, posted>>
    BY <1>0 DEF LoadPrior, At, Goto, deliveryVars, vars
<1>2. Grows /\ Recorded'
    BY <1>1, RecordsStay
<1>3. e \in Event /\ Current(w)' = e
    BY <1>0, <1>1, CurrentTyped DEF Current
<1>4. DeliveryTypes'
    BY <1>1, <1>3 DEF DeliveryTypes
<1>5. Handling(w)'
    <2>1. step'[w] = "posting" /\ prior'[w] = recorded[e]
        BY <1>1 DEF DeliveryTypes
    <2>2. \A p \in Endpoint : Truthful(e, p, recorded[e][p])'
        BY <1>1, <1>2, <1>3 DEF Recorded
    <2>3. \A i \in DOMAIN Endpoints :
                i \in todo[w] \/ Settled(e, Endpoints[i]) \/ incomplete[w]
        BY <1>0, <1>1 DEF Handling
    <2> QED  BY <1>1, <1>3, <2>1, <2>2, <2>3 DEF Handling, Settled, Truthful
<1>6. \A v \in Worker \ {w} : Idles(v)
    BY <1>1 DEF Idles, DeliveryTypes
<1> HIDE DEF DeliveryInv
<1> QED
    BY <1>1, <1>2, <1>4, <1>5, <1>6, StepKeeps

LEMMA SkipDeliveredKeeps ==
    ASSUME RelayInv, DeliveryInv, NEW w \in Worker, SkipDelivered(w)
    PROVE  DeliveryInv'
<1> USE DEF DeliveryInv
<1>0. PICK e : e = Current(w)
    OBVIOUS
<1>1. /\ pc[w] = "delivering" /\ step[w] = "posting" /\ todo[w] # {}
      /\ prior[w][Facing(w)].status = "delivered"
      /\ todo' = [todo EXCEPT ![w] = todo[w] \ {Min(todo[w])}]
      /\ step' = [step EXCEPT ![w] = "posting"]
      /\ UNCHANGED <<enabled, everDisabled, recorded, received, failedPosts, row, pc, batch,
                     prior, incomplete, posted>>
    BY DEF SkipDelivered, At, NextEndpoint, Goto, deliveryVars, vars, DeliveryTypes
<1>2. Grows /\ Recorded'
    BY <1>1, RecordsStay
<1>3. Current(w)' = e
    BY <1>0, <1>1 DEF Current
<1>4. DeliveryTypes'
    BY <1>1 DEF DeliveryTypes
<1>5. Handling(w)'
    <2>1. step'[w] = "posting" /\ todo'[w] = todo[w] \ {Min(todo[w])}
        BY <1>1 DEF DeliveryTypes
    <2>2. Facing(w) \in Endpoint /\ Facing(w) = Endpoints[Min(todo[w])]
        BY <1>1, FacingTyped DEF Facing
    <2>3. Settled(e, Facing(w))
        BY <1>0, <1>1, <2>2 DEF Handling, Truthful, Settled
    <2>4. \A i \in DOMAIN Endpoints :
                i \in todo[w] \/ Settled(e, Endpoints[i]) \/ incomplete[w]
        BY <1>0, <1>1 DEF Handling
    <2>5. \A i \in DOMAIN Endpoints :
                i \in todo'[w] \/ Settled(e, Endpoints[i])' \/ incomplete'[w]
        BY <1>1, <2>1, <2>2, <2>3, <2>4 DEF Settled
    <2>6. \A p \in Endpoint : Truthful(e, p, prior[w][p])
        BY <1>0, <1>1 DEF Handling
    <2> QED  BY <1>1, <1>3, <2>1, <2>5, <2>6 DEF Handling, Truthful
<1>6. \A v \in Worker \ {w} : Idles(v)
    BY <1>1 DEF Idles, DeliveryTypes
<1> HIDE DEF DeliveryInv
<1> QED
    BY <1>1, <1>2, <1>4, <1>5, <1>6, StepKeeps

\* The post of worker w is answered or fails, and nothing is recorded yet
LEMMA PostedKeeps ==
    ASSUME RelayInv, DeliveryInv, DeliveryTypes', Grows, NEW w \in Worker,
           pc[w] = "delivering", step[w] = "posting", todo[w] # {},
           step' = [step EXCEPT ![w] = "recording"],
           UNCHANGED <<enabled, everDisabled, recorded, row, pc, batch, todo, prior, incomplete>>,
           IF posted'[w]
           THEN Facing(w) \in received'[Current(w)]
           ELSE \/ failedPosts'[Current(w)][Facing(w)] >= Attempts(w)
                \/ failedPosts'[Current(w)][Facing(w)] = MaxDeliveryAttempts,
           \A v \in Worker \ {w} : Idles(v)
    PROVE  DeliveryInv'
<1>0. PICK e : e = Current(w)
    OBVIOUS
<1>1. e \in Event /\ Current(w)' = e /\ Facing(w)' = Facing(w) /\ Attempts(w)' = Attempts(w)
    BY <1>0, CurrentTyped DEF Current, Facing, Attempts
<1>2. step'[w] = "recording"
    BY DEF DeliveryInv, DeliveryTypes
<1>3. Recorded'
    <2>1. \A f \in Event, p \in Endpoint : recorded[f][p] \in Delivery
        BY DEF DeliveryInv, DeliveryTypes
    <2>2. \A f \in Event, p \in Endpoint : Truthful(f, p, recorded[f][p])'
        BY <2>1, TruthStays DEF DeliveryInv, Recorded
    <2> QED  BY <2>2 DEF DeliveryInv, Recorded
<1>4. \A p \in Endpoint : Truthful(e, p, prior[w][p])'
    <2>1. \A p \in Endpoint : prior[w][p] \in Delivery /\ Truthful(e, p, prior[w][p])
        BY <1>0 DEF DeliveryInv, DeliveryTypes, Handling
    <2> QED  BY <1>1, <2>1, TruthStays DEF DeliveryInv
<1>5. \A i \in DOMAIN Endpoints : i \in todo[w] \/ Settled(e, Endpoints[i])' \/ incomplete[w]
    BY <1>0, <1>1 DEF DeliveryInv, Handling, Settled, Grows
<1>6. Handling(w)'
    BY <1>0, <1>1, <1>2, <1>4, <1>5 DEF Handling
<1> QED
    BY <1>3, <1>6, StepKeeps

LEMMA PostKeeps ==
    ASSUME RelayInv, DeliveryInv, NEW w \in Worker, Post(w)
    PROVE  DeliveryInv'
<1> USE DEF DeliveryInv
<1>0. PICK e : e = Current(w)
    OBVIOUS
<1> DEFINE p == Facing(w)
<1>1. /\ pc[w] = "delivering" /\ step[w] = "posting" /\ todo[w] # {}
      /\ step' = [step EXCEPT ![w] = "recording"]
      /\ UNCHANGED <<enabled, everDisabled, recorded, row, pc, batch, todo, prior, incomplete>>
      /\ prior[w][p].status # "delivered"
      /\ \/ /\ received' = [received EXCEPT ![e] = received[e] \cup {p}]
            /\ posted' = [posted EXCEPT ![w] = TRUE]
            /\ UNCHANGED failedPosts
         \/ /\ failedPosts' = [failedPosts EXCEPT ![e][p] =
                    Min({failedPosts[e][p] + 1, MaxDeliveryAttempts})]
            /\ posted' = [posted EXCEPT ![w] = FALSE]
            /\ UNCHANGED received
    BY <1>0, CurrentTyped DEF Post, At, Goto, vars, Facing, DeliveryTypes
<1>2. e \in Event /\ Current(w)' = e /\ Facing(w)' = p /\ p \in Endpoint
    BY <1>0, <1>1, CurrentTyped, FacingTyped DEF Current, Facing
<1>3. /\ failedPosts[e][p] \in 0..MaxDeliveryAttempts
      /\ Min({failedPosts[e][p] + 1, MaxDeliveryAttempts}) =
            IF failedPosts[e][p] + 1 <= MaxDeliveryAttempts
            THEN failedPosts[e][p] + 1 ELSE MaxDeliveryAttempts
    <2>1. failedPosts[e][p] \in 0..MaxDeliveryAttempts
        BY <1>2 DEF DeliveryTypes
    <2> QED  BY <2>1, MinOfTwo, DeliveryAssumption
<1>4. prior[w][p] \in Delivery
    BY <1>2 DEF DeliveryTypes
<1> HIDE DEF p
<1>5. CASE /\ received' = [received EXCEPT ![e] = received[e] \cup {p}]
           /\ posted' = [posted EXCEPT ![w] = TRUE]
           /\ UNCHANGED failedPosts
    <2>1. received'[e] = received[e] \cup {p} /\ posted'[w] = TRUE
        BY <1>2, <1>5 DEF DeliveryTypes
    <2>2. DeliveryTypes'
        BY <1>1, <1>2, <1>5 DEF DeliveryTypes
    <2>3. Grows
        BY <1>1, <1>2, <1>5 DEF Grows, DeliveryTypes
    <2>4. \A v \in Worker \ {w} : Idles(v)
        BY <1>1, <1>5 DEF Idles, DeliveryTypes
    <2>5. Facing(w) \in received'[Current(w)]
        BY <1>0, <2>1 DEF p
    <2> HIDE DEF DeliveryInv
    <2> QED  BY <1>1, <2>1, <2>2, <2>3, <2>4, <2>5, PostedKeeps
<1>6. CASE /\ failedPosts' = [failedPosts EXCEPT ![e][p] =
                    Min({failedPosts[e][p] + 1, MaxDeliveryAttempts})]
           /\ posted' = [posted EXCEPT ![w] = FALSE]
           /\ UNCHANGED received
    <2>1. failedPosts'[e][p] = (IF failedPosts[e][p] + 1 <= MaxDeliveryAttempts
                                THEN failedPosts[e][p] + 1 ELSE MaxDeliveryAttempts)
        BY <1>2, <1>3, <1>6 DEF DeliveryTypes
    <2>2. failedPosts'[e][p] \in 0..MaxDeliveryAttempts /\ failedPosts'[e][p] >= failedPosts[e][p]
        BY <1>3, <2>1, DeliveryAssumption
    <2>3. \A f \in Event, q \in Endpoint :
            f # e \/ q # p => failedPosts'[f][q] = failedPosts[f][q]
        BY <1>2, <1>6 DEF DeliveryTypes
    <2>4. failedPosts' \in [Event -> [Endpoint -> 0..MaxDeliveryAttempts]]
        BY <1>2, <1>3, <1>6, <2>1, <2>2 DEF DeliveryTypes
    <2>5. DeliveryTypes'
        BY <1>1, <1>6, <2>4 DEF DeliveryTypes
    <2>6. Grows
        <3>1. \A f \in Event, q \in Endpoint : failedPosts[f][q] \in Nat
            BY DEF DeliveryTypes
        <3>2. ASSUME NEW f \in Event, NEW q \in Endpoint
              PROVE  failedPosts[f][q] <= failedPosts'[f][q]
            <4>1. CASE f = e /\ q = p
                BY <2>2, <3>1, <4>1
            <4>2. CASE f # e \/ q # p
                BY <2>3, <3>1, <4>2
            <4> QED  BY <4>1, <4>2
        <3> QED  BY <1>1, <1>6, <3>2 DEF Grows
    <2>7. ~posted'[w]
        BY <1>6 DEF DeliveryTypes
    <2>8. failedPosts'[e][p] >= Attempts(w) \/ failedPosts'[e][p] = MaxDeliveryAttempts
        <3>1. prior[w][p].attempts <= failedPosts[e][p] /\ Attempts(w) = prior[w][p].attempts + 1
            BY <1>0, <1>1, <1>2 DEF Handling, Truthful, Attempts, p
        <3> QED  BY <1>3, <1>4, <2>1, <3>1, DeliveryAssumption DEF Delivery
    <2>9. \A v \in Worker \ {w} : Idles(v)
        BY <1>1, <1>6 DEF Idles, DeliveryTypes
    <2>10. \/ failedPosts'[Current(w)][Facing(w)] >= Attempts(w)
           \/ failedPosts'[Current(w)][Facing(w)] = MaxDeliveryAttempts
        BY <1>0, <2>8 DEF p
    <2> HIDE DEF DeliveryInv
    <2> QED  BY <1>1, <2>5, <2>6, <2>7, <2>9, <2>10, PostedKeeps
<1> QED
    BY <1>1, <1>5, <1>6

LEMMA RecordKeeps ==
    ASSUME RelayInv, DeliveryInv, NEW w \in Worker, Record(w)
    PROVE  DeliveryInv'
<1> USE DEF DeliveryInv
<1>0. PICK e : e = Current(w)
    OBVIOUS
<1> DEFINE p == Facing(w)
           entry == [status |-> IF posted[w] THEN "delivered" ELSE "failed",
                     attempts |-> Min({Attempts(w), MaxDeliveryAttempts})]
           next == [todo EXCEPT ![w] = todo[w] \ {Min(todo[w])}]
<1>1. /\ pc[w] = "delivering" /\ step[w] = "recording" /\ todo[w] # {}
      /\ recorded' = [recorded EXCEPT ![e][p] = entry]
      /\ UNCHANGED <<enabled, everDisabled, received, failedPosts, row, pc, batch, prior, posted>>
    BY <1>0 DEF Record, At, vars, Handling
<1>2. e \in Event /\ Current(w)' = e /\ p \in Endpoint /\ Min(todo[w]) \in todo[w]
      /\ p = Endpoints[Min(todo[w])]
    BY <1>0, <1>1, CurrentTyped, FacingTyped DEF Current, Facing
<1>3. prior[w][p] \in Delivery /\ failedPosts[e][p] \in 0..MaxDeliveryAttempts
    BY <1>2 DEF DeliveryTypes
<1>4. /\ Attempts(w) \in Nat
      /\ Min({Attempts(w), MaxDeliveryAttempts}) =
            IF Attempts(w) <= MaxDeliveryAttempts THEN Attempts(w) ELSE MaxDeliveryAttempts
    <2>1. Attempts(w) \in Nat
        BY <1>3 DEF Attempts, Delivery
    <2> QED  BY <2>1, MinOfTwo, DeliveryAssumption
<1>5. IF posted[w] THEN p \in received[e]
      ELSE failedPosts[e][p] >= Attempts(w) \/ failedPosts[e][p] = MaxDeliveryAttempts
    BY <1>0, <1>1 DEF Handling
<1>6. entry \in Delivery
    BY <1>4, DeliveryAssumption DEF Delivery
<1>7. Truthful(e, p, entry)
    BY <1>3, <1>4, <1>5, DeliveryAssumption DEF Truthful
<1>8. \A i \in DOMAIN Endpoints :
            i \in todo[w] \/ Settled(e, Endpoints[i]) \/ incomplete[w]
    BY <1>0, <1>1 DEF Handling
<1>9. \A q \in Endpoint : Truthful(e, q, prior[w][q])
    BY <1>0, <1>1 DEF Handling
<1>10. /\ \/ /\ posted[w] /\ todo' = next
             /\ step' = [step EXCEPT ![w] = "posting"]
             /\ UNCHANGED incomplete
          \/ /\ ~posted[w] /\ Attempts(w) >= MaxDeliveryAttempts
             /\ step' = [step EXCEPT ![w] = "disabling"]
             /\ UNCHANGED <<todo, incomplete>>
          \/ /\ todo' = next
             /\ step' = [step EXCEPT ![w] = "posting"]
             /\ incomplete' = [incomplete EXCEPT ![w] = TRUE]
    BY DEF Record, NextEndpoint, Goto, DeliveryTypes
<1>11. next \in [Worker -> SUBSET DOMAIN Endpoints] /\ next[w] = todo[w] \ {Min(todo[w])}
    BY DEF DeliveryTypes
<1> HIDE DEF p, entry, next
<1>12. recorded' \in [Event -> [Endpoint -> Delivery]]
    BY <1>1, <1>2, <1>6 DEF DeliveryTypes
<1>13. DeliveryTypes'
    BY <1>1, <1>10, <1>11, <1>12 DEF DeliveryTypes
<1>14. Grows
    BY <1>1 DEF Grows, DeliveryTypes
<1>15. Recorded'
    <2>1. \A f \in Event, q \in Endpoint :
            recorded'[f][q] = IF f = e /\ q = p THEN entry ELSE recorded[f][q]
        BY <1>1, <1>2 DEF DeliveryTypes
    <2>2. \A f \in Event, q \in Endpoint : Truthful(f, q, recorded'[f][q])
        BY <1>7, <2>1 DEF Recorded
    <2> QED  BY <1>1, <2>2 DEF Recorded, Truthful
<1>16. Handling(w)'
    <2>1. \A q \in Endpoint : Truthful(e, q, prior[w][q])'
        BY <1>1, <1>9 DEF Truthful
    <2>2. CASE posted[w] /\ todo' = next
               /\ step' = [step EXCEPT ![w] = "posting"] /\ UNCHANGED incomplete
        <3>1. step'[w] = "posting" /\ todo'[w] = todo[w] \ {Min(todo[w])}
            BY <1>11, <2>2 DEF DeliveryTypes
        <3>2. \A i \in DOMAIN Endpoints :
                i \in todo'[w] \/ Settled(e, Endpoints[i])' \/ incomplete'[w]
            BY <1>1, <1>2, <1>5, <1>8, <2>2, <3>1 DEF Settled
        <3> QED  BY <1>1, <1>2, <2>1, <3>1, <3>2 DEF Handling
    <2>3. CASE ~posted[w] /\ Attempts(w) >= MaxDeliveryAttempts
               /\ step' = [step EXCEPT ![w] = "disabling"] /\ UNCHANGED <<todo, incomplete>>
        <3>1. step'[w] = "disabling" /\ todo'[w] # {} /\ Facing(w)' = p
            BY <1>1, <2>3 DEF DeliveryTypes, Facing, p
        <3>2. failedPosts'[e][p] = MaxDeliveryAttempts
            BY <1>1, <1>3, <1>4, <1>5, <2>3, DeliveryAssumption
        <3>3. \A i \in DOMAIN Endpoints :
                i \in todo'[w] \/ Settled(e, Endpoints[i])' \/ incomplete'[w]
            BY <1>1, <1>8, <2>3 DEF Settled
        <3> QED  BY <1>1, <1>2, <2>1, <3>1, <3>2, <3>3 DEF Handling
    <2>4. CASE todo' = next /\ step' = [step EXCEPT ![w] = "posting"]
               /\ incomplete' = [incomplete EXCEPT ![w] = TRUE]
        <3>1. step'[w] = "posting" /\ incomplete'[w]
            BY <2>4 DEF DeliveryTypes
        <3> QED  BY <1>1, <1>2, <2>1, <3>1 DEF Handling
    <2> QED  BY <1>10, <2>2, <2>3, <2>4
<1>17. \A v \in Worker \ {w} : Idles(v)
    BY <1>1, <1>10 DEF Idles, DeliveryTypes, next
<1> HIDE DEF DeliveryInv
<1> QED
    BY <1>1, <1>13, <1>14, <1>15, <1>16, <1>17, StepKeeps

LEMMA DisableKeeps ==
    ASSUME RelayInv, DeliveryInv, NEW w \in Worker, Disable(w)
    PROVE  DeliveryInv'
<1> USE DEF DeliveryInv
<1>0. PICK e : e = Current(w)
    OBVIOUS
<1> DEFINE p == Facing(w)
<1>1. /\ pc[w] = "delivering" /\ step[w] = "disabling" /\ todo[w] # {}
      /\ failedPosts[e][p] = MaxDeliveryAttempts
      /\ enabled' = enabled \ {p}
      /\ everDisabled' = everDisabled \cup {p}
      /\ todo' = [todo EXCEPT ![w] = todo[w] \ {Min(todo[w])}]
      /\ step' = [step EXCEPT ![w] = "posting"]
      /\ UNCHANGED <<recorded, received, failedPosts, row, pc, batch, prior, incomplete, posted>>
    BY <1>0 DEF Disable, At, NextEndpoint, Goto, vars, Handling, DeliveryTypes
<1>2. e \in Event /\ Current(w)' = e /\ p \in Endpoint /\ p = Endpoints[Min(todo[w])]
    BY <1>0, <1>1, CurrentTyped, FacingTyped DEF Current, Facing
<1> HIDE DEF p
<1>3. DeliveryTypes'
    BY <1>1, <1>2 DEF DeliveryTypes
<1>4. Grows
    BY <1>1 DEF Grows, DeliveryTypes
<1>5. Recorded'
    BY <1>1, <1>2 DEF Recorded, Truthful
<1>6. Handling(w)'
    <2>1. step'[w] = "posting" /\ todo'[w] = todo[w] \ {Min(todo[w])}
        BY <1>1 DEF DeliveryTypes
    <2>2. \A i \in DOMAIN Endpoints :
            i \in todo[w] \/ Settled(e, Endpoints[i]) \/ incomplete[w]
        BY <1>0, <1>1 DEF Handling
    <2>3. \A i \in DOMAIN Endpoints :
            i \in todo'[w] \/ Settled(e, Endpoints[i])' \/ incomplete'[w]
        BY <1>1, <1>2, <2>1, <2>2 DEF Settled
    <2>4. \A q \in Endpoint : Truthful(e, q, prior[w][q])'
        BY <1>0, <1>1 DEF Handling, Truthful
    <2> QED  BY <1>1, <1>2, <2>1, <2>3, <2>4 DEF Handling
<1>7. \A v \in Worker \ {w} : Idles(v)
    BY <1>1 DEF Idles, DeliveryTypes
<1>8. \A q \in everDisabled' \ everDisabled :
            \E f \in Event : failedPosts'[f][q] = MaxDeliveryAttempts
    BY <1>1, <1>2
<1> HIDE DEF DeliveryInv
<1> QED
    BY <1>1, <1>3, <1>4, <1>5, <1>6, <1>7, <1>8, StepKeeps

\* handle() is left: its local variables are as before the next event
LEMMA LeaveKeeps ==
    ASSUME RelayInv, DeliveryInv, NEW w \in Worker, Leave(w), UNCHANGED <<row, batch>>,
           UNCHANGED <<enabled, everDisabled, recorded, received, failedPosts>>,
           pc[w] = "delivering",
           NEW label, pc' = [pc EXCEPT ![w] = label],
           label = "publishing" => \A p \in Endpoint : Settled(Current(w), p)
    PROVE  DeliveryInv'
<1> USE DEF DeliveryInv
<1>1. Grows /\ Recorded'
    BY RecordsStay
<1>2. /\ step' = [step EXCEPT ![w] = "start"]
      /\ todo' = [todo EXCEPT ![w] = {}]
      /\ prior' = [prior EXCEPT ![w] = NoDeliveries]
      /\ incomplete' = [incomplete EXCEPT ![w] = FALSE]
      /\ posted' = [posted EXCEPT ![w] = FALSE]
    BY DEF Leave, Goto
<1>3. NoDeliveries \in [Endpoint -> Delivery]
    BY DEF NoDeliveries, Delivery
<1>4. DeliveryTypes'
    BY <1>2, <1>3 DEF DeliveryTypes
<1>5. Handling(w)'
    <2>1. step'[w] = "start" /\ pc'[w] = label
        BY <1>2 DEF DeliveryTypes, RelayInv, RelayTypes
    <2>2. Current(w)' = Current(w)
        BY DEF Current
    <2> QED  BY <2>1, <2>2 DEF Handling, Settled
<1>6. \A v \in Worker \ {w} : Idles(v)
    BY <1>2 DEF Idles, DeliveryTypes, RelayInv, RelayTypes
<1> HIDE DEF DeliveryInv
<1> QED
    BY <1>1, <1>4, <1>5, <1>6, StepKeeps

LEMMA EndHandleKeeps ==
    ASSUME RelayInv, DeliveryInv, NEW w \in Worker, EndHandle(w)
    PROVE  DeliveryInv'
<1> DEFINE label == IF incomplete[w] THEN "failing" ELSE "publishing"
<1>1. /\ pc[w] = "delivering" /\ step[w] = "posting" /\ todo[w] = {} /\ Leave(w)
      /\ UNCHANGED <<row, batch, enabled, everDisabled, recorded, received, failedPosts>>
      /\ pc' = [pc EXCEPT ![w] = label]
    BY DEF EndHandle, At, DeliverThrows, DeliverReturns, deliveryVars
<1>2. label = "publishing" => \A p \in Endpoint : Settled(Current(w), p)
    BY <1>1 DEF DeliveryInv, Handling, Endpoint
<1> HIDE DEF label
<1> QED
    BY <1>1, <1>2, LeaveKeeps

LEMMA StoreThrowsKeeps ==
    ASSUME RelayInv, DeliveryInv, NEW w \in Worker, StoreThrows(w)
    PROVE  DeliveryInv'
<1>1. /\ pc[w] = "delivering" /\ Leave(w)
      /\ UNCHANGED <<row, batch, enabled, everDisabled, recorded, received, failedPosts>>
      /\ pc' = [pc EXCEPT ![w] = "failing"]
    BY DEF StoreThrows, DeliverThrows
<1> QED
    BY <1>1, LeaveKeeps

\* The relay moves worker w, which is not inside handle() before or after
LEMMA RelayMoveKeeps ==
    ASSUME RelayInv, DeliveryInv, NEW w \in Worker, pc[w] # "delivering",
           pc' = [pc EXCEPT ![w] = pc'[w]], pc'[w] # "publishing",
           batch' = [batch EXCEPT ![w] = batch'[w]],
           UNCHANGED <<handleVars, deliveryVars>>,
           \A e \in Event : row'[e].status = "published" =>
                row[e].status = "published" \/ \A p \in Endpoint : Settled(e, p)
    PROVE  DeliveryInv'
<1> USE DEF DeliveryInv
<1>1. /\ UNCHANGED <<step, todo, prior, incomplete, posted>>
      /\ UNCHANGED <<recorded, received, failedPosts, enabled, everDisabled>>
    BY DEF handleVars, deliveryVars
<1>2. Grows /\ Recorded'
    BY <1>1, RecordsStay
<1>3. DeliveryTypes'
    BY <1>1 DEF DeliveryTypes
<1>4. step[w] = "start"
    BY DEF Handling
<1>5. Handling(w)'
    BY <1>1, <1>4 DEF Handling
<1>6. \A v \in Worker \ {w} : Idles(v)
    BY <1>1 DEF Idles, RelayInv, RelayTypes
<1>7. \A v \in Worker \ {w} : Handling(v)'
    BY <1>2, <1>3, <1>6, HandlingStays DEF Idles
<1> HIDE DEF DeliveryInv
<1> QED
    BY <1>1, <1>2, <1>3, <1>5, <1>7, PromisesStay

LEMMA RelayPartKeeps ==
    ASSUME RelayInv, DeliveryInv, NEW w \in Worker, Relay(w)
    PROVE  DeliveryInv'
<1>1. UNCHANGED <<handleVars, deliveryVars>>
    BY DEF Relay
<1>2. CASE SelectForUpdate(w) \/ FindCandidates(w)
    <2>1. /\ pc[w] = "idle" /\ pc' = [pc EXCEPT ![w] = "claiming"]
          /\ UNCHANGED <<row, batch>>
        BY <1>2 DEF SelectForUpdate, FindCandidates, OpenClaim
    <2>2. pc' = [pc EXCEPT ![w] = pc'[w]] /\ pc'[w] # "publishing"
          /\ batch' = [batch EXCEPT ![w] = batch'[w]]
        BY <2>1 DEF RelayInv, RelayTypes
    <2> QED  BY <1>1, <2>1, <2>2, RelayMoveKeeps
<1>3. CASE ClaimRows(w)
    <2>1. /\ pc[w] = "claiming"
          /\ \E label \in {"idle", "delivering"} : pc' = [pc EXCEPT ![w] = label]
          /\ \E b : batch' = [batch EXCEPT ![w] = b]
          /\ row' = [e \in Event |-> IF e \in Chosen(w)
                THEN [row[e] EXCEPT !.status = "processing", !.lockedBy = w,
                                    !.lockLeft = ClaimTtl]
                ELSE row[e]]
        BY <1>3 DEF ClaimRows
    <2>2. pc' = [pc EXCEPT ![w] = pc'[w]] /\ pc'[w] # "publishing"
          /\ batch' = [batch EXCEPT ![w] = batch'[w]]
        BY <2>1 DEF RelayInv, RelayTypes
    <2>3. ASSUME NEW e \in Event, row'[e].status = "published"
          PROVE  row[e].status = "published"
        <3>1. row[e] \in Row
            BY DEF RelayInv, RelayTypes
        <3>2. CASE e \in Chosen(w)
            <4>1. row'[e] = [row[e] EXCEPT !.status = "processing", !.lockedBy = w,
                                           !.lockLeft = ClaimTtl]
                BY <2>1, <3>2
            <4> QED  BY <2>3, <3>1, <4>1 DEF Row
        <3>3. CASE e \notin Chosen(w)
            BY <2>1, <2>3, <3>3
        <3> QED  BY <3>2, <3>3
    <2> QED  BY <1>1, <2>1, <2>2, <2>3, RelayMoveKeeps
<1>4. CASE MarkPublished(w) \/ MarkFailed(w) \/ MarkThrows(w)
    <2>1. pc[w] \in {"publishing", "failing"} /\ NextEvent(w)
        BY <1>4 DEF MarkPublished, MarkFailed, MarkThrows
    <2>2. pc' = [pc EXCEPT ![w] = pc'[w]] /\ pc'[w] # "publishing"
          /\ batch' = [batch EXCEPT ![w] = batch'[w]]
        BY <2>1 DEF NextEvent, RelayInv, RelayTypes
    <2>3. Current(w) \in Event
        BY <2>1, CurrentTyped
    <2>4. ASSUME NEW e \in Event, row'[e].status = "published"
          PROVE  row[e].status = "published" \/ \A p \in Endpoint : Settled(e, p)
        <3>1. CASE MarkPublished(w)
            <4>1. UNCHANGED row \/ row' = [row EXCEPT ![Current(w)] = Published(Current(w))]
                BY <3>1, MarkPublishedKeeps
            <4>2. \A p \in Endpoint : Settled(Current(w), p)
                BY <3>1 DEF MarkPublished, DeliveryInv, Handling
            <4> QED  BY <2>4, <4>1, <4>2 DEF RelayInv, RelayTypes
        <3>2. CASE MarkFailed(w)
            <4>1. PICK delay : UNCHANGED row \/
                        row' = [row EXCEPT ![Current(w)] = Failed(Current(w), delay)]
                BY <3>2, MarkFailedKeeps
            <4>2. Failed(Current(w), delay).status # "published"
                BY DEF Failed
            <4> QED  BY <2>4, <4>1, <4>2 DEF RelayInv, RelayTypes
        <3>3. CASE MarkThrows(w)
            BY <2>4, <3>3 DEF MarkThrows
        <3> QED  BY <1>4, <3>1, <3>2, <3>3
    <2> QED  BY <1>1, <2>1, <2>2, <2>4, RelayMoveKeeps
<1> QED
    BY <1>2, <1>3, <1>4 DEF Relay

LEMMA CrashedKeeps ==
    ASSUME RelayInv, DeliveryInv, NEW w \in Worker, Crash(w), Leave(w), UNCHANGED deliveryVars
    PROVE  DeliveryInv'
<1> USE DEF DeliveryInv
<1>1. /\ pc' = [pc EXCEPT ![w] = "idle"]
      /\ batch' = [batch EXCEPT ![w] = <<>>]
      /\ step' = [step EXCEPT ![w] = "start"]
      /\ todo' = [todo EXCEPT ![w] = {}]
      /\ prior' = [prior EXCEPT ![w] = NoDeliveries]
      /\ incomplete' = [incomplete EXCEPT ![w] = FALSE]
      /\ posted' = [posted EXCEPT ![w] = FALSE]
      /\ UNCHANGED <<row, recorded, received, failedPosts, enabled, everDisabled>>
    BY DEF Crash, Leave, Goto, deliveryVars
<1>2. Grows /\ Recorded'
    BY <1>1, RecordsStay
<1>3. NoDeliveries \in [Endpoint -> Delivery]
    BY DEF NoDeliveries, Delivery
<1>4. DeliveryTypes'
    BY <1>1, <1>3 DEF DeliveryTypes
<1>5. Handling(w)'
    BY <1>1 DEF Handling, DeliveryTypes, RelayInv, RelayTypes
<1>6. \A v \in Worker \ {w} : Idles(v)
    BY <1>1 DEF Idles, DeliveryTypes, RelayInv, RelayTypes
<1> HIDE DEF DeliveryInv
<1> QED
    BY <1>1, <1>2, <1>4, <1>5, <1>6, StepKeeps

\* Steps of nobody in particular: staging, time, the merchant
LEMMA AsideKeeps ==
    ASSUME RelayInv, DeliveryInv, UNCHANGED <<pc, batch, handleVars>>,
           UNCHANGED <<recorded, received, failedPosts, everDisabled>>,
           enabled \subseteq enabled', enabled' \subseteq Endpoint,
           \A e \in Event : row'[e].status = "published" => row[e].status = "published"
    PROVE  DeliveryInv'
<1> USE DEF DeliveryInv
<1>1. UNCHANGED <<step, todo, prior, incomplete, posted>>
    BY DEF handleVars
<1>2. DeliveryTypes'
    BY <1>1 DEF DeliveryTypes
<1>3. Grows
    BY DEF Grows, DeliveryTypes
<1>4. Recorded'
    BY DEF Recorded, Truthful
<1>5. \A v \in Worker : Handling(v)'
    BY <1>1, <1>2, <1>3, HandlingStays
<1> HIDE DEF DeliveryInv
<1> QED
    BY <1>2, <1>3, <1>4, <1>5, PromisesStay

LEMMA DeliveryStep == RelayInv /\ DeliveryInv /\ [DeliveryNext]_dvars => DeliveryInv'
<1> SUFFICES ASSUME RelayInv, DeliveryInv, [DeliveryNext]_dvars PROVE DeliveryInv'
    OBVIOUS
<1>1. ASSUME NEW w \in Worker, Handle(w) PROVE DeliveryInv'
    BY <1>1, ListEndpointsKeeps, LoadPriorKeeps, SkipDeliveredKeeps, PostKeeps, RecordKeeps,
       DisableKeeps, EndHandleKeeps, StoreThrowsKeeps DEF Handle
<1>2. ASSUME NEW w \in Worker, Relay(w) PROVE DeliveryInv'
    BY <1>2, RelayPartKeeps
<1>3. ASSUME NEW w \in Worker, Crash(w) /\ Leave(w) /\ UNCHANGED deliveryVars
      PROVE  DeliveryInv'
    BY <1>3, CrashedKeeps
<1>4. ASSUME NEW p \in Endpoint, EnableEndpoint(p) PROVE DeliveryInv'
    <2>1. /\ UNCHANGED <<pc, batch, row, handleVars>>
          /\ UNCHANGED <<recorded, received, failedPosts, everDisabled>>
          /\ enabled \subseteq enabled' /\ enabled' \subseteq Endpoint
        BY <1>4 DEF EnableEndpoint, vars, DeliveryInv, DeliveryTypes
    <2> QED  BY <2>1, AsideKeeps
<1>5. CASE Tick /\ UNCHANGED <<handleVars, deliveryVars>>
    <2>1. /\ UNCHANGED <<pc, batch, handleVars>>
          /\ UNCHANGED <<recorded, received, failedPosts, everDisabled, enabled>>
          /\ row' = [e \in Event |-> [row[e] EXCEPT !.retryLeft = Before(@),
                                                    !.lockLeft = Before(@)]]
        BY <1>5 DEF Tick, deliveryVars
    <2>2. \A e \in Event : row'[e].status = row[e].status
        BY <2>1 DEF RelayInv, RelayTypes, Row
    <2>3. enabled \subseteq enabled' /\ enabled' \subseteq Endpoint
        BY <2>1 DEF DeliveryInv, DeliveryTypes
    <2> QED  BY <2>1, <2>2, <2>3, AsideKeeps
<1>6. ASSUME NEW e \in Event, Stage(e), UNCHANGED <<handleVars, deliveryVars>>
      PROVE  DeliveryInv'
    <2>1. /\ UNCHANGED <<pc, batch, handleVars>>
          /\ UNCHANGED <<recorded, received, failedPosts, everDisabled, enabled>>
          /\ row' = [row EXCEPT ![e].status = "pending"]
        BY <1>6 DEF Stage, deliveryVars
    <2>2. \A f \in Event : row'[f].status = "published" => row[f].status = "published"
        BY <2>1 DEF RelayInv, RelayTypes, Row
    <2>3. enabled \subseteq enabled' /\ enabled' \subseteq Endpoint
        BY <2>1 DEF DeliveryInv, DeliveryTypes
    <2> QED  BY <2>1, <2>2, <2>3, AsideKeeps
<1>7. CASE UNCHANGED dvars
    <2>1. /\ UNCHANGED <<pc, batch, row, handleVars>>
          /\ UNCHANGED <<recorded, received, failedPosts, everDisabled, enabled>>
        BY <1>7 DEF dvars, vars, deliveryVars
    <2>2. enabled \subseteq enabled' /\ enabled' \subseteq Endpoint
        BY <2>1 DEF DeliveryInv, DeliveryTypes
    <2> QED  BY <2>1, <2>2, AsideKeeps
<1> QED
    BY <1>1, <1>2, <1>3, <1>4, <1>5, <1>6, <1>7 DEF DeliveryNext

LEMMA DeliveryHolds == DeliverySpec => []DeliveryInv
<1>1. DeliverySpec => []RelayInv
    BY DeliveryImplementsOutbox, RelayHolds, PTL DEF ImplementsOutbox
<1>2. DeliveryInit => DeliveryInv
    BY DeliveryInitially
<1>3. RelayInv /\ DeliveryInv /\ [DeliveryNext]_dvars => DeliveryInv'
    BY DeliveryStep
<1> QED
    BY <1>1, <1>2, <1>3, PTL DEF DeliverySpec

\* A published event reached every endpoint that was not disabled meanwhile,
\* whichever workers shared the posts and whichever claims expired.
THEOREM DeliveryReachesEndpoints == DeliverySpec => []PublishedReachedEndpoints
<1>1. DeliveryInv => PublishedReachedEndpoints
    BY DEF DeliveryInv
<1> QED
    BY <1>1, DeliveryHolds, PTL

\* An endpoint is disabled only after maxAttempts posts of one event to it
\* failed, also when overlapping workers count from stale deliveries.
THEOREM DeliveryDisablesEarned == DeliverySpec => []DisabledWasEarned
<1>1. DeliveryInv => DisabledWasEarned
    BY DEF DeliveryInv
<1> QED
    BY <1>1, DeliveryHolds, PTL

=============================================================================

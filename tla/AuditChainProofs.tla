-------------------------- MODULE AuditChainProofs --------------------------
(***************************************************************************)
(* Proofs about AuditChain, for any numbers of calls, backfills and        *)
(* verifications, any retries, faults and edits, and every mode:           *)
(*   - an entry is in the chain once if its call returned and never if it  *)
(*     failed (RecordedOnce);                                              *)
(*   - the committed entries form one chain (ChainIsLinked);               *)
(*   - a call that gave up for contention was overtaken that often         *)
(*     (ContentionIsReal).                                                 *)
(*   - a verification's verdict was true at some moment while it read      *)
(*     (VerdictWasTrue).                                                   *)
(***************************************************************************)
EXTENDS AuditChain, TLAPS, WellFoundedInduction, SequenceTheorems, FiniteSetTheorems

-----------------------------------------------------------------------------
\* Greatest numbers

\* A set of numbers below a bound has a greatest one.
LEMMA NatMin ==
    ASSUME NEW T, T \subseteq Nat, T # {}
    PROVE  \E m \in T : \A y \in T : m <= y
<1> DEFINE R == OpToRel(<, Nat)
<1>1. IsWellFoundedOn(R, Nat)
    BY NatLessThanWellFounded
<1>2. \A x, y \in Nat : y < x => <<y, x>> \in R
    BY DEF OpToRel
<1> HIDE DEF R
<1>3. PICK m \in T : \A y \in T : ~ (<<y, m>> \in R)
    BY <1>1, WFMin
<1>4. \A y \in T : ~(y < m)
    BY <1>2, <1>3
<1> QED
    BY <1>4

LEMMA NatMax ==
    ASSUME NEW T, T \subseteq Nat, T # {}, NEW n \in Nat, \A x \in T : x <= n
    PROVE  \E m \in T : \A y \in T : y <= m
<1> DEFINE U == {i \in Nat : \A x \in T : x <= i}
<1>1. U \subseteq Nat /\ U # {}
    OBVIOUS
<1>2. PICK u \in U : \A y \in U : u <= y
    BY <1>1, NatMin
<1>3. CASE u \in T
    BY <1>2, <1>3
<1>4. CASE u \notin T
    <2>1. PICK x \in T : TRUE
        OBVIOUS
    <2>2. x <= u /\ x # u /\ x \in Nat /\ u \in Nat
        BY <1>2, <1>4
    <2>3. u - 1 \in Nat /\ u - 1 < u
        BY <2>2
    <2>4. \A y \in T : y <= u - 1
        BY <1>2, <1>4, <2>2
    <2> QED
        BY <1>2, <2>3, <2>4
<1> QED
    BY <1>3, <1>4

\* Rows as the unique index keeps them: under numbers, with a greatest one.
Numbered(f) ==
    /\ DOMAIN f \subseteq Nat
    /\ \E n \in Nat : \A s \in DOMAIN f : s <= n

\* What latest() answers.
LEMMA LatestIs ==
    ASSUME NEW f, Numbered(f)
    PROVE  /\ DOMAIN Latest(f) = {"sequence", "hash"}
           /\ Latest(f).sequence \in Nat
           /\ \A s \in DOMAIN f : s <= Latest(f).sequence
           /\ \/ DOMAIN f = {} /\ Latest(f).sequence = 0 /\ Latest(f).hash = Genesis
              \/ /\ Latest(f).sequence \in DOMAIN f
                 /\ Latest(f).hash = f[Latest(f).sequence].hash
<1>1. CASE DOMAIN f = {}
    BY <1>1 DEF Latest
<1>2. CASE DOMAIN f # {}
    <2>1. PICK m \in DOMAIN f : \A y \in DOMAIN f : y <= m
        BY <1>2, NatMax DEF Numbered
    <2> DEFINE t == CHOOSE s \in DOMAIN f : \A r \in DOMAIN f : r <= s
    <2>2. t \in DOMAIN f /\ \A r \in DOMAIN f : r <= t
        BY <2>1
    <2>3. Latest(f) = [sequence |-> t, hash |-> f[t].hash]
        BY <1>2 DEF Latest
    <2> HIDE DEF t
    <2> QED
        BY <2>2, <2>3 DEF Numbered
<1> QED
    BY <1>1, <1>2

LEMMA OverNumbered ==
    ASSUME NEW f, NEW g, Numbered(f), Numbered(g)
    PROVE  Numbered(Over(f, g))
<1>1. PICK n \in Nat : \A s \in DOMAIN f : s <= n
    BY DEF Numbered
<1>2. PICK m \in Nat : \A s \in DOMAIN g : s <= m
    BY DEF Numbered
<1>3. DOMAIN Over(f, g) = DOMAIN f \cup DOMAIN g
    BY DEF Over
<1>4. \A s \in DOMAIN f \cup DOMAIN g : s \in Nat /\ s <= n + m
    BY <1>1, <1>2 DEF Numbered
<1>5. n + m \in Nat
    OBVIOUS
<1> QED
    BY <1>3, <1>4, <1>5 DEF Numbered

-----------------------------------------------------------------------------
\* Shapes

CallFields == {"pc", "entry", "attempts", "base", "seen", "snapshot", "written"}
BackfillFields == {"pc", "batch", "seen", "written"}
Working == {"read", "insert", "hold"}
LegacyIds == {Legacy[i] : i \in DOMAIN Legacy}

Shapes ==
    /\ mode \in Modes
    /\ DOMAIN call = Call
    /\ DOMAIN backfill = Backfiller
    /\ \A c \in Call :
         /\ DOMAIN call[c] = CallFields
         /\ call[c].pc \in Working \cup {"done", "failed", "contention", "unknown"}
         /\ call[c].entry \in Nat \ {0}
         /\ call[c].attempts \in Nat
         /\ ~mode.nested => call[c].entry = 1
         /\ call[c].pc \notin Working => call[c].written = Empty /\ call[c].snapshot = <<>>
    /\ legacy \in {<<>>, Legacy}
    /\ \A b \in Backfiller :
         /\ DOMAIN backfill[b] = BackfillFields
         /\ backfill[b].batch \in {<<>>, Legacy}
         /\ backfill[b].pc # "hold" => backfill[b].written = Empty

Numbers ==
    /\ Numbered(chain)
    /\ \A c \in Call :
         /\ Numbered(call[c].written)
         /\ call[c].seen.sequence \in Nat /\ call[c].base \in Nat
         /\ call[c].snapshot = <<>> \/ Numbered(call[c].snapshot[1])
    /\ \A b \in Backfiller :
         Numbered(backfill[b].written) /\ backfill[b].seen.sequence \in Nat

\* An open transaction has the numbers it wrote for itself.
CallHolds ==
    \A c \in Call : \A s \in DOMAIN call[c].written :
        s \notin DOMAIN chain /\ ~HeldByOthers(s, c)

BackfillHolds ==
    \A b \in Backfiller : backfill[b].pc = "hold" =>
        /\ \A o \in Backfiller \ {b} : backfill[o].pc # "hold"
        /\ \A s \in DOMAIN backfill[b].written :
             /\ backfill[b].written[s].id \in LegacyIds
             /\ s \in DOMAIN chain => chain[s].id = backfill[b].written[s].id

\* An open transaction k of call c has written each of its entries so far, once.
Recorded(k) == IF k.pc = "hold" THEN k.entry ELSE k.entry - 1
OnceIn(c, k) ==
    /\ \A s \in DOMAIN k.written : \E n \in 1 .. Recorded(k) : k.written[s].id = <<c, n>>
    /\ \A n \in 1 .. Recorded(k) : \E s \in DOMAIN k.written : k.written[s].id = <<c, n>>
    /\ \A s, t \in DOMAIN k.written : k.written[s].id = k.written[t].id => s = t
WritesOnce == \A c \in Call : call[c].pc \in Working => OnceIn(c, call[c])

Copies(c, k) == {s \in DOMAIN chain : chain[s].id = <<c, k>>}

ChainedOnce ==
    \A c \in Call, k \in Nat \ {0} :
        /\ \A s, t \in Copies(c, k) : s = t
        /\ call[c].pc = "done" /\ k <= call[c].entry => Copies(c, k) # {}
        /\ call[c].pc \notin {"done", "unknown"} => Copies(c, k) = {}

OnceInv == Shapes /\ CallHolds /\ BackfillHolds /\ WritesOnce /\ ChainedOnce

-----------------------------------------------------------------------------
\* The chain and what open transactions add to it

Ids == (Call \X Nat) \cup LegacyIds
Pairs == Nat \X Ids
Hashes == Seq(Pairs)
Whole(rows) == Linked(rows) /\ \A s \in DOMAIN rows : rows[s].hash \in Hashes

\* head is an entry of rows, or stands before the first.
SeenIn(head, rows) ==
    \/ head.sequence = 0 /\ head.hash = Genesis
    \/ head.sequence \in DOMAIN rows /\ head.hash = rows[head.sequence].hash
Grown(f, g) == DOMAIN f \subseteq DOMAIN g /\ \A s \in DOMAIN f : g[s] = f[s]

\* written follows rows without a gap.
Follows(written, rows) ==
    /\ Whole(Over(rows, written))
    /\ DOMAIN written = {} \/ Latest(rows).sequence + 1 \in DOMAIN written
HasLegacy(rows) == \E s \in DOMAIN rows : rows[s].id \in LegacyIds

CallLinked(k, rows) ==
    /\ Follows(k.written, rows)
    /\ k.pc = "insert" => SeenIn(k.seen, Over(rows, k.written))
    /\ k.snapshot = <<>> \/ Grown(k.snapshot[1], rows)

\* A call of which no attempt reads a snapshot has counted what overtook it.
Overtaken(k, rows) ==
    /\ k.snapshot = <<>>
    /\ k.attempts > 0 => k.base + k.attempts <= Latest(rows).sequence
    /\ k.pc = "insert" =>
         /\ k.base + k.attempts <= k.seen.sequence
         /\ \A s \in DOMAIN k.written : s <= k.seen.sequence

BackfillLinked(k, rows) ==
    /\ k.pc = "update" => SeenIn(k.seen, rows)
    /\ k.pc = "hold" => HasLegacy(rows) \/ Follows(k.written, rows)

\* A backfill at work has entries to number.
Batches ==
    \A b \in Backfiller :
        /\ backfill[b].pc \in {"latest", "update", "hold"} =>
             backfill[b].batch = Legacy /\ Legacy # <<>>
        /\ backfill[b].pc = "hold" => DOMAIN backfill[b].written # {}

LinkInv ==
    /\ Whole(chain)
    /\ \A c \in Call : CallLinked(call[c], chain)
    /\ mode.retry # "snapshot" => \A c \in Call : Overtaken(call[c], chain)
    /\ \A b \in Backfiller : BackfillLinked(backfill[b], chain)

UnlessRenumbered == ~renumbered => LinkInv

-----------------------------------------------------------------------------
\* Facts about the helpers

LEMMA OverIs ==
    ASSUME NEW f, NEW g
    PROVE  /\ DOMAIN Over(f, g) = DOMAIN f \cup DOMAIN g
           /\ \A s \in DOMAIN g : Over(f, g)[s] = g[s]
           /\ \A s \in DOMAIN f \ DOMAIN g : Over(f, g)[s] = f[s]
BY DEF Over

LEMMA EmptyIs == DOMAIN Empty = {}
BY DEF Empty

\* What a step of one call leaves alone.
LEMMA ProceedsMoves ==
    ASSUME Shapes, NEW c \in Call, NEW k, Proceeds(c, k)
    PROVE  /\ DOMAIN call' = Call
           /\ call'[c] = k
           /\ \A d \in Call \ {c} : call'[d] = call[d]
           /\ mode' = mode /\ legacy' = legacy /\ backfill' = backfill
           /\ edited' = edited /\ renumbered' = renumbered
BY DEF Proceeds, Shapes

LEMMA BackfillProceedsMoves ==
    ASSUME Shapes, NEW b \in Backfiller, NEW k, BackfillProceeds(b, k)
    PROVE  /\ DOMAIN backfill' = Backfiller
           /\ backfill'[b] = k
           /\ \A o \in Backfiller \ {b} : backfill'[o] = backfill[o]
           /\ mode' = mode /\ call' = call /\ edited' = edited
BY DEF BackfillProceeds, Shapes

\* The three ways an attempt ends that throws.
LEMMA AppendThrowsIs ==
    ASSUME NEW k, NEW error, DOMAIN k = CallFields
    PROVE  LET t == AppendThrows(k, error)
           IN  /\ DOMAIN t = CallFields
               /\ t.entry = k.entry /\ t.base = k.base
               /\ error # "unique" =>
                    /\ t.pc = IF error = "unacknowledged" THEN "unknown" ELSE "failed"
                    /\ t.written = Empty /\ t.snapshot = <<>> /\ t.attempts = k.attempts
               /\ error = "unique" =>
                    /\ t.attempts = k.attempts + 1
                    /\ \/ /\ t.pc = "read" /\ t.snapshot = k.snapshot
                          /\ t.written = IF mode.nested THEN k.written ELSE Empty
                       \/ t.pc = "contention" /\ t.written = Empty /\ t.snapshot = <<>>
<1>1. CASE error # "unique"
    BY <1>1 DEF AppendThrows, IsUniqueViolation, CallFields
<1>2. CASE error = "unique" /\ k.attempts + 1 < MaxRetries
    BY <1>2 DEF AppendThrows, IsUniqueViolation, CallFields
<1>3. CASE error = "unique" /\ ~(k.attempts + 1 < MaxRetries)
    BY <1>3 DEF AppendThrows, IsUniqueViolation, CallFields
<1> QED
    BY <1>1, <1>2, <1>3

-----------------------------------------------------------------------------
\* Numbers stay numbers

LEMMA EmptyNumbered == Numbered(Empty)
BY EmptyIs DEF Numbered

LEMMA CallStepKeepsNumbers ==
    ASSUME Shapes, Numbers, NEW c \in Call, NEW k, Proceeds(c, k), Numbered(chain'),
           Numbered(k.written), k.seen.sequence \in Nat, k.base \in Nat,
           k.snapshot = <<>> \/ Numbered(k.snapshot[1])
    PROVE  Numbers'
<1>1. /\ call'[c] = k
      /\ \A d \in Call \ {c} : call'[d] = call[d]
      /\ backfill' = backfill
    BY ProceedsMoves
<1>2. Numbered(chain)'
    BY DEF Numbered
<1>3. \A d \in Call :
         /\ Numbered(call'[d].written)
         /\ call'[d].seen.sequence \in Nat /\ call'[d].base \in Nat
         /\ call'[d].snapshot = <<>> \/ Numbered(call'[d].snapshot[1])
    BY <1>1 DEF Numbers
<1>4. \A b \in Backfiller :
         Numbered(backfill'[b].written) /\ backfill'[b].seen.sequence \in Nat
    BY <1>1 DEF Numbers
<1> QED
    BY <1>3, <1>4 DEF Numbers

LEMMA ReadLatestKeepsNumbers ==
    ASSUME Shapes, Numbers, NEW c \in Call, ReadLatest(c) PROVE Numbers'
<1> DEFINE fixed == mode.nested /\ mode.retry = "snapshot" /\ call[c].snapshot = <<>>
           k == [call[c] EXCEPT
                   !.pc = "insert",
                   !.seen = Latest(View(c)),
                   !.base = IF call[c].attempts = 0 THEN Latest(chain).sequence ELSE @,
                   !.snapshot = IF fixed THEN <<chain>> ELSE @]
<1>1. Proceeds(c, k) /\ chain' = chain
    BY DEF ReadLatest
<1>2. DOMAIN call[c] = CallFields
    BY DEF Shapes
<1>3. /\ k.seen = Latest(View(c)) /\ k.written = call[c].written
      /\ k.base = IF call[c].attempts = 0 THEN Latest(chain).sequence ELSE call[c].base
      /\ k.snapshot = IF fixed THEN <<chain>> ELSE call[c].snapshot
    BY <1>2 DEF CallFields
<1> HIDE DEF k
<1>4. Numbered(View(c))
    BY OverNumbered DEF View, Numbers
<1>5. k.seen.sequence \in Nat /\ k.base \in Nat
    BY <1>3, <1>4, LatestIs DEF Numbers
<1>6. k.snapshot = <<>> \/ Numbered(k.snapshot[1])
    BY <1>3 DEF Numbers
<1> QED
    BY <1>1, <1>3, <1>5, <1>6, CallStepKeepsNumbers DEF Numbers

LEMMA InsertKeepsNumbers ==
    ASSUME Shapes, Numbers, NEW c \in Call, Insert(c) PROVE Numbers'
<1> DEFINE s0 == call[c].seen.sequence + 1
           row == NewRow(call[c].seen, <<c, call[c].entry>>)
           k == [call[c] EXCEPT !.pc = "hold", !.written = Over(@, [n \in {s0} |-> row])]
<1>1. Proceeds(c, k) /\ chain' = chain
    BY DEF Insert
<1>2. DOMAIN call[c] = CallFields
    BY DEF Shapes
<1>3. /\ k.written = Over(call[c].written, [n \in {s0} |-> row])
      /\ k.seen = call[c].seen /\ k.base = call[c].base /\ k.snapshot = call[c].snapshot
    BY <1>2 DEF CallFields
<1> HIDE DEF k, row
<1>4. Numbered([n \in {s0} |-> row])
    <2>1. s0 \in Nat
        BY DEF Numbers
    <2>2. DOMAIN [n \in {s0} |-> row] = {s0}
        OBVIOUS
    <2> HIDE DEF s0
    <2> QED
        BY <2>1, <2>2 DEF Numbered
<1>5. Numbered(k.written)
    BY <1>3, <1>4, OverNumbered DEF Numbers
<1> HIDE DEF s0
<1> QED
    BY <1>1, <1>3, <1>5, CallStepKeepsNumbers DEF Numbers

\* Every other step of a call keeps what it read and at most empties what it wrote.
LEMMA EndingKeepsNumbers ==
    ASSUME Shapes, Numbers, NEW c \in Call, NEW k, Proceeds(c, k),
           chain' = chain \/ chain' = Over(chain, call[c].written),
           k.written \in {call[c].written, Empty}, k.seen = call[c].seen, k.base = call[c].base,
           k.snapshot \in {call[c].snapshot, <<>>}
    PROVE  Numbers'
<1>1. Numbered(chain')
    BY OverNumbered DEF Numbers
<1>2. Numbered(k.written)
    BY EmptyNumbered DEF Numbers
<1> QED
    BY <1>1, <1>2, CallStepKeepsNumbers DEF Numbers

LEMMA ThrowingEnds ==
    ASSUME Shapes, NEW c \in Call, NEW error
    PROVE  LET k == AppendThrows(call[c], error)
           IN  /\ k.written \in {call[c].written, Empty} /\ k.seen = call[c].seen
               /\ k.base = call[c].base /\ k.snapshot \in {call[c].snapshot, <<>>}
<1>1. DOMAIN call[c] = CallFields
    BY DEF Shapes
<1>2. CASE error # "unique"
    BY <1>1, <1>2 DEF AppendThrows, IsUniqueViolation, CallFields
<1>3. CASE error = "unique" /\ call[c].attempts + 1 < MaxRetries
    BY <1>1, <1>3 DEF AppendThrows, IsUniqueViolation, CallFields
<1>4. CASE error = "unique" /\ ~(call[c].attempts + 1 < MaxRetries)
    BY <1>1, <1>4 DEF AppendThrows, IsUniqueViolation, CallFields
<1> QED
    BY <1>2, <1>3, <1>4

LEMMA AppendKeepsNumbers ==
    ASSUME Shapes, Numbers, NEW c \in Call, AppendStep(c) PROVE Numbers'
<1>0. DOMAIN call[c] = CallFields
    BY DEF Shapes
<1>1. CASE ReadLatest(c)
    BY <1>1, ReadLatestKeepsNumbers
<1>2. CASE Insert(c)
    BY <1>2, InsertKeepsNumbers
<1>3. CASE Collide(c) \/ RetryInAborted(c) \/ RollBack(c)
    <2>1. PICK error : Proceeds(c, AppendThrows(call[c], error)) /\ chain' = chain
        BY <1>3 DEF Collide, RetryInAborted, RollBack
    <2> QED
        BY <2>1, ThrowingEnds, EndingKeepsNumbers
<1>4. CASE LogAnother(c)
    <2> DEFINE k == [call[c] EXCEPT !.pc = "read", !.entry = @ + 1, !.attempts = 0]
    <2>1. Proceeds(c, k) /\ chain' = chain
        BY <1>4 DEF LogAnother
    <2>2. /\ k.written = call[c].written /\ k.seen = call[c].seen /\ k.base = call[c].base
          /\ k.snapshot = call[c].snapshot
        BY <1>0 DEF CallFields
    <2> HIDE DEF k
    <2> QED
        BY <2>1, <2>2, EndingKeepsNumbers
<1>5. CASE Commit(c)
    <2> DEFINE k == [call[c] EXCEPT !.pc = "done", !.written = Empty, !.snapshot = <<>>]
    <2>1. Proceeds(c, k) /\ chain' = Over(chain, call[c].written)
        BY <1>5 DEF Commit
    <2>2. /\ k.written = Empty /\ k.seen = call[c].seen /\ k.base = call[c].base
          /\ k.snapshot = <<>>
        BY <1>0 DEF CallFields
    <2> HIDE DEF k
    <2> QED
        BY <2>1, <2>2, EndingKeepsNumbers
<1>6. CASE CommitUnacknowledged(c) /\ mode.nested
    <2> DEFINE k == [call[c] EXCEPT !.pc = "unknown", !.written = Empty, !.snapshot = <<>>]
    <2>1. Proceeds(c, k) /\ chain' = Over(chain, call[c].written)
        BY <1>6 DEF CommitUnacknowledged
    <2>2. /\ k.written = Empty /\ k.seen = call[c].seen /\ k.base = call[c].base
          /\ k.snapshot = <<>>
        BY <1>0 DEF CallFields
    <2> HIDE DEF k
    <2> QED
        BY <2>1, <2>2, EndingKeepsNumbers
<1>7. CASE CommitUnacknowledged(c) /\ ~mode.nested
    <2>1. /\ Proceeds(c, AppendThrows(call[c], "unacknowledged"))
          /\ chain' = Over(chain, call[c].written)
        BY <1>7 DEF CommitUnacknowledged
    <2> QED
        BY <2>1, ThrowingEnds, EndingKeepsNumbers
<1> QED
    BY <1>1, <1>2, <1>3, <1>4, <1>5, <1>6, <1>7 DEF AppendStep

-----------------------------------------------------------------------------
\* RecordedOnce is an invariant

LEMMA OnceInit == Init => OnceInv
<1> SUFFICES ASSUME Init PROVE OnceInv
    OBVIOUS
<1>1. Shapes
    BY DEF Init, Shapes, CallFields, BackfillFields, Working
<1>2. CallHolds /\ BackfillHolds /\ ChainedOnce
    BY EmptyIs DEF Init, CallHolds, BackfillHolds, ChainedOnce, Copies
<1>3. WritesOnce
    BY EmptyIs DEF Init, WritesOnce, OnceIn, Recorded
<1> QED
    BY <1>1, <1>2, <1>3 DEF OnceInv

\* A step that gives numbers back, or leaves them, keeps every hold.
LEMMA ReleasingKeepsHolds ==
    ASSUME OnceInv, chain' = chain,
           \A c \in Call : DOMAIN call'[c].written \subseteq DOMAIN call[c].written,
           \A b \in Backfiller : DOMAIN backfill'[b].written \subseteq DOMAIN backfill[b].written,
           \A b \in Backfiller : backfill'[b].pc = "hold" =>
                backfill[b].pc = "hold" /\ backfill'[b].written = backfill[b].written
    PROVE  CallHolds' /\ BackfillHolds'
<1>1. CallHolds'
    BY DEF OnceInv, CallHolds, HeldByOthers
<1>2. BackfillHolds'
    <2> SUFFICES ASSUME NEW b \in Backfiller, backfill'[b].pc = "hold"
                 PROVE  /\ \A o \in Backfiller \ {b} : backfill'[o].pc # "hold"
                        /\ \A s \in DOMAIN backfill'[b].written :
                             /\ backfill'[b].written[s].id \in LegacyIds
                             /\ s \in DOMAIN chain => chain[s].id = backfill'[b].written[s].id
        BY DEF BackfillHolds
    <2>1. backfill[b].pc = "hold" /\ backfill'[b].written = backfill[b].written
        OBVIOUS
    <2> QED
        BY <2>1 DEF OnceInv, BackfillHolds
<1> QED
    BY <1>1, <1>2

\* A step of one call that commits nothing and does not claim to have.
LEMMA CallStepKeepsOnce ==
    ASSUME OnceInv, NEW c \in Call, NEW k, Proceeds(c, k), chain' = chain,
           DOMAIN k = CallFields, k.entry \in Nat \ {0}, k.attempts \in Nat,
           ~mode.nested => k.entry = 1,
           call[c].pc \in Working,
           k.pc \in Working \cup {"failed", "contention"},
           k.pc \notin Working => k.written = Empty /\ k.snapshot = <<>>,
           k.pc \in Working => OnceIn(c, k),
           CallHolds', BackfillHolds'
    PROVE  OnceInv'
<1>1. /\ DOMAIN call' = Call /\ call'[c] = k
      /\ \A d \in Call \ {c} : call'[d] = call[d]
      /\ mode' = mode /\ legacy' = legacy /\ backfill' = backfill
    BY ProceedsMoves DEF OnceInv
<1>2. Shapes'
    <2>1. \A d \in Call \ {c} :
            /\ DOMAIN call'[d] = CallFields
            /\ call'[d].pc \in Working \cup {"done", "failed", "contention", "unknown"}
            /\ call'[d].entry \in Nat \ {0}
            /\ call'[d].attempts \in Nat
            /\ ~mode.nested => call'[d].entry = 1
            /\ call'[d].pc \notin Working => call'[d].written = Empty /\ call'[d].snapshot = <<>>
        BY <1>1 DEF OnceInv, Shapes
    <2> QED
        BY <1>1, <2>1 DEF OnceInv, Shapes
<1>3. WritesOnce'
    <2> SUFFICES ASSUME NEW d \in Call, call'[d].pc \in Working PROVE OnceIn(d, call'[d])
        BY DEF WritesOnce
    <2> QED
        BY <1>1 DEF OnceInv, WritesOnce
<1>4. ChainedOnce'
    <2> SUFFICES ASSUME NEW d \in Call, NEW n \in Nat \ {0}
                 PROVE  /\ \A s, t \in Copies(d, n)' : s = t
                        /\ call'[d].pc = "done" /\ n <= call'[d].entry => Copies(d, n)' # {}
                        /\ call'[d].pc \notin {"done", "unknown"} => Copies(d, n)' = {}
        BY DEF ChainedOnce
    <2>0. Copies(d, n)' = Copies(d, n)
        BY DEF Copies
    <2>1. CASE d # c
        BY <1>1, <2>0, <2>1 DEF OnceInv, ChainedOnce
    <2>2. CASE d = c
        BY <1>1, <2>0, <2>2 DEF OnceInv, ChainedOnce, Working
    <2> QED
        BY <2>1, <2>2
<1> QED
    BY <1>2, <1>3, <1>4 DEF OnceInv

LEMMA ReadLatestKeepsOnce == ASSUME OnceInv, NEW c \in Call, ReadLatest(c) PROVE OnceInv'
<1> DEFINE fixed == mode.nested /\ mode.retry = "snapshot" /\ call[c].snapshot = <<>>
           k == [call[c] EXCEPT
                   !.pc = "insert",
                   !.seen = Latest(View(c)),
                   !.base = IF call[c].attempts = 0 THEN Latest(chain).sequence ELSE @,
                   !.snapshot = IF fixed THEN <<chain>> ELSE @]
<1>1. Proceeds(c, k) /\ chain' = chain /\ call[c].pc = "read"
    BY DEF ReadLatest
<1>2. DOMAIN call[c] = CallFields
    BY DEF OnceInv, Shapes
<1>3. /\ DOMAIN k = CallFields /\ k.pc = "insert" /\ k.entry = call[c].entry
      /\ k.attempts = call[c].attempts /\ k.written = call[c].written
    BY <1>2 DEF CallFields
<1> HIDE DEF k
<1>4. CallHolds' /\ BackfillHolds'
    BY <1>1, <1>3, ReleasingKeepsHolds, ProceedsMoves DEF OnceInv
<1>5. OnceIn(c, k)
    BY <1>1, <1>3 DEF OnceInv, WritesOnce, OnceIn, Recorded, Working
<1> QED
    BY <1>1, <1>3, <1>4, <1>5, CallStepKeepsOnce DEF OnceInv, Shapes, Working

LEMMA LogAnotherKeepsOnce == ASSUME OnceInv, NEW c \in Call, LogAnother(c) PROVE OnceInv'
<1> DEFINE k == [call[c] EXCEPT !.pc = "read", !.entry = @ + 1, !.attempts = 0]
<1>1. Proceeds(c, k) /\ chain' = chain /\ call[c].pc = "hold" /\ mode.nested
    BY DEF LogAnother
<1>2. DOMAIN call[c] = CallFields /\ call[c].entry \in Nat \ {0}
    BY DEF OnceInv, Shapes
<1>3. /\ DOMAIN k = CallFields /\ k.pc = "read" /\ k.entry = call[c].entry + 1
      /\ k.attempts = 0 /\ k.written = call[c].written
    BY <1>2 DEF CallFields
<1> HIDE DEF k
<1>4. CallHolds' /\ BackfillHolds'
    BY <1>1, <1>3, ReleasingKeepsHolds, ProceedsMoves DEF OnceInv
<1>5. OnceIn(c, k)
    <2>1. Recorded(k) = Recorded(call[c])
        BY <1>1, <1>2, <1>3 DEF Recorded
    <2> QED
        BY <1>1, <1>3, <2>1 DEF OnceInv, WritesOnce, OnceIn, Working
<1> QED
    BY <1>1, <1>2, <1>3, <1>4, <1>5, CallStepKeepsOnce DEF Working

\* An attempt that throws gives up, or starts over with what it wrote before.
LEMMA ThrowingKeepsOnce ==
    ASSUME OnceInv, NEW c \in Call, NEW error,
           Proceeds(c, AppendThrows(call[c], error)), chain' = chain,
           error # "unacknowledged", call[c].pc \in Working,
           error = "unique" => call[c].pc = "insert"
    PROVE  OnceInv'
<1> DEFINE k == AppendThrows(call[c], error)
<1>1. Proceeds(c, k)
    OBVIOUS
<1>2. DOMAIN call[c] = CallFields /\ call[c].entry \in Nat \ {0} /\ call[c].attempts \in Nat
    BY DEF OnceInv, Shapes
<1>3. ~mode.nested => call[c].entry = 1
    BY DEF OnceInv, Shapes
<1>4. /\ DOMAIN k = CallFields
      /\ k.entry = call[c].entry /\ k.base = call[c].base
      /\ error # "unique" =>
            k.pc = "failed" /\ k.written = Empty /\ k.snapshot = <<>> /\ k.attempts = call[c].attempts
      /\ error = "unique" =>
            /\ k.attempts = call[c].attempts + 1
            /\ \/ k.pc = "read" /\ k.written = IF mode.nested THEN call[c].written ELSE Empty
               \/ k.pc = "contention" /\ k.written = Empty /\ k.snapshot = <<>>
    BY <1>2, AppendThrowsIs
<1> HIDE DEF k
<1>5. DOMAIN k.written \subseteq DOMAIN call[c].written
    BY <1>4, EmptyIs
<1>6. CallHolds' /\ BackfillHolds'
    BY <1>1, <1>5, ReleasingKeepsHolds, ProceedsMoves DEF OnceInv
<1>7. k.pc \in Working => OnceIn(c, k)
    <2> SUFFICES ASSUME k.pc \in Working PROVE OnceIn(c, k)
        OBVIOUS
    <2>1. error = "unique" /\ k.pc = "read" /\ k.written = IF mode.nested THEN call[c].written ELSE Empty
        BY <1>4 DEF Working
    <2>2. OnceIn(c, call[c]) /\ Recorded(call[c]) = call[c].entry - 1
        BY <2>1 DEF OnceInv, WritesOnce, Recorded, Working
    <2>3. CASE mode.nested
        BY <1>4, <2>1, <2>2, <2>3 DEF OnceIn, Recorded
    <2>4. CASE ~mode.nested
        BY <1>3, <1>4, <2>1, <2>4, EmptyIs DEF OnceIn, Recorded
    <2> QED
        BY <2>3, <2>4
<1>8. k.pc \in {"read", "failed", "contention"} /\ k.attempts \in Nat
    BY <1>2, <1>4
<1>9. k.pc \notin Working => k.written = Empty /\ k.snapshot = <<>>
    BY <1>4 DEF Working
<1> QED
    BY <1>1, <1>2, <1>3, <1>4, <1>6, <1>7, <1>8, <1>9, CallStepKeepsOnce DEF Working

LEMMA CollideKeepsOnce == ASSUME OnceInv, NEW c \in Call, Collide(c) PROVE OnceInv'
BY ThrowingKeepsOnce DEF Collide, Working

LEMMA RetryInAbortedKeepsOnce == ASSUME OnceInv, NEW c \in Call, RetryInAborted(c) PROVE OnceInv'
BY ThrowingKeepsOnce DEF RetryInAborted, Working

LEMMA RollBackKeepsOnce == ASSUME OnceInv, NEW c \in Call, RollBack(c) PROVE OnceInv'
BY ThrowingKeepsOnce DEF RollBack, Working

\* The insert takes a number nobody else has.
LEMMA InsertKeepsOnce == ASSUME OnceInv, NEW c \in Call, Insert(c) PROVE OnceInv'
<1> DEFINE s0 == call[c].seen.sequence + 1
           row == NewRow(call[c].seen, <<c, call[c].entry>>)
           k == [call[c] EXCEPT !.pc = "hold", !.written = Over(@, [n \in {s0} |-> row])]
<1>1. /\ Proceeds(c, k) /\ chain' = chain /\ call[c].pc = "insert"
      /\ s0 \notin DOMAIN chain \cup DOMAIN call[c].written /\ ~HeldByOthers(s0, c)
    BY DEF Insert
<1>2. DOMAIN call[c] = CallFields /\ call[c].entry \in Nat \ {0} /\ call[c].attempts \in Nat
      /\ (~mode.nested => call[c].entry = 1)
    BY DEF OnceInv, Shapes
<1>3. /\ DOMAIN k = CallFields /\ k.pc = "hold" /\ k.entry = call[c].entry
      /\ k.attempts = call[c].attempts /\ k.written = Over(call[c].written, [n \in {s0} |-> row])
    BY <1>2 DEF CallFields
<1>4. row.id = <<c, call[c].entry>>
    BY DEF NewRow
<1> HIDE DEF k, row, s0
<1>5. /\ DOMAIN k.written = DOMAIN call[c].written \cup {s0}
      /\ k.written[s0].id = <<c, call[c].entry>>
      /\ \A s \in DOMAIN call[c].written \ {s0} : k.written[s] = call[c].written[s]
    BY <1>3, <1>4 DEF Over
<1>6. /\ DOMAIN call' = Call /\ call'[c] = k
      /\ \A d \in Call \ {c} : call'[d] = call[d]
      /\ mode' = mode /\ legacy' = legacy /\ backfill' = backfill
    BY <1>1, ProceedsMoves DEF OnceInv
<1>7. CallHolds'
    <2> SUFFICES ASSUME NEW d \in Call, NEW s \in DOMAIN call'[d].written
                 PROVE  s \notin DOMAIN chain /\ ~HeldByOthers(s, d)'
        BY <1>1 DEF CallHolds
    <2>1. CASE d # c /\ s = s0
        <3>1. d \in Call \ {c} /\ s0 \in DOMAIN call[d].written
            BY <1>6, <2>1
        <3> QED
            BY <1>1, <3>1 DEF HeldByOthers
    <2>2. CASE d # c /\ s # s0
        BY <1>5, <1>6, <2>2 DEF OnceInv, CallHolds, HeldByOthers
    <2>3. CASE d = c /\ s = s0
        BY <1>1, <1>6, <2>3 DEF HeldByOthers
    <2>4. CASE d = c /\ s # s0
        BY <1>5, <1>6, <2>4 DEF OnceInv, CallHolds, HeldByOthers
    <2> QED
        BY <2>1, <2>2, <2>3, <2>4
<1>8. BackfillHolds'
    BY <1>1, <1>6 DEF OnceInv, BackfillHolds
<1>9. OnceIn(c, k)
    <2>1. OnceIn(c, call[c]) /\ Recorded(call[c]) = call[c].entry - 1
        BY <1>1 DEF OnceInv, WritesOnce, Recorded, Working
    <2>2. Recorded(k) = call[c].entry
        BY <1>3 DEF Recorded
    <2>3. \A s \in DOMAIN k.written : \E n \in 1 .. Recorded(k) : k.written[s].id = <<c, n>>
        BY <1>2, <1>5, <2>1, <2>2 DEF OnceIn
    <2>4. \A n \in 1 .. Recorded(k) : \E s \in DOMAIN k.written : k.written[s].id = <<c, n>>
        <3> SUFFICES ASSUME NEW n \in 1 .. Recorded(k)
                     PROVE  \E s \in DOMAIN k.written : k.written[s].id = <<c, n>>
            OBVIOUS
        <3>1. CASE n = call[c].entry
            BY <1>5, <3>1
        <3>2. CASE n # call[c].entry
            <4>1. n \in 1 .. Recorded(call[c])
                BY <1>2, <2>1, <2>2, <3>2
            <4>2. PICK s \in DOMAIN call[c].written : call[c].written[s].id = <<c, n>>
                BY <2>1, <4>1 DEF OnceIn
            <4> QED
                BY <1>1, <1>5, <4>2
        <3> QED
            BY <3>1, <3>2
    <2>5. \A s \in DOMAIN call[c].written : k.written[s] = call[c].written[s] /\ s # s0
        BY <1>1, <1>5
    <2>6. \A s \in DOMAIN call[c].written : k.written[s].id # k.written[s0].id
        <3> SUFFICES ASSUME NEW s \in DOMAIN call[c].written, k.written[s].id = k.written[s0].id
                     PROVE  FALSE
            OBVIOUS
        <3>1. PICK n \in 1 .. Recorded(call[c]) : call[c].written[s].id = <<c, n>>
            BY <2>1 DEF OnceIn
        <3> QED
            BY <1>2, <1>5, <2>1, <2>5, <3>1
    <2>7. \A s, t \in DOMAIN k.written : k.written[s].id = k.written[t].id => s = t
        BY <1>5, <2>1, <2>5, <2>6 DEF OnceIn
    <2> QED
        BY <2>3, <2>4, <2>7 DEF OnceIn
<1> QED
    BY <1>1, <1>2, <1>3, <1>6, <1>7, <1>8, <1>9, CallStepKeepsOnce DEF Working

\* A commit adds exactly what its transaction wrote.
LEMMA CommittingKeepsOnce ==
    ASSUME OnceInv, NEW c \in Call, NEW k, Proceeds(c, k),
           chain' = Over(chain, call[c].written), call[c].pc = "hold",
           DOMAIN k = CallFields, k.entry = call[c].entry, k.attempts \in Nat,
           k.pc \in {"done", "unknown"}, k.written = Empty, k.snapshot = <<>>
    PROVE  OnceInv'
<1> DEFINE W == call[c].written
<1>1. /\ DOMAIN call' = Call /\ call'[c] = k
      /\ \A d \in Call \ {c} : call'[d] = call[d]
      /\ mode' = mode /\ legacy' = legacy /\ backfill' = backfill
    BY ProceedsMoves DEF OnceInv
<1>2. /\ DOMAIN chain' = DOMAIN chain \cup DOMAIN W
      /\ \A s \in DOMAIN W : chain'[s] = W[s]
      /\ \A s \in DOMAIN chain \ DOMAIN W : chain'[s] = chain[s]
    BY DEF Over
<1>3. \A s \in DOMAIN W : s \notin DOMAIN chain /\ ~HeldByOthers(s, c)
    BY DEF OnceInv, CallHolds
<1>4. OnceIn(c, call[c]) /\ Recorded(call[c]) = call[c].entry
    BY DEF OnceInv, WritesOnce, Recorded, Working
<1>5. Shapes'
    <2>1. \A d \in Call \ {c} :
            /\ DOMAIN call'[d] = CallFields
            /\ call'[d].pc \in Working \cup {"done", "failed", "contention", "unknown"}
            /\ call'[d].entry \in Nat \ {0}
            /\ call'[d].attempts \in Nat
            /\ ~mode.nested => call'[d].entry = 1
            /\ call'[d].pc \notin Working => call'[d].written = Empty /\ call'[d].snapshot = <<>>
        BY <1>1 DEF OnceInv, Shapes
    <2> QED
        BY <1>1, <2>1 DEF OnceInv, Shapes
<1>6. CallHolds'
    <2> SUFFICES ASSUME NEW d \in Call, NEW s \in DOMAIN call'[d].written
                 PROVE  s \notin DOMAIN chain' /\ ~HeldByOthers(s, d)'
        BY DEF CallHolds
    <2>1. d # c
        BY <1>1, EmptyIs
    <2>2. s \in DOMAIN call[d].written
        BY <1>1, <2>1
    <2>3. s \notin DOMAIN chain /\ ~HeldByOthers(s, d)
        BY <2>2 DEF OnceInv, CallHolds
    <2>4. s \notin DOMAIN W
        BY <2>1, <2>3 DEF HeldByOthers
    <2>5. ~HeldByOthers(s, d)'
        BY <1>1, <2>3, EmptyIs DEF HeldByOthers
    <2> QED
        BY <1>2, <2>3, <2>4, <2>5
<1>7. BackfillHolds'
    <2> SUFFICES ASSUME NEW b \in Backfiller, backfill[b].pc = "hold",
                        NEW s \in DOMAIN backfill[b].written, s \in DOMAIN chain'
                 PROVE  chain'[s].id = backfill[b].written[s].id
        BY <1>1 DEF OnceInv, BackfillHolds
    <2>1. b # c
        BY AuditAssumption
    <2>2. s \notin DOMAIN W
        BY <1>3, <2>1 DEF HeldByOthers
    <2> QED
        BY <1>2, <2>2 DEF OnceInv, BackfillHolds
<1>8. WritesOnce'
    <2> SUFFICES ASSUME NEW d \in Call, call'[d].pc \in Working PROVE OnceIn(d, call'[d])
        BY DEF WritesOnce
    <2> QED
        BY <1>1 DEF OnceInv, WritesOnce, Working
<1>9. ChainedOnce'
    <2> SUFFICES ASSUME NEW d \in Call, NEW n \in Nat \ {0}
                 PROVE  /\ \A s, t \in Copies(d, n)' : s = t
                        /\ call'[d].pc = "done" /\ n <= call'[d].entry => Copies(d, n)' # {}
                        /\ call'[d].pc \notin {"done", "unknown"} => Copies(d, n)' = {}
        BY DEF ChainedOnce
    <2>0. Copies(d, n)' = {s \in DOMAIN chain' : chain'[s].id = <<d, n>>}
        BY DEF Copies
    <2>1. CASE d # c
        <3>1. \A s \in DOMAIN W : W[s].id # <<d, n>>
            BY <1>4, <2>1 DEF OnceIn
        <3>2. Copies(d, n)' = Copies(d, n)
            BY <1>2, <1>3, <2>0, <3>1 DEF Copies
        <3> QED
            BY <1>1, <2>1, <3>2 DEF OnceInv, ChainedOnce
    <2>2. CASE d = c
        <3>1. Copies(c, n) = {}
            BY DEF OnceInv, ChainedOnce
        <3>2. Copies(c, n)' = {s \in DOMAIN W : W[s].id = <<c, n>>}
            BY <1>2, <1>3, <2>0, <2>2, <3>1 DEF Copies
        <3>3. \A s, t \in Copies(c, n)' : s = t
            BY <1>4, <3>2 DEF OnceIn
        <3>4. n <= k.entry => Copies(c, n)' # {}
            <4> SUFFICES ASSUME n <= k.entry PROVE Copies(c, n)' # {}
                OBVIOUS
            <4>1. n \in 1 .. call[c].entry
                BY DEF OnceInv, Shapes
            <4>2. \E s \in DOMAIN W : W[s].id = <<c, n>>
                BY <1>4, <4>1 DEF OnceIn
            <4> QED
                BY <3>2, <4>2
        <3> QED
            BY <1>1, <2>2, <3>3, <3>4
    <2> QED
        BY <2>1, <2>2
<1> QED
    BY <1>5, <1>6, <1>7, <1>8, <1>9 DEF OnceInv

LEMMA CommitKeepsOnce == ASSUME OnceInv, NEW c \in Call, Commit(c) PROVE OnceInv'
<1> DEFINE k == [call[c] EXCEPT !.pc = "done", !.written = Empty, !.snapshot = <<>>]
<1>1. Proceeds(c, k) /\ chain' = Over(chain, call[c].written) /\ call[c].pc = "hold"
    BY DEF Commit
<1>2. DOMAIN call[c] = CallFields /\ call[c].attempts \in Nat
    BY DEF OnceInv, Shapes
<1>3. /\ DOMAIN k = CallFields /\ k.pc = "done" /\ k.written = Empty /\ k.snapshot = <<>>
      /\ k.entry = call[c].entry /\ k.attempts = call[c].attempts
    BY <1>2 DEF CallFields
<1> HIDE DEF k
<1> QED
    BY <1>1, <1>2, <1>3, CommittingKeepsOnce

LEMMA CommitUnacknowledgedKeepsOnce ==
    ASSUME OnceInv, NEW c \in Call, CommitUnacknowledged(c) PROVE OnceInv'
<1>0. DOMAIN call[c] = CallFields /\ call[c].attempts \in Nat
    BY DEF OnceInv, Shapes
<1>1. CASE mode.nested
    <2> DEFINE k == [call[c] EXCEPT !.pc = "unknown", !.written = Empty, !.snapshot = <<>>]
    <2>1. Proceeds(c, k) /\ chain' = Over(chain, call[c].written) /\ call[c].pc = "hold"
        BY <1>1 DEF CommitUnacknowledged
    <2>3. /\ DOMAIN k = CallFields /\ k.pc = "unknown" /\ k.written = Empty /\ k.snapshot = <<>>
          /\ k.entry = call[c].entry /\ k.attempts = call[c].attempts
        BY <1>0 DEF CallFields
    <2> HIDE DEF k
    <2> QED
        BY <1>0, <2>1, <2>3, CommittingKeepsOnce
<1>2. CASE ~mode.nested
    <2> DEFINE k == AppendThrows(call[c], "unacknowledged")
    <2>1. Proceeds(c, k) /\ chain' = Over(chain, call[c].written) /\ call[c].pc = "hold"
        BY <1>2 DEF CommitUnacknowledged
    <2>3. /\ DOMAIN k = CallFields /\ k.pc = "unknown" /\ k.written = Empty /\ k.snapshot = <<>>
          /\ k.entry = call[c].entry /\ k.attempts = call[c].attempts
        BY <1>0, AppendThrowsIs
    <2> HIDE DEF k
    <2> QED
        BY <1>0, <2>1, <2>3, CommittingKeepsOnce
<1> QED
    BY <1>1, <1>2

\* A step of a backfill that commits nothing and takes no number.
LEMMA BackfillStepKeepsOnce ==
    ASSUME OnceInv, NEW b \in Backfiller, NEW k, BackfillProceeds(b, k),
           chain' = chain, legacy' = legacy,
           DOMAIN k = BackfillFields, k.batch \in {<<>>, Legacy},
           k.pc # "hold", k.written = Empty
    PROVE  OnceInv'
<1>1. /\ DOMAIN backfill' = Backfiller /\ backfill'[b] = k
      /\ \A o \in Backfiller \ {b} : backfill'[o] = backfill[o]
      /\ mode' = mode /\ call' = call
    BY BackfillProceedsMoves DEF OnceInv
<1>2. Shapes'
    BY <1>1 DEF OnceInv, Shapes
<1>3. CallHolds' /\ BackfillHolds'
    <2>1. \A o \in Backfiller : DOMAIN backfill'[o].written \subseteq DOMAIN backfill[o].written
        BY <1>1, EmptyIs
    <2>2. \A o \in Backfiller : backfill'[o].pc = "hold" =>
            backfill[o].pc = "hold" /\ backfill'[o].written = backfill[o].written
        BY <1>1
    <2>3. \A c \in Call : DOMAIN call'[c].written \subseteq DOMAIN call[c].written
        BY <1>1
    <2> QED
        BY <2>1, <2>2, <2>3, ReleasingKeepsHolds
<1>4. WritesOnce'
    BY <1>1 DEF OnceInv, WritesOnce
<1>5. ChainedOnce'
    <2>1. \A c \in Call, n \in Nat \ {0} : Copies(c, n)' = Copies(c, n)
        BY DEF Copies
    <2> QED
        BY <1>1, <2>1 DEF OnceInv, ChainedOnce
<1> QED
    BY <1>2, <1>3, <1>4, <1>5 DEF OnceInv

LEMMA ReadLegacyKeepsOnce == ASSUME OnceInv, NEW b \in Backfiller, ReadLegacy(b) PROVE OnceInv'
<1> DEFINE k == [backfill[b] EXCEPT !.batch = legacy, !.pc = IF legacy = <<>> THEN "done" ELSE "latest"]
<1>1. BackfillProceeds(b, k) /\ chain' = chain /\ legacy' = legacy /\ backfill[b].pc = "idle"
    BY DEF ReadLegacy
<1>2. DOMAIN backfill[b] = BackfillFields /\ legacy \in {<<>>, Legacy} /\ backfill[b].written = Empty
    BY <1>1 DEF OnceInv, Shapes
<1>3. /\ DOMAIN k = BackfillFields /\ k.batch = legacy /\ k.pc # "hold"
      /\ k.written = Empty
    BY <1>2 DEF BackfillFields
<1> HIDE DEF k
<1> QED
    BY <1>1, <1>2, <1>3, BackfillStepKeepsOnce

LEMMA ReadLatestForBackfillKeepsOnce ==
    ASSUME OnceInv, NEW b \in Backfiller, ReadLatestForBackfill(b) PROVE OnceInv'
<1> DEFINE k == [backfill[b] EXCEPT !.seen = Latest(chain), !.pc = "update"]
<1>1. BackfillProceeds(b, k) /\ chain' = chain /\ legacy' = legacy /\ backfill[b].pc = "latest"
    BY DEF ReadLatestForBackfill
<1>2. /\ DOMAIN backfill[b] = BackfillFields /\ backfill[b].written = Empty
      /\ backfill[b].batch \in {<<>>, Legacy}
    BY <1>1 DEF OnceInv, Shapes
<1>3. /\ DOMAIN k = BackfillFields /\ k.batch = backfill[b].batch /\ k.pc = "update"
      /\ k.written = Empty
    BY <1>2 DEF BackfillFields
<1> HIDE DEF k
<1> QED
    BY <1>1, <1>2, <1>3, BackfillStepKeepsOnce

LEMMA BackfillFailsKeepsOnce == ASSUME OnceInv, NEW b \in Backfiller, BackfillFails(b) PROVE OnceInv'
<1> DEFINE k == [backfill[b] EXCEPT !.pc = "failed", !.written = Empty]
<1>1. BackfillProceeds(b, k) /\ chain' = chain /\ legacy' = legacy
    BY DEF BackfillFails
<1>2. DOMAIN backfill[b] = BackfillFields /\ backfill[b].batch \in {<<>>, Legacy}
    BY DEF OnceInv, Shapes
<1>3. /\ DOMAIN k = BackfillFields /\ k.batch = backfill[b].batch /\ k.pc = "failed"
      /\ k.written = Empty
    BY <1>2 DEF BackfillFields
<1> HIDE DEF k
<1> QED
    BY <1>1, <1>2, <1>3, BackfillStepKeepsOnce

\* What the backfill writes: the entries of its batch.
LEMMA RenumberedIds ==
    ASSUME NEW head, head.sequence \in Nat, NEW batch \in {<<>>, Legacy},
           NEW s \in DOMAIN Renumbered(head, batch)
    PROVE  /\ s \in Nat /\ head.sequence + 1 <= s /\ s <= head.sequence + Len(batch)
           /\ Renumbered(head, batch)[s].id \in LegacyIds
           /\ Len(batch) \in Nat
           /\ s - head.sequence \in DOMAIN batch
           /\ Renumbered(head, batch)[s].id = batch[s - head.sequence]
<1>1. s \in head.sequence + 1 .. head.sequence + Len(batch)
    BY DEF Renumbered
<1>2. batch = Legacy
    <2>1. CASE batch = <<>>
        BY <1>1, <2>1
    <2> QED
        BY <2>1
<1>3. Legacy \in Seq(LegacyIds)
    BY AuditAssumption DEF LegacyIds
<1>4. Len(batch) \in Nat /\ DOMAIN batch = 1 .. Len(batch)
    BY <1>2, <1>3
<1>5. s - head.sequence \in DOMAIN batch
    BY <1>1, <1>4
<1>6. Renumbered(head, batch)[s].id = batch[s - head.sequence]
    BY <1>1 DEF Renumbered
<1>7. batch[s - head.sequence] \in LegacyIds
    BY <1>2, <1>5 DEF LegacyIds
<1> QED
    BY <1>1, <1>4, <1>5, <1>6, <1>7

LEMMA RenumberKeepsOnce ==
    ASSUME OnceInv, Numbers, NEW b \in Backfiller, Renumber(b) PROVE OnceInv'
<1> DEFINE rows == Renumbered(backfill[b].seen, backfill[b].batch)
           taken == \E s \in DOMAIN rows \cap DOMAIN chain : chain[s].id # rows[s].id
<1>1. /\ backfill[b].pc = "update" /\ chain' = chain /\ legacy' = legacy
      /\ \A s \in DOMAIN rows : ~HeldByOthers(s, b)
      /\ \A o \in Backfiller \ {b} : backfill[o].pc # "hold"
    BY DEF Renumber
<1>2. /\ DOMAIN backfill[b] = BackfillFields /\ backfill[b].written = Empty
      /\ backfill[b].batch \in {<<>>, Legacy} /\ backfill[b].seen.sequence \in Nat
    BY <1>1 DEF OnceInv, Shapes, Numbers
<1>3. CASE taken
    <2> DEFINE k == [backfill[b] EXCEPT !.pc = "failed"]
    <2>1. BackfillProceeds(b, k)
        BY <1>3 DEF Renumber
    <2>2. /\ DOMAIN k = BackfillFields /\ k.batch = backfill[b].batch /\ k.pc = "failed"
          /\ k.written = Empty
        BY <1>2 DEF BackfillFields
    <2> HIDE DEF k
    <2> QED
        BY <1>1, <1>2, <2>1, <2>2, BackfillStepKeepsOnce
<1>4. CASE ~taken
    <2> DEFINE k == [backfill[b] EXCEPT !.pc = "hold", !.written = rows]
    <2>1. BackfillProceeds(b, k)
        BY <1>4 DEF Renumber
    <2>2. /\ DOMAIN k = BackfillFields /\ k.batch = backfill[b].batch /\ k.pc = "hold"
          /\ k.written = rows
        BY <1>2 DEF BackfillFields
    <2>3. \A s \in DOMAIN rows : rows[s].id \in LegacyIds
        BY <1>2, RenumberedIds
    <2>4. \A s \in DOMAIN rows : s \in DOMAIN chain => chain[s].id = rows[s].id
        BY <1>4
    <2> HIDE DEF k, rows
    <2>5. /\ DOMAIN backfill' = Backfiller /\ backfill'[b] = k
          /\ \A o \in Backfiller \ {b} : backfill'[o] = backfill[o]
          /\ mode' = mode /\ call' = call
        BY <2>1, BackfillProceedsMoves DEF OnceInv
    <2>6. Shapes'
        BY <1>1, <1>2, <2>2, <2>5 DEF OnceInv, Shapes
    <2>7. CallHolds'
        <3> SUFFICES ASSUME NEW c \in Call, NEW s \in DOMAIN call[c].written
                     PROVE  s \notin DOMAIN chain /\ ~HeldByOthers(s, c)'
            BY <1>1, <2>5 DEF CallHolds
        <3>1. s \notin DOMAIN chain /\ ~HeldByOthers(s, c)
            BY DEF OnceInv, CallHolds
        <3>2. c # b
            BY AuditAssumption
        <3>3. s \notin DOMAIN rows
            BY <1>1, <3>2 DEF HeldByOthers
        <3>4. \A o \in Backfiller \ {c} : s \notin DOMAIN backfill'[o].written
            BY <2>2, <2>5, <3>1, <3>3 DEF HeldByOthers
        <3> QED
            BY <2>5, <3>1, <3>4 DEF HeldByOthers
    <2>8. BackfillHolds'
        BY <1>1, <2>2, <2>3, <2>4, <2>5 DEF BackfillHolds
    <2>9. WritesOnce'
        BY <2>5 DEF OnceInv, WritesOnce
    <2>10. ChainedOnce'
        <3>1. \A c \in Call, n \in Nat \ {0} : Copies(c, n)' = Copies(c, n)
            BY <1>1 DEF Copies
        <3> QED
            BY <2>5, <3>1 DEF OnceInv, ChainedOnce
    <2> QED
        BY <2>6, <2>7, <2>8, <2>9, <2>10 DEF OnceInv
<1> QED
    BY <1>3, <1>4

\* The commit of a backfill moves entries of older versions, none of a call.
LEMMA CommitBackfillKeepsOnce ==
    ASSUME OnceInv, NEW b \in Backfiller, CommitBackfill(b) PROVE OnceInv'
<1> DEFINE batch == {backfill[b].batch[i] : i \in DOMAIN backfill[b].batch}
           kept == [s \in {r \in DOMAIN chain : chain[r].id \notin batch} |-> chain[s]]
           W == backfill[b].written
           k == [backfill[b] EXCEPT !.pc = "done", !.written = Empty]
<1>1. /\ backfill[b].pc = "hold" /\ chain' = Over(kept, W) /\ legacy' = <<>>
      /\ BackfillProceeds(b, k)
    BY DEF CommitBackfill
<1>2. DOMAIN backfill[b] = BackfillFields /\ backfill[b].batch \in {<<>>, Legacy}
    BY DEF OnceInv, Shapes
<1>3. /\ DOMAIN k = BackfillFields /\ k.batch = backfill[b].batch /\ k.pc = "done"
      /\ k.written = Empty
    BY <1>2 DEF BackfillFields
<1>4. batch \subseteq LegacyIds
    BY <1>2 DEF LegacyIds
<1>5. /\ DOMAIN kept \subseteq DOMAIN chain
      /\ \A s \in DOMAIN kept : kept[s] = chain[s]
      /\ \A s \in DOMAIN chain : chain[s].id \notin LegacyIds => s \in DOMAIN kept
    BY <1>4
<1> HIDE DEF k, kept, batch
<1>6. /\ DOMAIN chain' = DOMAIN kept \cup DOMAIN W
      /\ \A s \in DOMAIN W : chain'[s] = W[s]
      /\ \A s \in DOMAIN kept \ DOMAIN W : chain'[s] = chain[s]
    BY <1>1, <1>5 DEF Over
<1>7. /\ \A o \in Backfiller \ {b} : backfill[o].pc # "hold"
      /\ \A s \in DOMAIN W : W[s].id \in LegacyIds /\ (s \in DOMAIN chain => chain[s].id = W[s].id)
    BY <1>1 DEF OnceInv, BackfillHolds
<1>8. /\ DOMAIN backfill' = Backfiller /\ backfill'[b] = k
      /\ \A o \in Backfiller \ {b} : backfill'[o] = backfill[o]
      /\ mode' = mode /\ call' = call
    BY <1>1, BackfillProceedsMoves DEF OnceInv
<1>9. Shapes'
    BY <1>1, <1>2, <1>3, <1>8 DEF OnceInv, Shapes
<1>10. CallHolds'
    <2> SUFFICES ASSUME NEW c \in Call, NEW s \in DOMAIN call[c].written
                 PROVE  s \notin DOMAIN chain' /\ ~HeldByOthers(s, c)'
        BY <1>8 DEF CallHolds
    <2>1. s \notin DOMAIN chain /\ ~HeldByOthers(s, c)
        BY DEF OnceInv, CallHolds
    <2>2. c # b
        BY AuditAssumption
    <2>3. s \notin DOMAIN W
        BY <2>1, <2>2 DEF HeldByOthers
    <2>4. \A o \in Backfiller \ {c} : s \notin DOMAIN backfill'[o].written
        BY <1>3, <1>8, <2>1, EmptyIs DEF HeldByOthers
    <2>5. ~HeldByOthers(s, c)'
        BY <1>8, <2>1, <2>4 DEF HeldByOthers
    <2> QED
        BY <1>5, <1>6, <2>1, <2>3, <2>5
<1>11. BackfillHolds'
    BY <1>3, <1>7, <1>8 DEF BackfillHolds
<1>12. WritesOnce'
    BY <1>8 DEF OnceInv, WritesOnce
<1>13. ChainedOnce'
    <2>1. ASSUME NEW c \in Call, NEW n \in Nat \ {0} PROVE Copies(c, n)' = Copies(c, n)
        <3>1. <<c, n>> \notin LegacyIds
            BY <2>1, AuditAssumption DEF LegacyIds
        <3>2. \A s \in DOMAIN W : W[s].id # <<c, n>> /\ (s \in DOMAIN chain => chain[s].id # <<c, n>>)
            BY <1>7, <3>1
        <3>3. \A s \in DOMAIN chain : chain[s].id = <<c, n>> => s \in DOMAIN kept \ DOMAIN W
            BY <1>5, <3>1, <3>2
        <3>4. {s \in DOMAIN chain' : chain'[s].id = <<c, n>>} = {s \in DOMAIN chain : chain[s].id = <<c, n>>}
            BY <1>5, <1>6, <3>2, <3>3
        <3> QED
            BY <3>4 DEF Copies
    <2> QED
        BY <1>8, <2>1 DEF OnceInv, ChainedOnce
<1> QED
    BY <1>9, <1>10, <1>11, <1>12, <1>13 DEF OnceInv

LEMMA AppendKeepsOnce == ASSUME OnceInv, NEW c \in Call, AppendStep(c) PROVE OnceInv'
BY ReadLatestKeepsOnce, InsertKeepsOnce, CollideKeepsOnce, RetryInAbortedKeepsOnce,
   LogAnotherKeepsOnce, CommitKeepsOnce, CommitUnacknowledgedKeepsOnce, RollBackKeepsOnce
   DEF AppendStep

LEMMA BackfillKeepsOnce ==
    ASSUME OnceInv, Numbers, NEW b \in Backfiller, BackfillStep(b) PROVE OnceInv'
BY ReadLegacyKeepsOnce, ReadLatestForBackfillKeepsOnce, RenumberKeepsOnce,
   CommitBackfillKeepsOnce, BackfillFailsKeepsOnce DEF BackfillStep

\* A verification, and an edit of the content, move no entry.
LEMMA OtherKeepsOnce ==
    ASSUME OnceInv, UNCHANGED <<mode, chain, legacy, call, backfill>> PROVE OnceInv'
<1>1. Shapes'
    BY DEF OnceInv, Shapes
<1>2. CallHolds' /\ BackfillHolds'
    BY DEF OnceInv, CallHolds, BackfillHolds, HeldByOthers
<1>3. WritesOnce'
    BY DEF OnceInv, WritesOnce
<1>4. ChainedOnce'
    <2>1. \A c \in Call, n \in Nat \ {0} : Copies(c, n)' = Copies(c, n)
        BY DEF Copies
    <2> QED
        BY <2>1 DEF OnceInv, ChainedOnce
<1> QED
    BY <1>1, <1>2, <1>3, <1>4 DEF OnceInv

-----------------------------------------------------------------------------
\* The numbers a backfill gives

LEMMA BackfillStepKeepsNumbers ==
    ASSUME Shapes, Numbers, NEW b \in Backfiller, NEW k, BackfillProceeds(b, k),
           Numbered(chain'), Numbered(k.written), k.seen.sequence \in Nat
    PROVE  Numbers'
<1>1. /\ backfill'[b] = k /\ \A o \in Backfiller \ {b} : backfill'[o] = backfill[o]
      /\ call' = call
    BY BackfillProceedsMoves
<1>2. Numbered(chain)'
    BY DEF Numbered
<1>3. \A o \in Backfiller :
         Numbered(backfill'[o].written) /\ backfill'[o].seen.sequence \in Nat
    BY <1>1 DEF Numbers
<1> QED
    BY <1>1, <1>2, <1>3 DEF Numbers

LEMMA BackfillKeepsNumbers ==
    ASSUME Shapes, Numbers, NEW b \in Backfiller, BackfillStep(b) PROVE Numbers'
<1>0. /\ DOMAIN backfill[b] = BackfillFields /\ backfill[b].batch \in {<<>>, Legacy}
      /\ Numbered(chain) /\ Numbered(backfill[b].written) /\ backfill[b].seen.sequence \in Nat
    BY DEF Shapes, Numbers
<1>1. CASE ReadLegacy(b)
    <2> DEFINE k == [backfill[b] EXCEPT !.batch = legacy, !.pc = IF legacy = <<>> THEN "done" ELSE "latest"]
    <2>1. BackfillProceeds(b, k) /\ chain' = chain
        BY <1>1 DEF ReadLegacy
    <2>2. k.written = backfill[b].written /\ k.seen = backfill[b].seen
        BY <1>0 DEF BackfillFields
    <2> HIDE DEF k
    <2> QED
        BY <1>0, <2>1, <2>2, BackfillStepKeepsNumbers
<1>2. CASE ReadLatestForBackfill(b)
    <2> DEFINE k == [backfill[b] EXCEPT !.seen = Latest(chain), !.pc = "update"]
    <2>1. BackfillProceeds(b, k) /\ chain' = chain
        BY <1>2 DEF ReadLatestForBackfill
    <2>2. k.written = backfill[b].written /\ k.seen = Latest(chain)
        BY <1>0 DEF BackfillFields
    <2> HIDE DEF k
    <2> QED
        BY <1>0, <2>1, <2>2, LatestIs, BackfillStepKeepsNumbers
<1>3. CASE Renumber(b)
    <2> DEFINE rows == Renumbered(backfill[b].seen, backfill[b].batch)
    <2>1. PICK k : /\ BackfillProceeds(b, k) /\ chain' = chain
                   /\ \/ k = [backfill[b] EXCEPT !.pc = "failed"]
                      \/ k = [backfill[b] EXCEPT !.pc = "hold", !.written = rows]
        BY <1>3 DEF Renumber
    <2>2. k.seen = backfill[b].seen /\ k.written \in {backfill[b].written, rows}
        BY <1>0, <2>1 DEF BackfillFields
    <2>3. Numbered(rows)
        <3>1. \A s \in DOMAIN rows :
                s \in Nat /\ s <= backfill[b].seen.sequence + Len(backfill[b].batch)
                /\ Len(backfill[b].batch) \in Nat
            BY <1>0, RenumberedIds
        <3> HIDE DEF rows
        <3>2. CASE DOMAIN rows = {}
            BY <3>2 DEF Numbered
        <3>3. CASE DOMAIN rows # {}
            <4>1. backfill[b].seen.sequence + Len(backfill[b].batch) \in Nat
                BY <1>0, <3>1, <3>3
            <4> QED
                BY <3>1, <4>1 DEF Numbered
        <3> QED
            BY <3>2, <3>3
    <2> HIDE DEF rows
    <2> QED
        BY <1>0, <2>1, <2>2, <2>3, BackfillStepKeepsNumbers
<1>4. CASE CommitBackfill(b)
    <2> DEFINE batch == {backfill[b].batch[i] : i \in DOMAIN backfill[b].batch}
               kept == [s \in {r \in DOMAIN chain : chain[r].id \notin batch} |-> chain[s]]
               k == [backfill[b] EXCEPT !.pc = "done", !.written = Empty]
    <2>1. BackfillProceeds(b, k) /\ chain' = Over(kept, backfill[b].written)
        BY <1>4 DEF CommitBackfill
    <2>2. k.written = Empty /\ k.seen = backfill[b].seen
        BY <1>0 DEF BackfillFields
    <2>3. DOMAIN kept \subseteq DOMAIN chain
        OBVIOUS
    <2> HIDE DEF k, kept
    <2>4. Numbered(kept)
        BY <1>0, <2>3 DEF Numbered
    <2>5. Numbered(chain')
        BY <1>0, <2>1, <2>4, OverNumbered
    <2> QED
        BY <1>0, <2>1, <2>2, <2>5, EmptyNumbered, BackfillStepKeepsNumbers
<1>5. CASE BackfillFails(b)
    <2> DEFINE k == [backfill[b] EXCEPT !.pc = "failed", !.written = Empty]
    <2>1. BackfillProceeds(b, k) /\ chain' = chain
        BY <1>5 DEF BackfillFails
    <2>2. k.written = Empty /\ k.seen = backfill[b].seen
        BY <1>0 DEF BackfillFields
    <2> HIDE DEF k
    <2> QED
        BY <1>0, <2>1, <2>2, EmptyNumbered, BackfillStepKeepsNumbers
<1> QED
    BY <1>1, <1>2, <1>3, <1>4, <1>5 DEF BackfillStep

LEMMA NumbersInit == Init => Numbers
<1> SUFFICES ASSUME Init PROVE Numbers
    OBVIOUS
<1>1. Latest(Empty).sequence = 0
    BY EmptyIs DEF Latest
<1> QED
    BY <1>1, EmptyNumbered DEF Init, Numbers

-----------------------------------------------------------------------------
\* An entry whose call returned is in the chain once, and none of a call that failed
\* or is still at work (RecordedOnce), whatever the mode, the retries and the
\* backfills: the invariant says what open transactions hold and have written.
OnceInvariant == OnceInv /\ Numbers

THEOREM OnceIsInvariant == Spec => []OnceInvariant
<1>1. Init => OnceInvariant
    BY OnceInit, NumbersInit DEF OnceInvariant
<1>2. OnceInvariant /\ [Next]_vars => OnceInvariant'
    <2> SUFFICES ASSUME OnceInv, Numbers, [Next]_vars PROVE OnceInv' /\ Numbers'
        BY DEF OnceInvariant
    <2>0. Shapes
        BY DEF OnceInv
    <2>1. CASE \E c \in Call : AppendStep(c)
        BY <2>0, <2>1, AppendKeepsOnce, AppendKeepsNumbers
    <2>2. CASE \E b \in Backfiller : BackfillStep(b)
        BY <2>0, <2>2, BackfillKeepsOnce, BackfillKeepsNumbers
    <2>3. CASE UNCHANGED <<mode, chain, legacy, call, backfill>>
        <3>1. Numbers'
            BY <2>3 DEF Numbers, Numbered
        <3> QED
            BY <2>3, <3>1, OtherKeepsOnce
    <2>4. CASE \E v \in Verifier : ReadPage(v)
        BY <2>3, <2>4 DEF ReadPage
    <2>5. CASE Edit
        BY <2>3, <2>5 DEF Edit
    <2>6. CASE UNCHANGED vars
        BY <2>3, <2>6 DEF vars
    <2> QED
        BY <2>1, <2>2, <2>4, <2>5, <2>6 DEF Next
<1> QED
    BY <1>1, <1>2, PTL DEF Spec

THEOREM EntryIsRecordedOnce == Spec => []RecordedOnce
<1>1. OnceInvariant => RecordedOnce
    <2> SUFFICES ASSUME OnceInv, NEW c \in Call, NEW k \in 1 .. MaxEntries
                 PROVE  /\ \A s, t \in Copies(c, k) : s = t
                        /\ call[c].pc = "done" /\ k <= call[c].entry => Copies(c, k) # {}
                        /\ call[c].pc \notin {"done", "unknown"} => Copies(c, k) = {}
        BY DEF OnceInvariant, RecordedOnce, Copies
    <2>1. k \in Nat \ {0}
        BY AuditAssumption
    <2> QED
        BY <2>1 DEF OnceInv, ChainedOnce
<1> QED
    BY <1>1, OnceIsInvariant, PTL

-----------------------------------------------------------------------------
\* Facts about chains

\* A chain begins at 1 and has no gap.
LEMMA LinkedIsFull ==
    ASSUME NEW f, Linked(f), Numbered(f), NEW s \in DOMAIN f,
           NEW r \in Nat, 1 <= r, r <= s
    PROVE  r \in DOMAIN f
<1> DEFINE T == {x \in DOMAIN f : r <= x}
<1>1. T \subseteq Nat /\ s \in T
    BY DEF Numbered
<1>2. PICK m \in T : \A y \in T : m <= y
    BY <1>1, NatMin
<1>3. m \in DOMAIN f /\ m \in Nat /\ r <= m
    BY <1>1, <1>2
<1>4. CASE m = r
    BY <1>3, <1>4
<1>5. CASE m # r
    <2>1. m # 1 /\ m - 1 \in Nat /\ r <= m - 1
        BY <1>3, <1>5
    <2>2. m - 1 \in DOMAIN f
        BY <1>3, <2>1 DEF Linked
    <2>3. m <= m - 1
        BY <1>2, <2>1, <2>2
    <2> QED
        BY <1>3, <2>3
<1> QED
    BY <1>4, <1>5

LEMMA LinkedFromOne ==
    ASSUME NEW f, Linked(f), Numbered(f), NEW s \in DOMAIN f PROVE s \in Nat /\ 1 <= s
<1>1. s \in Nat /\ DOMAIN f \subseteq Nat
    BY DEF Numbered
<1>2. CASE s = 0
    <2>1. s - 1 \in DOMAIN f
        BY <1>2 DEF Linked
    <2> QED
        BY <1>1, <1>2, <2>1
<1> QED
    BY <1>1, <1>2

\* A number after an entry that is free is the number after the last.
LEMMA FreeIsNext ==
    ASSUME NEW f, Linked(f), Numbered(f), NEW head, SeenIn(head, f),
           head.sequence \in Nat, head.sequence + 1 \notin DOMAIN f
    PROVE  head.sequence = Latest(f).sequence
<1> DEFINE n == Latest(f).sequence
<1>1. n \in Nat /\ (\A s \in DOMAIN f : s <= n) /\ (n = 0 \/ n \in DOMAIN f)
    BY LatestIs
<1> HIDE DEF n
<1>2. CASE head.sequence < n
    <2>1. n \in DOMAIN f
        BY <1>1, <1>2
    <2> QED
        BY <1>1, <1>2, <2>1, LinkedIsFull
<1>3. CASE n < head.sequence
    BY <1>1, <1>3 DEF SeenIn
<1> QED
    BY <1>1, <1>2, <1>3 DEF n

\* A transaction that wrote nothing adds nothing.
LEMMA OverNothing ==
    ASSUME NEW f, NEW g, DOMAIN g = {}
    PROVE  /\ Whole(f) <=> Whole(Over(f, g))
           /\ \A head : SeenIn(head, f) <=> SeenIn(head, Over(f, g))
<1> DEFINE h == Over(f, g)
<1>1. DOMAIN h = DOMAIN f /\ \A s \in DOMAIN f : h[s] = f[s]
    BY DEF Over
<1> HIDE DEF h
<1>2. Linked(f) <=> Linked(h)
    BY <1>1 DEF Linked
<1>3. Whole(f) <=> Whole(h)
    BY <1>1, <1>2 DEF Whole
<1>4. \A head : SeenIn(head, f) <=> SeenIn(head, h)
    BY <1>1 DEF SeenIn
<1> QED
    BY <1>3, <1>4 DEF h

LEMMA NothingFollows ==
    ASSUME NEW f, NEW g, DOMAIN g = {}, Whole(f) PROVE Follows(g, f)
BY OverNothing DEF Follows

LEMMA SeenInGrown ==
    ASSUME NEW f, NEW g, Grown(f, g), NEW head, SeenIn(head, f) PROVE SeenIn(head, g)
BY DEF Grown, SeenIn

\* The last entry of a chain is one that can be appended to.
LEMMA LatestIsSeen == ASSUME NEW f, Numbered(f) PROVE SeenIn(Latest(f), f)
BY LatestIs DEF SeenIn

LEMMA LatestGrows ==
    ASSUME NEW f, NEW g, Numbered(f), Numbered(g), Grown(f, g)
    PROVE  Latest(f).sequence <= Latest(g).sequence
<1>1. /\ Latest(f).sequence \in Nat /\ Latest(g).sequence \in Nat
      /\ (Latest(f).sequence = 0 \/ Latest(f).sequence \in DOMAIN f)
      /\ \A s \in DOMAIN g : s <= Latest(g).sequence
    BY LatestIs
<1> QED
    BY <1>1 DEF Grown

LEMMA SeenHash ==
    ASSUME NEW f, Whole(f), NEW head, SeenIn(head, f) PROVE head.hash \in Hashes
<1>1. Genesis \in Hashes
    BY EmptySeq DEF Genesis, Hashes
<1> QED
    BY <1>1 DEF SeenIn, Whole

\* The entry computed from the one before continues the chain.
LEMMA LinkOne ==
    ASSUME NEW f, Whole(f), Numbered(f), NEW head, SeenIn(head, f),
           head.sequence \in Nat, head.sequence + 1 \notin DOMAIN f,
           NEW id \in Ids, NEW g,
           DOMAIN g = DOMAIN f \cup {head.sequence + 1},
           g[head.sequence + 1] = NewRow(head, id),
           \A s \in DOMAIN f : g[s] = f[s]
    PROVE  Whole(g)
<1> DEFINE s0 == head.sequence + 1
           row == NewRow(head, id)
<1>1. /\ row.id = id /\ row.previous = head.hash
      /\ row.hash = EntryHash(head.hash, s0, id)
    BY DEF NewRow
<1>2. s0 \in Nat /\ s0 - 1 = head.sequence
    OBVIOUS
<1>3. row.hash \in Hashes
    <2>1. head.hash \in Seq(Pairs)
        BY SeenHash DEF Hashes
    <2>2. <<s0, id>> \in Pairs
        BY <1>2 DEF Pairs
    <2>3. Append(head.hash, <<s0, id>>) \in Seq(Pairs)
        BY <2>1, <2>2, AppendProperties
    <2> QED
        BY <1>1, <2>3 DEF EntryHash, Hashes
<1>4. \A s \in DOMAIN f : s \in Nat /\ 1 <= s
    BY LinkedFromOne DEF Whole
<1> HIDE DEF row
<1>5. ASSUME NEW s \in DOMAIN g
      PROVE  /\ s = 1 \/ s - 1 \in DOMAIN g
             /\ g[s].previous = IF s = 1 THEN Genesis ELSE g[s - 1].hash
             /\ g[s].hash = EntryHash(g[s].previous, s, g[s].id)
    <2>1. CASE s = s0
        <3>0. g[s] = row
            BY <2>1 DEF row
        <3>1. CASE head.sequence = 0
            <4>1. 0 \notin DOMAIN f
                BY <1>4
            <4>2. head.hash = Genesis
                BY <3>1, <4>1 DEF SeenIn
            <4> QED
                BY <1>1, <2>1, <3>0, <3>1, <4>2
        <3>2. CASE head.sequence # 0
            <4>1. head.sequence \in DOMAIN f /\ head.hash = f[head.sequence].hash
                BY <3>2 DEF SeenIn
            <4>2. s # 1 /\ s - 1 = head.sequence
                BY <1>2, <2>1, <3>2
            <4>3. g[s - 1].hash = head.hash
                BY <4>1, <4>2
            <4> QED
                BY <1>1, <2>1, <3>0, <4>1, <4>2, <4>3
        <3> QED
            BY <3>1, <3>2
    <2>2. CASE s # s0
        <3>1. s \in DOMAIN f /\ g[s] = f[s]
            BY <2>2
        <3>2. /\ s = 1 \/ s - 1 \in DOMAIN f
              /\ f[s].previous = IF s = 1 THEN Genesis ELSE f[s - 1].hash
              /\ f[s].hash = EntryHash(f[s].previous, s, f[s].id)
            BY <3>1 DEF Whole, Linked
        <3> QED
            BY <3>1, <3>2
    <2> QED
        BY <2>1, <2>2
<1>6. \A s \in DOMAIN g : g[s].hash \in Hashes
    BY <1>3 DEF Whole, row
<1> QED
    BY <1>5, <1>6 DEF Whole, Linked

LEMMA SeenInIs ==
    ASSUME NEW f, NEW head, SeenIn(head, f)
    PROVE  \/ head.sequence = 0 /\ head.hash = Genesis
           \/ head.sequence \in DOMAIN f /\ head.hash = f[head.sequence].hash
BY Zenon DEF SeenIn

LEMMA ConcatOfAppend ==
    ASSUME NEW S, NEW h \in Seq(S), NEW t \in Seq(S), NEW e \in S
    PROVE  h \o Append(t, e) = Append(h \o t, e)
<1> DEFINE w == <<e>>
<1>1. Append(t, e) = t \o w /\ w \in Seq(S)
    BY AppendIsConcat
<1>2. h \o t \in Seq(S)
    BY ConcatProperties
<1>3. Append(h \o t, e) = (h \o t) \o w
    BY <1>2, AppendIsConcat
<1> HIDE DEF w
<1>4. (h \o t) \o w = h \o (t \o w)
    BY <1>1, ConcatAssociative
<1> QED
    BY <1>1, <1>3, <1>4

\* The entries of a batch, computed from the last of the chain, continue it.
LEMMA LinkMany ==
    ASSUME NEW f, Whole(f), Numbered(f), NEW head, SeenIn(head, f),
           head.sequence = Latest(f).sequence, Legacy # <<>>
    PROVE  Follows(Renumbered(head, Legacy), f)
<1> DEFINE n == head.sequence
           HashAt(i) == head.hash \o [j \in 1 .. i |-> <<n + j, Legacy[j]>>]
           rows == Renumbered(head, Legacy)
           g == Over(f, rows)
<1>1. n \in Nat /\ \A s \in DOMAIN f : s <= n
    BY LatestIs
<1>0. \/ n = 0 /\ head.hash = Genesis
      \/ n \in DOMAIN f /\ head.hash = f[n].hash
    BY SeenInIs
<1>2. Legacy \in Seq(LegacyIds) /\ Len(Legacy) \in Nat /\ DOMAIN Legacy = 1 .. Len(Legacy)
    BY AuditAssumption DEF LegacyIds
<1>3. Len(Legacy) # 0
    BY <1>2, EmptySeq
<1>4. /\ DOMAIN rows = n + 1 .. n + Len(Legacy)
      /\ \A s \in DOMAIN rows :
           /\ rows[s].id = Legacy[s - n]
           /\ rows[s].previous = HashAt(s - n - 1)
           /\ rows[s].hash = HashAt(s - n)
    BY DEF Renumbered
<1>5. head.hash \in Seq(Pairs)
    BY SeenHash DEF Hashes
<1>6. \A j \in 1 .. Len(Legacy) : <<n + j, Legacy[j]>> \in Pairs
    BY <1>1, <1>2 DEF LegacyIds, Ids, Pairs
<1>7. ASSUME NEW i \in Nat, i <= Len(Legacy)
      PROVE  /\ [j \in 1 .. i |-> <<n + j, Legacy[j]>>] \in Seq(Pairs)
             /\ Len([j \in 1 .. i |-> <<n + j, Legacy[j]>>]) = i
             /\ HashAt(i) \in Hashes
    <2> DEFINE t == [j \in 1 .. i |-> <<n + j, Legacy[j]>>]
    <2>1. \A j \in 1 .. i : <<n + j, Legacy[j]>> \in Pairs
        BY <1>2, <1>6, <1>7
    <2>2. t \in [1 .. i -> Pairs]
        BY <2>1
    <2>3. t \in Seq(Pairs) /\ Len(t) = i
        BY <1>7, <2>2
    <2> HIDE DEF t
    <2>4. head.hash \o t \in Seq(Pairs)
        BY <1>5, <2>3, ConcatProperties
    <2> QED
        BY <2>3, <2>4 DEF t, Hashes
<1>8. HashAt(0) = head.hash
    <2>1. [j \in 1 .. 0 |-> <<n + j, Legacy[j]>>] = <<>>
        BY <1>7, EmptySeq
    <2> QED
        BY <1>5, <2>1, ConcatEmptySeq
<1>9. ASSUME NEW i \in 1 .. Len(Legacy)
      PROVE  HashAt(i) = Append(HashAt(i - 1), <<n + i, Legacy[i]>>)
    <2> DEFINE t == [j \in 1 .. i - 1 |-> <<n + j, Legacy[j]>>]
               u == [j \in 1 .. i |-> <<n + j, Legacy[j]>>]
               e == <<n + i, Legacy[i]>>
    <2>1. /\ i - 1 \in Nat /\ i - 1 <= Len(Legacy) /\ i \in Nat /\ i <= Len(Legacy)
        BY <1>2
    <2>2. /\ t \in Seq(Pairs) /\ Len(t) = i - 1
          /\ u \in Seq(Pairs) /\ Len(u) = i /\ e \in Pairs
        BY <1>6, <1>7, <2>1
    <2>3. \A j \in 1 .. i : u[j] = IF j = i THEN e ELSE t[j]
        BY <2>1
    <2> HIDE DEF t, u, e
    <2>4. /\ Append(t, e) \in Seq(Pairs) /\ Len(Append(t, e)) = i
          /\ \A j \in 1 .. i : Append(t, e)[j] = IF j = i THEN e ELSE t[j]
        BY <2>1, <2>2, AppendProperties
    <2>5. u = Append(t, e)
        BY <2>1, <2>2, <2>3, <2>4, SeqEqual
    <2>6. head.hash \o Append(t, e) = Append(head.hash \o t, e)
        <3> DEFINE h == head.hash
        <3>1. h \in Seq(Pairs) /\ t \in Seq(Pairs) /\ e \in Pairs
            BY <1>5, <2>2
        <3> HIDE DEF h
        <3>2. h \o Append(t, e) = Append(h \o t, e)
            BY ONLY <3>1, ConcatOfAppend
        <3> QED
            BY <3>2 DEF h
    <2>10. head.hash \o u = Append(head.hash \o t, e)
        BY <2>5, <2>6
    <2> QED
        BY <2>10 DEF t, u, e
<1> HIDE DEF HashAt, rows
<1>10. /\ DOMAIN g = DOMAIN f \cup DOMAIN rows
       /\ \A s \in DOMAIN rows : g[s] = rows[s]
       /\ \A s \in DOMAIN f : g[s] = f[s] /\ s \notin DOMAIN rows
    <2>1. \A s \in DOMAIN f : s \in Nat /\ s <= n
        BY <1>1 DEF Numbered
    <2>2. \A s \in DOMAIN f : s \notin DOMAIN rows
        BY <1>1, <1>4, <2>1
    <2> QED
        BY <2>2 DEF Over
<1> HIDE DEF g
<1>11. ASSUME NEW s \in DOMAIN g
       PROVE  /\ s = 1 \/ s - 1 \in DOMAIN g
              /\ g[s].previous = IF s = 1 THEN Genesis ELSE g[s - 1].hash
              /\ g[s].hash = EntryHash(g[s].previous, s, g[s].id)
    <2>1. CASE s \in DOMAIN f
        <3>1. /\ s = 1 \/ s - 1 \in DOMAIN f
              /\ f[s].previous = IF s = 1 THEN Genesis ELSE f[s - 1].hash
              /\ f[s].hash = EntryHash(f[s].previous, s, f[s].id)
            BY <2>1 DEF Whole, Linked
        <3> QED
            BY <1>10, <2>1, <3>1
    <2>2. CASE s \in DOMAIN rows
        <3> DEFINE i == s - n
        <3>1. i \in 1 .. Len(Legacy) /\ s = n + i /\ s \in Nat /\ i \in Nat
            BY <1>1, <1>2, <1>4, <2>2
        <3>2. /\ g[s].id = Legacy[i] /\ g[s].previous = HashAt(i - 1) /\ g[s].hash = HashAt(i)
            BY <1>4, <1>10, <2>2
        <3>3. g[s].hash = EntryHash(g[s].previous, s, g[s].id)
            BY <1>9, <3>1, <3>2 DEF EntryHash
        <3>4. CASE i = 1
            <4>0. i - 1 = 0 /\ s - 1 = n
                BY <1>1, <3>1, <3>4
            <4>1. g[s].previous = head.hash
                <5> HIDE DEF i
                <5> QED
                    BY <1>8, <3>2, <4>0
            <4>2. n # 0 => n \in DOMAIN f /\ head.hash = f[n].hash
                BY <1>0
            <4>3. n = 0 => head.hash = Genesis
                <5>1. 0 \notin DOMAIN f
                    BY LinkedFromOne DEF Whole
                <5> QED
                    BY <1>0, <5>1
            <4>4. n # 0 => n \in DOMAIN g /\ g[n].hash = head.hash
                BY <1>10, <4>2
            <4>5. s = 1 <=> n = 0
                BY <1>1, <3>1, <3>4
            <4> QED
                BY <3>3, <4>0, <4>1, <4>3, <4>4, <4>5
        <3>5. CASE i # 1
            <4>1. /\ s - 1 \in n + 1 .. n + Len(Legacy) /\ s # 1 /\ (s - 1) - n = i - 1
                BY <1>1, <1>2, <3>1, <3>5
            <4>2. s - 1 \in DOMAIN rows /\ rows[s - 1].hash = HashAt(i - 1)
                BY <1>4, <4>1
            <4> QED
                BY <1>10, <3>2, <3>3, <4>1, <4>2
        <3> QED
            BY <3>4, <3>5
    <2> QED
        BY <1>10, <2>1, <2>2
<1>12. \A s \in DOMAIN g : g[s].hash \in Hashes
    <2>1. \A s \in DOMAIN f : g[s].hash \in Hashes
        BY <1>10 DEF Whole
    <2>2. ASSUME NEW s \in DOMAIN rows PROVE rows[s].hash \in Hashes
        <3>1. s - n \in Nat /\ s - n <= Len(Legacy) /\ rows[s].hash = HashAt(s - n)
            BY <1>1, <1>2, <1>4, <2>2
        <3> QED
            BY <1>7, <3>1
    <2> QED
        BY <1>10, <2>1, <2>2
<1>13. Latest(f).sequence + 1 \in DOMAIN rows
    BY <1>1, <1>2, <1>3, <1>4
<1> QED
    BY <1>11, <1>12, <1>13 DEF Whole, Linked, Follows, g, rows

-----------------------------------------------------------------------------
\* The chain stays linked

\* A step of a call that commits nothing.
LEMMA CallStepKeepsLink ==
    ASSUME Shapes, LinkInv, NEW c \in Call, NEW k, Proceeds(c, k), chain' = chain,
           CallLinked(k, chain), mode.retry # "snapshot" => Overtaken(k, chain)
    PROVE  LinkInv'
<1>1. /\ call'[c] = k
      /\ \A d \in Call \ {c} : call'[d] = call[d]
      /\ backfill' = backfill /\ mode' = mode
    BY ProceedsMoves
<1>2. \A d \in Call : CallLinked(call'[d], chain')
    BY <1>1 DEF LinkInv
<1>3. mode'.retry # "snapshot" => \A d \in Call : Overtaken(call'[d], chain')
    BY <1>1 DEF LinkInv
<1>4. Whole(chain') /\ \A b \in Backfiller : BackfillLinked(backfill'[b], chain')
    BY <1>1 DEF LinkInv
<1> QED
    BY <1>2, <1>3, <1>4 DEF LinkInv

LEMMA ReadLatestKeepsLink ==
    ASSUME Shapes, Numbers, LinkInv, NEW c \in Call, ReadLatest(c) PROVE LinkInv'
<1> DEFINE fixed == mode.nested /\ mode.retry = "snapshot" /\ call[c].snapshot = <<>>
           k == [call[c] EXCEPT
                   !.pc = "insert",
                   !.seen = Latest(View(c)),
                   !.base = IF call[c].attempts = 0 THEN Latest(chain).sequence ELSE @,
                   !.snapshot = IF fixed THEN <<chain>> ELSE @]
           W == call[c].written
           start == IF call[c].snapshot = <<>> THEN chain ELSE call[c].snapshot[1]
           view == Over(start, W)
           now == Over(chain, W)
<1>1. Proceeds(c, k) /\ chain' = chain
    BY DEF ReadLatest
<1>2. DOMAIN call[c] = CallFields /\ call[c].attempts \in Nat /\ call[c].base \in Nat
    BY DEF Shapes, Numbers
<1>3. /\ k.seen = Latest(view) /\ k.written = W /\ k.pc = "insert"
      /\ k.attempts = call[c].attempts
      /\ k.base = IF call[c].attempts = 0 THEN Latest(chain).sequence ELSE call[c].base
      /\ k.snapshot = IF fixed THEN <<chain>> ELSE call[c].snapshot
    BY <1>2 DEF CallFields, View
<1> HIDE DEF k
<1>4. Grown(start, chain) /\ Numbered(start) /\ Numbered(chain) /\ Numbered(W)
    BY DEF LinkInv, CallLinked, Numbers, Grown
<1>5. Grown(view, now)
    BY <1>4 DEF Grown, Over
<1>6. Numbered(view)
    BY <1>4, OverNumbered
<1>7. SeenIn(k.seen, now)
    BY <1>3, <1>5, <1>6, LatestIsSeen, SeenInGrown
<1>8. k.snapshot = <<>> \/ Grown(k.snapshot[1], chain)
    <2>1. Grown(chain, chain)
        BY DEF Grown
    <2> QED
        BY <1>3, <2>1 DEF LinkInv, CallLinked
<1>9. CallLinked(k, chain)
    <2>1. Follows(W, chain)
        BY DEF LinkInv, CallLinked
    <2> QED
        BY <1>3, <1>7, <1>8, <2>1 DEF CallLinked
<1>10. ASSUME mode.retry # "snapshot" PROVE Overtaken(k, chain)
    <2>1. Overtaken(call[c], chain)
        BY <1>10 DEF LinkInv
    <2>2. start = chain /\ k.snapshot = <<>>
        BY <1>3, <1>10, <2>1 DEF Overtaken
    <2>3. /\ Latest(view).sequence \in Nat
          /\ \A s \in DOMAIN view : s <= Latest(view).sequence
        BY <1>6, LatestIs
    <2>4. /\ Latest(chain).sequence \in Nat
          /\ Latest(chain).sequence = 0 \/ Latest(chain).sequence \in DOMAIN chain
        BY <1>4, LatestIs
    <2>5. DOMAIN view = DOMAIN chain \cup DOMAIN W
        BY <2>2 DEF Over
    <2>6. Latest(chain).sequence <= Latest(view).sequence
        <3> HIDE DEF view
        <3> DEFINE n == Latest(chain).sequence
                   m == Latest(view).sequence
        <3>1. /\ n \in Nat /\ m \in Nat /\ (n = 0 \/ n \in DOMAIN view)
              /\ \A s \in DOMAIN view : s <= m
            BY <2>3, <2>4, <2>5
        <3> HIDE DEF n, m
        <3>2. n <= m
            BY <3>1
        <3> QED
            BY <3>2 DEF n, m
    <2>7. \A s \in DOMAIN W : s <= k.seen.sequence
        BY <1>3, <2>3, <2>5
    <2>8. k.attempts > 0 => k.base + k.attempts <= Latest(chain).sequence
        BY <1>2, <1>3, <2>1 DEF Overtaken
    <2>9. k.base + k.attempts <= k.seen.sequence
        <3> HIDE DEF view, start
        <3>1. k.attempts \in Nat /\ k.base \in Nat /\ k.seen.sequence \in Nat
            BY <1>2, <1>3, <2>3, <2>4
        <3>2. CASE k.attempts = 0
            BY <1>3, <2>4, <2>6, <3>1, <3>2
        <3>3. CASE k.attempts > 0
            BY <1>3, <2>4, <2>6, <2>8, <3>1, <3>3
        <3> QED
            BY <3>1, <3>2, <3>3
    <2>10. \A s \in DOMAIN k.written : s <= k.seen.sequence
        BY <1>3, <2>7
    <2>11. k.snapshot = <<>>
        BY <2>2
    <2> HIDE DEF start, view, W
    <2> QED
        BY <2>8, <2>9, <2>10, <2>11 DEF Overtaken
<1> QED
    BY <1>1, <1>9, <1>10, CallStepKeepsLink

LEMMA InsertKeepsLink ==
    ASSUME OnceInv, Numbers, LinkInv, NEW c \in Call, Insert(c) PROVE LinkInv'
<1> DEFINE W == call[c].written
           s0 == call[c].seen.sequence + 1
           id == <<c, call[c].entry>>
           row == NewRow(call[c].seen, id)
           k == [call[c] EXCEPT !.pc = "hold", !.written = Over(@, [n \in {s0} |-> row])]
           now == Over(chain, W)
           next == Over(chain, k.written)
<1>1. /\ Proceeds(c, k) /\ chain' = chain /\ call[c].pc = "insert"
      /\ s0 \notin DOMAIN chain \cup DOMAIN W
    BY DEF Insert
<1>2. /\ DOMAIN call[c] = CallFields /\ call[c].entry \in Nat /\ call[c].seen.sequence \in Nat
      /\ Numbered(chain) /\ Numbered(W)
    BY DEF OnceInv, Shapes, Numbers
<1>3. /\ k.pc = "hold" /\ k.attempts = call[c].attempts /\ k.base = call[c].base
      /\ k.snapshot = call[c].snapshot /\ k.written = Over(W, [n \in {s0} |-> row])
    BY <1>2 DEF CallFields
<1>4. id \in Ids
    BY <1>2 DEF Ids
<1> HIDE DEF k, row, id
<1>5. /\ DOMAIN k.written = DOMAIN W \cup {s0} /\ k.written[s0] = row
      /\ \A s \in DOMAIN W : k.written[s] = W[s]
    BY <1>1, <1>3 DEF Over
<1>6. /\ DOMAIN now = DOMAIN chain \cup DOMAIN W
      /\ \A s \in DOMAIN W : now[s] = W[s]
      /\ \A s \in DOMAIN chain \ DOMAIN W : now[s] = chain[s]
    BY DEF Over
<1>7. /\ DOMAIN next = DOMAIN chain \cup DOMAIN W \cup {s0} /\ next[s0] = row
      /\ \A s \in DOMAIN W : next[s] = W[s]
      /\ \A s \in DOMAIN chain \ DOMAIN W : next[s] = chain[s]
    BY <1>1, <1>5 DEF Over
<1>8. Follows(W, chain) /\ SeenIn(call[c].seen, now)
    BY <1>1 DEF LinkInv, CallLinked
<1>9. Whole(now) /\ Numbered(now)
    BY <1>2, <1>8, OverNumbered DEF Follows
<1> HIDE DEF now, next
<1>10. Whole(next)
    <2>1. DOMAIN next = DOMAIN now \cup {s0} /\ s0 \notin DOMAIN now
        BY <1>1, <1>6, <1>7
    <2>2. \A s \in DOMAIN now : next[s] = now[s]
        BY <1>6, <1>7
    <2> QED
        BY <1>2, <1>4, <1>7, <1>8, <1>9, <2>1, <2>2, LinkOne DEF row
<1>11. Latest(chain).sequence + 1 \in DOMAIN k.written
    <2>1. CASE DOMAIN W = {}
        <3>1. SeenIn(call[c].seen, chain) /\ Whole(chain)
            BY <1>8, <1>9, <2>1, OverNothing DEF now
        <3>2. call[c].seen.sequence = Latest(chain).sequence
            BY <1>1, <1>2, <3>1, FreeIsNext DEF Whole
        <3> QED
            BY <1>5, <3>2
    <2>2. CASE DOMAIN W # {}
        BY <1>5, <1>8, <2>2 DEF Follows
    <2> QED
        BY <2>1, <2>2
<1>12. CallLinked(k, chain)
    <2>1. Follows(k.written, chain)
        BY <1>10, <1>11 DEF Follows, next
    <2>2. k.snapshot = <<>> \/ Grown(k.snapshot[1], chain)
        BY <1>3 DEF LinkInv, CallLinked
    <2> QED
        BY <1>3, <2>1, <2>2 DEF CallLinked
<1>13. mode.retry # "snapshot" => Overtaken(k, chain)
    BY <1>3 DEF LinkInv, Overtaken
<1>14. Shapes
    BY DEF OnceInv
<1> QED
    BY <1>1, <1>12, <1>13, <1>14, CallStepKeepsLink

\* An attempt that throws, and a transaction that logs another entry, keep what was
\* written or give it back.
LEMMA EndingKeepsLink ==
    ASSUME Shapes, LinkInv, NEW c \in Call, NEW k, Proceeds(c, k), chain' = chain,
           k.pc # "insert", k.written \in {call[c].written, Empty},
           k.snapshot \in {call[c].snapshot, <<>>},
           mode.retry # "snapshot" =>
                (k.attempts > 0 => k.base + k.attempts <= Latest(chain).sequence)
    PROVE  LinkInv'
<1>1. CallLinked(call[c], chain) /\ Whole(chain)
    BY DEF LinkInv
<1>2. Follows(k.written, chain)
    BY <1>1, EmptyIs, NothingFollows DEF CallLinked
<1>3. CallLinked(k, chain)
    BY <1>1, <1>2 DEF CallLinked
<1>4. mode.retry # "snapshot" => Overtaken(k, chain)
    BY DEF LinkInv, Overtaken
<1> QED
    BY <1>3, <1>4, CallStepKeepsLink

LEMMA ThrowingKeepsLink ==
    ASSUME OnceInv, LinkInv, NEW c \in Call, NEW error,
           Proceeds(c, AppendThrows(call[c], error)), chain' = chain,
           error = "unique" =>
                (mode.retry # "snapshot" =>
                    call[c].base + call[c].attempts + 1 <= Latest(chain).sequence),
           Numbers
    PROVE  LinkInv'
<1> DEFINE k == AppendThrows(call[c], error)
<1>0. Shapes
    BY DEF OnceInv
<1>1. DOMAIN call[c] = CallFields /\ call[c].attempts \in Nat /\ call[c].base \in Nat
    BY <1>0 DEF Shapes, Numbers
<1>2. /\ k.base = call[c].base
      /\ error # "unique" =>
           k.pc \in {"unknown", "failed"} /\ k.written = Empty /\ k.snapshot = <<>>
           /\ k.attempts = call[c].attempts
      /\ error = "unique" =>
           k.attempts = call[c].attempts + 1 /\ k.pc \in {"read", "contention"}
    BY <1>1, AppendThrowsIs
<1>3. k.written \in {call[c].written, Empty} /\ k.snapshot \in {call[c].snapshot, <<>>}
    BY <1>0, ThrowingEnds
<1>4. Proceeds(c, k)
    OBVIOUS
<1> HIDE DEF k
<1>5. k.pc # "insert"
    BY <1>2
<1>6. ASSUME mode.retry # "snapshot", k.attempts > 0
      PROVE  k.base + k.attempts <= Latest(chain).sequence
    <2>1. Overtaken(call[c], chain)
        BY <1>6 DEF LinkInv
    <2>2. CASE error = "unique"
        BY <1>1, <1>2, <1>6, <2>2
    <2>3. CASE error # "unique"
        BY <1>2, <1>6, <2>1, <2>3 DEF Overtaken
    <2> QED
        BY <2>2, <2>3
<1> QED
    BY <1>0, <1>3, <1>4, <1>5, <1>6, EndingKeepsLink

LEMMA CollideKeepsLink ==
    ASSUME OnceInv, Numbers, LinkInv, NEW c \in Call, Collide(c) PROVE LinkInv'
<1>1. /\ call[c].pc = "insert" /\ chain' = chain
      /\ call[c].seen.sequence + 1 \in DOMAIN chain \cup DOMAIN call[c].written
      /\ Proceeds(c, AppendThrows(call[c], "unique"))
    BY DEF Collide
<1>2. ASSUME mode.retry # "snapshot"
      PROVE  call[c].base + call[c].attempts + 1 <= Latest(chain).sequence
    <2> DEFINE x == call[c].seen.sequence
               m == Latest(chain).sequence
               y == call[c].base + call[c].attempts
    <2>1. /\ y <= x /\ \A s \in DOMAIN call[c].written : s <= x
        BY <1>1, <1>2 DEF LinkInv, Overtaken
    <2>2. /\ m \in Nat /\ \A s \in DOMAIN chain : s <= m
          /\ x \in Nat /\ call[c].base \in Nat /\ call[c].attempts \in Nat
        BY LatestIs DEF Numbers, OnceInv, Shapes
    <2>3. y \in Nat
        BY <2>2
    <2>4. x + 1 \in DOMAIN chain \cup DOMAIN call[c].written
        BY <1>1
    <2> HIDE DEF x, m, y
    <2>5. x + 1 \in DOMAIN chain
        <3>1. ~(x + 1 <= x)
            BY <2>2
        <3> QED
            BY <2>1, <2>4, <3>1
    <2>6. x + 1 <= m
        BY <2>2, <2>5
    <2>7. y + 1 <= m
        BY <2>1, <2>2, <2>3, <2>6
    <2> QED
        BY <2>7 DEF y, m
<1> QED
    BY <1>1, <1>2, ThrowingKeepsLink

LEMMA LogAnotherKeepsLink ==
    ASSUME OnceInv, LinkInv, NEW c \in Call, LogAnother(c) PROVE LinkInv'
<1> DEFINE k == [call[c] EXCEPT !.pc = "read", !.entry = @ + 1, !.attempts = 0]
<1>1. Proceeds(c, k) /\ chain' = chain
    BY DEF LogAnother
<1>2. DOMAIN call[c] = CallFields /\ Shapes
    BY DEF OnceInv, Shapes
<1>3. k.pc = "read" /\ k.attempts = 0 /\ k.written = call[c].written /\ k.snapshot = call[c].snapshot
    BY <1>2 DEF CallFields
<1> HIDE DEF k
<1> QED
    BY <1>1, <1>2, <1>3, EndingKeepsLink

\* Two open transactions never both have numbers: each would have the next one.
LEMMA OnlyOneWrites ==
    ASSUME OnceInv, LinkInv, NEW c \in Call, NEW x \in Call \cup Backfiller, x # c,
           NEW W, W = IF x \in Call THEN call[x].written ELSE backfill[x].written,
           Follows(W, chain)
    PROVE  DOMAIN call[c].written = {} \/ DOMAIN W = {}
<1>1. SUFFICES ASSUME DOMAIN call[c].written # {}, DOMAIN W # {} PROVE FALSE
    OBVIOUS
<1> DEFINE s0 == Latest(chain).sequence + 1
<1>2. s0 \in DOMAIN W
    BY <1>1 DEF Follows
<1>3. s0 \in DOMAIN call[c].written
    BY <1>1 DEF LinkInv, CallLinked, Follows
<1>4. ~HeldByOthers(s0, c)
    BY <1>3 DEF OnceInv, CallHolds
<1> QED
    BY <1>2, <1>4 DEF HeldByOthers

\* A commit of a call: the rows of its transaction were the next ones, and nobody
\* else had any.
LEMMA CommittingKeepsLink ==
    ASSUME OnceInv, Numbers, LinkInv, NEW c \in Call, NEW k, Proceeds(c, k),
           chain' = Over(chain, call[c].written), call[c].pc = "hold",
           k.pc # "insert", k.written = Empty, k.snapshot = <<>>,
           k.attempts = call[c].attempts, k.base = call[c].base
    PROVE  LinkInv'
<1> DEFINE W == call[c].written
           after == Over(chain, W)
<1>1. /\ call'[c] = k /\ \A d \in Call \ {c} : call'[d] = call[d]
      /\ backfill' = backfill /\ mode' = mode
    BY ProceedsMoves DEF OnceInv
<1>2. /\ DOMAIN after = DOMAIN chain \cup DOMAIN W
      /\ \A s \in DOMAIN W : s \notin DOMAIN chain
    BY DEF Over, OnceInv, CallHolds
<1>3. Grown(chain, after)
    BY <1>2 DEF Over, Grown
<1>4. Follows(W, chain) /\ Whole(after)
    BY DEF LinkInv, CallLinked, Follows
<1>5. DOMAIN W # {}
    <2>1. OnceIn(c, call[c]) /\ Recorded(call[c]) = call[c].entry /\ call[c].entry \in Nat \ {0}
        BY DEF OnceInv, Shapes, WritesOnce, Recorded, Working
    <2>2. 1 \in 1 .. Recorded(call[c])
        BY <2>1
    <2> QED
        BY <2>1, <2>2 DEF OnceIn
<1>6. /\ Numbered(chain) /\ Numbered(W) /\ Numbered(after)
      /\ \A d \in Call : call[d].base \in Nat /\ call[d].attempts \in Nat
    BY OverNumbered DEF Numbers, OnceInv, Shapes
<1>7. /\ Latest(chain).sequence \in Nat /\ Latest(after).sequence \in Nat
      /\ Latest(chain).sequence <= Latest(after).sequence
    BY <1>3, <1>6, LatestGrows, LatestIs
<1>8. \A d \in Call \ {c} : DOMAIN call[d].written = {}
    <2> SUFFICES ASSUME NEW d \in Call \ {c} PROVE DOMAIN call[d].written = {}
        OBVIOUS
    <2>1. W = IF c \in Call THEN call[c].written ELSE backfill[c].written
        OBVIOUS
    <2> HIDE DEF W
    <2> QED
        BY <1>4, <1>5, <2>1, OnlyOneWrites
<1>9. \A b \in Backfiller : Follows(backfill[b].written, chain) => DOMAIN backfill[b].written = {}
    <2> SUFFICES ASSUME NEW b \in Backfiller, Follows(backfill[b].written, chain)
                 PROVE  DOMAIN backfill[b].written = {}
        OBVIOUS
    <2>1. b \notin Call /\ b # c
        BY AuditAssumption
    <2> DEFINE X == backfill[b].written
    <2>2. X = IF b \in Call THEN call[b].written ELSE backfill[b].written
        BY <2>1
    <2>3. Follows(X, chain)
        OBVIOUS
    <2> HIDE DEF X
    <2>4. DOMAIN call[c].written = {} \/ DOMAIN X = {}
        BY <2>1, <2>2, <2>3, OnlyOneWrites
    <2> QED
        BY <1>5, <2>4 DEF X
<1> HIDE DEF after, W
<1>10. ASSUME NEW d \in Call PROVE CallLinked(call'[d], after)
    <2>1. CASE d = c
        <3>1. Follows(k.written, after)
            BY <1>4, EmptyIs, NothingFollows
        <3> QED
            BY <1>1, <2>1, <3>1 DEF CallLinked
    <2>2. CASE d # c
        <3>1. CallLinked(call[d], chain) /\ DOMAIN call[d].written = {} /\ call'[d] = call[d]
            BY <1>1, <1>8, <2>2 DEF LinkInv
        <3>2. Follows(call[d].written, after)
            BY <1>4, <3>1, NothingFollows
        <3>3. ASSUME call[d].pc = "insert"
              PROVE  SeenIn(call[d].seen, Over(after, call[d].written))
            <4>1. SeenIn(call[d].seen, Over(chain, call[d].written))
                BY <3>1, <3>3 DEF CallLinked
            <4>2. SeenIn(call[d].seen, chain)
                BY <3>1, <4>1, OverNothing
            <4>3. SeenIn(call[d].seen, after)
                BY <1>3, <4>2, SeenInGrown
            <4> QED
                BY <3>1, <4>3, OverNothing
        <3>4. call[d].snapshot = <<>> \/ Grown(call[d].snapshot[1], after)
            BY <1>3, <3>1 DEF CallLinked, Grown
        <3> QED
            BY <3>1, <3>2, <3>3, <3>4 DEF CallLinked
    <2> QED
        BY <2>1, <2>2
<1>11. ASSUME mode.retry # "snapshot", NEW d \in Call PROVE Overtaken(call'[d], after)
    <2>1. Overtaken(call[d], chain)
        BY <1>11 DEF LinkInv
    <2>2. call[d].attempts > 0 => call[d].base + call[d].attempts <= Latest(after).sequence
        BY <1>6, <1>7, <2>1 DEF Overtaken
    <2>3. CASE d = c
        BY <1>1, <2>2, <2>3 DEF Overtaken
    <2>4. CASE d # c
        BY <1>1, <2>1, <2>2, <2>4 DEF Overtaken
    <2> QED
        BY <2>3, <2>4
<1>12. ASSUME NEW b \in Backfiller PROVE BackfillLinked(backfill[b], after)
    <2>1. BackfillLinked(backfill[b], chain)
        BY DEF LinkInv
    <2>2. backfill[b].pc = "update" => SeenIn(backfill[b].seen, after)
        BY <1>3, <2>1, SeenInGrown DEF BackfillLinked
    <2>3. HasLegacy(chain) => HasLegacy(after)
        BY <1>3 DEF HasLegacy, Grown
    <2>4. Follows(backfill[b].written, chain) => Follows(backfill[b].written, after)
        BY <1>4, <1>9, NothingFollows
    <2> QED
        BY <2>1, <2>2, <2>3, <2>4 DEF BackfillLinked
<1>13. chain' = after
    BY DEF after, W
<1>14. Whole(chain') /\ \A d \in Call : CallLinked(call'[d], chain')
    BY <1>4, <1>10, <1>13
<1>15. mode'.retry # "snapshot" => \A d \in Call : Overtaken(call'[d], chain')
    BY <1>1, <1>11, <1>13
<1>16. \A b \in Backfiller : BackfillLinked(backfill'[b], chain')
    BY <1>1, <1>12, <1>13
<1> QED
    BY <1>14, <1>15, <1>16 DEF LinkInv

LEMMA AppendKeepsLink ==
    ASSUME OnceInv, Numbers, LinkInv, NEW c \in Call, AppendStep(c) PROVE LinkInv'
<1>0. Shapes /\ DOMAIN call[c] = CallFields
    BY DEF OnceInv, Shapes
<1>1. CASE ReadLatest(c)
    BY <1>0, <1>1, ReadLatestKeepsLink
<1>2. CASE Insert(c)
    BY <1>2, InsertKeepsLink
<1>3. CASE Collide(c)
    BY <1>3, CollideKeepsLink
<1>4. CASE RetryInAborted(c) \/ RollBack(c)
    <2>1. PICK error : /\ Proceeds(c, AppendThrows(call[c], error)) /\ chain' = chain
                       /\ error # "unique"
        BY <1>4 DEF RetryInAborted, RollBack
    <2> QED
        BY <2>1, ThrowingKeepsLink
<1>5. CASE LogAnother(c)
    BY <1>5, LogAnotherKeepsLink
<1>6. CASE Commit(c)
    <2> DEFINE k == [call[c] EXCEPT !.pc = "done", !.written = Empty, !.snapshot = <<>>]
    <2>1. Proceeds(c, k) /\ chain' = Over(chain, call[c].written) /\ call[c].pc = "hold"
        BY <1>6 DEF Commit
    <2>2. /\ k.pc = "done" /\ k.written = Empty /\ k.snapshot = <<>>
          /\ k.attempts = call[c].attempts /\ k.base = call[c].base
        BY <1>0 DEF CallFields
    <2> HIDE DEF k
    <2> QED
        BY <2>1, <2>2, CommittingKeepsLink
<1>7. CASE CommitUnacknowledged(c) /\ mode.nested
    <2> DEFINE k == [call[c] EXCEPT !.pc = "unknown", !.written = Empty, !.snapshot = <<>>]
    <2>1. Proceeds(c, k) /\ chain' = Over(chain, call[c].written) /\ call[c].pc = "hold"
        BY <1>7 DEF CommitUnacknowledged
    <2>2. /\ k.pc = "unknown" /\ k.written = Empty /\ k.snapshot = <<>>
          /\ k.attempts = call[c].attempts /\ k.base = call[c].base
        BY <1>0 DEF CallFields
    <2> HIDE DEF k
    <2> QED
        BY <2>1, <2>2, CommittingKeepsLink
<1>8. CASE CommitUnacknowledged(c) /\ ~mode.nested
    <2> DEFINE k == AppendThrows(call[c], "unacknowledged")
    <2>1. Proceeds(c, k) /\ chain' = Over(chain, call[c].written) /\ call[c].pc = "hold"
        BY <1>8 DEF CommitUnacknowledged
    <2>2. /\ k.pc = "unknown" /\ k.written = Empty /\ k.snapshot = <<>>
          /\ k.attempts = call[c].attempts /\ k.base = call[c].base
        BY <1>0, AppendThrowsIs
    <2> HIDE DEF k
    <2> QED
        BY <2>1, <2>2, CommittingKeepsLink
<1> QED
    BY <1>1, <1>2, <1>3, <1>4, <1>5, <1>6, <1>7, <1>8 DEF AppendStep

\* A backfill that commits nothing.
LEMMA BackfillStepKeepsLink ==
    ASSUME Shapes, Batches, NEW b \in Backfiller, NEW k, BackfillProceeds(b, k), chain' = chain,
           k.pc \in {"latest", "update", "hold"} => k.batch = Legacy /\ Legacy # <<>>,
           k.pc = "hold" => DOMAIN k.written # {},
           LinkInv => BackfillLinked(k, chain)
    PROVE  Batches' /\ (LinkInv => LinkInv')
<1>1. /\ backfill'[b] = k
      /\ \A o \in Backfiller \ {b} : backfill'[o] = backfill[o]
      /\ call' = call /\ mode' = mode
    BY BackfillProceedsMoves
<1>2. Batches'
    BY <1>1 DEF Batches
<1>3. ASSUME LinkInv PROVE LinkInv'
    <2>1. Whole(chain') /\ \A c \in Call : CallLinked(call'[c], chain')
        BY <1>1, <1>3 DEF LinkInv
    <2>2. mode'.retry # "snapshot" => \A c \in Call : Overtaken(call'[c], chain')
        BY <1>1, <1>3 DEF LinkInv
    <2>3. \A o \in Backfiller : BackfillLinked(backfill'[o], chain')
        BY <1>1, <1>3 DEF LinkInv
    <2> QED
        BY <2>1, <2>2, <2>3 DEF LinkInv
<1> QED
    BY <1>2, <1>3

LEMMA RenumberKeepsLink ==
    ASSUME Shapes, Numbers, Batches, NEW b \in Backfiller, Renumber(b)
    PROVE  Batches' /\ (LinkInv => LinkInv')
<1> DEFINE rows == Renumbered(backfill[b].seen, backfill[b].batch)
           taken == \E s \in DOMAIN rows \cap DOMAIN chain : chain[s].id # rows[s].id
<1>1. backfill[b].pc = "update" /\ chain' = chain
    BY DEF Renumber
<1>2. /\ DOMAIN backfill[b] = BackfillFields
      /\ backfill[b].batch = Legacy /\ Legacy # <<>> /\ backfill[b].seen.sequence \in Nat
      /\ Numbered(chain)
    BY <1>1 DEF Shapes, Numbers, Batches
<1>3. CASE taken
    <2> DEFINE k == [backfill[b] EXCEPT !.pc = "failed"]
    <2>1. BackfillProceeds(b, k)
        BY <1>3 DEF Renumber
    <2>2. k.pc = "failed"
        BY <1>2 DEF BackfillFields
    <2> HIDE DEF k
    <2>3. BackfillLinked(k, chain)
        BY <2>2 DEF BackfillLinked
    <2> QED
        BY <1>1, <2>1, <2>2, <2>3, BackfillStepKeepsLink
<1>4. CASE ~taken
    <2> DEFINE k == [backfill[b] EXCEPT !.pc = "hold", !.written = rows]
               first == backfill[b].seen.sequence + 1
    <2>1. BackfillProceeds(b, k)
        BY <1>4 DEF Renumber
    <2>2. k.pc = "hold" /\ k.batch = Legacy /\ k.written = rows
        BY <1>2 DEF BackfillFields
    <2>3. first \in DOMAIN rows
        <3>1. Legacy \in Seq(LegacyIds)
            BY AuditAssumption DEF LegacyIds
        <3>2. Len(Legacy) \in Nat \ {0}
            BY <1>2, <3>1, EmptySeq
        <3>3. DOMAIN rows = first .. backfill[b].seen.sequence + Len(Legacy)
            BY <1>2 DEF Renumbered
        <3> QED
            BY <1>2, <3>2, <3>3
    <2>4. rows[first].id \in LegacyIds
        BY <1>2, <2>3, RenumberedIds
    <2>5. ASSUME LinkInv PROVE BackfillLinked(k, chain)
        <3>1. SeenIn(backfill[b].seen, chain) /\ Whole(chain)
            BY <1>1, <2>5 DEF LinkInv, BackfillLinked
        <3>2. CASE first \in DOMAIN chain
            <4>1. chain[first].id = rows[first].id
                BY <1>4, <2>3, <3>2
            <4>2. HasLegacy(chain)
                BY <2>4, <3>2, <4>1 DEF HasLegacy
            <4> QED
                BY <2>2, <4>2 DEF BackfillLinked
        <3>3. CASE first \notin DOMAIN chain
            <4>1. backfill[b].seen.sequence = Latest(chain).sequence
                BY <1>2, <3>1, <3>3, FreeIsNext DEF Whole
            <4>2. Follows(Renumbered(backfill[b].seen, Legacy), chain)
                BY <1>2, <3>1, <4>1, LinkMany
            <4>3. Follows(k.written, chain)
                BY <1>2, <2>2, <4>2
            <4> HIDE DEF k
            <4> QED
                BY <2>2, <4>3 DEF BackfillLinked
        <3> QED
            BY <3>2, <3>3
    <2>6. DOMAIN k.written # {}
        BY <2>2, <2>3
    <2> HIDE DEF k
    <2> QED
        BY <1>1, <1>2, <2>1, <2>2, <2>5, <2>6, BackfillStepKeepsLink
<1> QED
    BY <1>3, <1>4

\* The commit of a backfill that moves no numbered entry.
LEMMA CommitBackfillKeepsLink ==
    ASSUME OnceInv, Numbers, Batches, LinkInv, NEW b \in Backfiller, CommitBackfill(b),
           ~renumbered'
    PROVE  LinkInv'
<1> DEFINE batch == {backfill[b].batch[i] : i \in DOMAIN backfill[b].batch}
           kept == [s \in {r \in DOMAIN chain : chain[r].id \notin batch} |-> chain[s]]
           W == backfill[b].written
           after == Over(chain, W)
           k == [backfill[b] EXCEPT !.pc = "done", !.written = Empty]
<1>1. /\ backfill[b].pc = "hold" /\ chain' = Over(kept, W) /\ BackfillProceeds(b, k)
      /\ DOMAIN kept = DOMAIN chain
    BY DEF CommitBackfill
<1>2. batch = LegacyIds /\ DOMAIN W # {}
    BY <1>1 DEF Batches, LegacyIds
<1>3. \A s \in DOMAIN chain : chain[s].id \notin LegacyIds
    BY <1>1, <1>2
<1>4. chain' = after
    <2>1. \A s \in DOMAIN kept : kept[s] = chain[s]
        OBVIOUS
    <2> HIDE DEF kept, W
    <2> QED
        BY <1>1, <2>1 DEF Over
<1>5. DOMAIN backfill[b] = BackfillFields /\ k.pc = "done"
    BY DEF OnceInv, Shapes, BackfillFields
<1>6. /\ backfill'[b] = k /\ \A o \in Backfiller \ {b} : backfill'[o] = backfill[o]
      /\ call' = call /\ mode' = mode
    BY <1>1, BackfillProceedsMoves DEF OnceInv
<1>7. /\ \A o \in Backfiller \ {b} : backfill[o].pc # "hold"
      /\ \A s \in DOMAIN W : W[s].id \in LegacyIds /\ (s \in DOMAIN chain => chain[s].id = W[s].id)
    BY <1>1 DEF OnceInv, BackfillHolds
<1>8. Follows(W, chain)
    BY <1>1, <1>3 DEF LinkInv, BackfillLinked, HasLegacy
<1> HIDE DEF k, kept, batch
<1>9. Grown(chain, after)
    <2>1. \A s \in DOMAIN chain : s \notin DOMAIN W
        BY <1>3, <1>7
    <2> HIDE DEF W
    <2> QED
        BY <2>1 DEF Over, Grown
<1>10. Whole(after)
    BY <1>8 DEF Follows
<1>11. /\ Numbered(chain) /\ Numbered(W) /\ Numbered(after)
       /\ \A d \in Call : call[d].base \in Nat /\ call[d].attempts \in Nat
    BY OverNumbered DEF Numbers, OnceInv, Shapes
<1>12. /\ Latest(chain).sequence \in Nat /\ Latest(after).sequence \in Nat
       /\ Latest(chain).sequence <= Latest(after).sequence
    BY <1>9, <1>11, LatestGrows, LatestIs
<1>13. \A c \in Call : DOMAIN call[c].written = {}
    <2> SUFFICES ASSUME NEW c \in Call PROVE DOMAIN call[c].written = {}
        OBVIOUS
    <2>1. b \notin Call /\ b # c
        BY AuditAssumption
    <2>2. W = IF b \in Call THEN call[b].written ELSE backfill[b].written
        BY <2>1
    <2> HIDE DEF W
    <2> QED
        BY <1>2, <1>8, <2>1, <2>2, OnlyOneWrites
<1> HIDE DEF after, W
<1>14. ASSUME NEW d \in Call PROVE CallLinked(call[d], after)
    <2>1. CallLinked(call[d], chain) /\ DOMAIN call[d].written = {}
        BY <1>13 DEF LinkInv
    <2>2. Follows(call[d].written, after)
        BY <1>10, <2>1, NothingFollows
    <2>3. ASSUME call[d].pc = "insert"
          PROVE  SeenIn(call[d].seen, Over(after, call[d].written))
        <3>1. SeenIn(call[d].seen, Over(chain, call[d].written))
            BY <2>1, <2>3 DEF CallLinked
        <3>2. SeenIn(call[d].seen, chain)
            BY <2>1, <3>1, OverNothing
        <3>3. SeenIn(call[d].seen, after)
            BY <1>9, <3>2, SeenInGrown
        <3> QED
            BY <2>1, <3>3, OverNothing
    <2>4. call[d].snapshot = <<>> \/ Grown(call[d].snapshot[1], after)
        BY <1>9, <2>1 DEF CallLinked, Grown
    <2> QED
        BY <2>1, <2>2, <2>3, <2>4 DEF CallLinked
<1>15. ASSUME mode.retry # "snapshot", NEW d \in Call PROVE Overtaken(call[d], after)
    <2>1. Overtaken(call[d], chain)
        BY <1>15 DEF LinkInv
    <2>2. call[d].attempts > 0 => call[d].base + call[d].attempts <= Latest(after).sequence
        BY <1>11, <1>12, <2>1 DEF Overtaken
    <2> QED
        BY <2>1, <2>2 DEF Overtaken
<1>16. ASSUME NEW o \in Backfiller PROVE BackfillLinked(backfill'[o], after)
    <2>1. CASE o = b
        BY <1>5, <1>6, <2>1 DEF BackfillLinked
    <2>2. CASE o # b
        <3>1. BackfillLinked(backfill[o], chain) /\ backfill[o].pc # "hold"
            BY <1>7, <2>2 DEF LinkInv
        <3>2. backfill[o].pc = "update" => SeenIn(backfill[o].seen, after)
            BY <1>9, <3>1, SeenInGrown DEF BackfillLinked
        <3> QED
            BY <1>6, <2>2, <3>1, <3>2 DEF BackfillLinked
    <2> QED
        BY <2>1, <2>2
<1>17. Whole(chain') /\ \A d \in Call : CallLinked(call'[d], chain')
    BY <1>4, <1>6, <1>10, <1>14
<1>18. mode'.retry # "snapshot" => \A d \in Call : Overtaken(call'[d], chain')
    BY <1>4, <1>6, <1>15
<1>19. \A o \in Backfiller : BackfillLinked(backfill'[o], chain')
    BY <1>4, <1>16
<1> QED
    BY <1>17, <1>18, <1>19 DEF LinkInv

LinkedInvariant == Batches /\ UnlessRenumbered

LEMMA BackfillKeepsLink ==
    ASSUME OnceInv, Numbers, LinkedInvariant, NEW b \in Backfiller, BackfillStep(b)
    PROVE  LinkedInvariant'
<1>0. /\ Shapes /\ Batches
      /\ DOMAIN backfill[b] = BackfillFields /\ legacy \in {<<>>, Legacy} /\ Numbered(chain)
    BY DEF OnceInv, Shapes, LinkedInvariant, Numbers
<1>1. CASE ReadLegacy(b)
    <2> DEFINE k == [backfill[b] EXCEPT !.batch = legacy, !.pc = IF legacy = <<>> THEN "done" ELSE "latest"]
    <2>1. BackfillProceeds(b, k) /\ chain' = chain /\ renumbered' = renumbered
        BY <1>1 DEF ReadLegacy
    <2>2. k.batch = legacy /\ k.pc = IF legacy = <<>> THEN "done" ELSE "latest"
        BY <1>0 DEF BackfillFields
    <2> HIDE DEF k
    <2>3. BackfillLinked(k, chain)
        BY <2>2 DEF BackfillLinked
    <2>4. /\ k.pc \in {"latest", "update", "hold"} => k.batch = Legacy /\ Legacy # <<>>
          /\ k.pc # "hold"
        BY <1>0, <2>2
    <2> QED
        BY <1>0, <2>1, <2>3, <2>4, BackfillStepKeepsLink DEF LinkedInvariant, UnlessRenumbered
<1>2. CASE ReadLatestForBackfill(b)
    <2> DEFINE k == [backfill[b] EXCEPT !.seen = Latest(chain), !.pc = "update"]
    <2>1. /\ BackfillProceeds(b, k) /\ chain' = chain /\ renumbered' = renumbered
          /\ backfill[b].pc = "latest"
        BY <1>2 DEF ReadLatestForBackfill
    <2>2. k.batch = backfill[b].batch /\ k.pc = "update" /\ k.seen = Latest(chain)
        BY <1>0 DEF BackfillFields
    <2> HIDE DEF k
    <2>3. BackfillLinked(k, chain)
        BY <1>0, <2>2, LatestIsSeen DEF BackfillLinked
    <2>4. k.batch = Legacy /\ Legacy # <<>>
        BY <1>0, <2>1, <2>2 DEF Batches
    <2> QED
        BY <1>0, <2>1, <2>2, <2>3, <2>4, BackfillStepKeepsLink DEF LinkedInvariant, UnlessRenumbered
<1>3. CASE Renumber(b)
    <2>1. renumbered' = renumbered
        BY <1>3 DEF Renumber
    <2> QED
        BY <1>0, <1>3, <2>1, RenumberKeepsLink DEF LinkedInvariant, UnlessRenumbered
<1>4. CASE CommitBackfill(b)
    <2> DEFINE k == [backfill[b] EXCEPT !.pc = "done", !.written = Empty]
    <2>1. BackfillProceeds(b, k) /\ (renumbered => renumbered')
        BY <1>4 DEF CommitBackfill
    <2>2. k.pc = "done"
        BY <1>0 DEF BackfillFields
    <2> HIDE DEF k
    <2>3. /\ backfill'[b] = k /\ \A o \in Backfiller \ {b} : backfill'[o] = backfill[o]
        BY <1>0, <2>1, BackfillProceedsMoves
    <2>4. Batches'
        BY <1>0, <2>2, <2>3 DEF Batches
    <2>5. UnlessRenumbered'
        BY <1>0, <1>4, <2>1, CommitBackfillKeepsLink DEF LinkedInvariant, UnlessRenumbered
    <2> QED
        BY <2>4, <2>5 DEF LinkedInvariant
<1>5. CASE BackfillFails(b)
    <2> DEFINE k == [backfill[b] EXCEPT !.pc = "failed", !.written = Empty]
    <2>1. BackfillProceeds(b, k) /\ chain' = chain /\ renumbered' = renumbered
        BY <1>5 DEF BackfillFails
    <2>2. k.pc = "failed"
        BY <1>0 DEF BackfillFields
    <2> HIDE DEF k
    <2>3. BackfillLinked(k, chain)
        BY <2>2 DEF BackfillLinked
    <2> QED
        BY <1>0, <2>1, <2>2, <2>3, BackfillStepKeepsLink DEF LinkedInvariant, UnlessRenumbered
<1> QED
    BY <1>1, <1>2, <1>3, <1>4, <1>5 DEF BackfillStep

LEMMA OtherKeepsLink ==
    ASSUME LinkedInvariant, UNCHANGED <<mode, chain, call, backfill, renumbered>>
    PROVE  LinkedInvariant'
<1>1. Batches'
    BY DEF LinkedInvariant, Batches
<1>2. LinkInv => LinkInv'
    <2> SUFFICES ASSUME LinkInv PROVE LinkInv'
        OBVIOUS
    <2>1. /\ Whole(chain') /\ \A d \in Call : CallLinked(call'[d], chain')
          /\ mode'.retry # "snapshot" => \A c \in Call : Overtaken(call'[c], chain')
          /\ \A o \in Backfiller : BackfillLinked(backfill'[o], chain')
        BY DEF LinkInv
    <2> QED
        BY <2>1 DEF LinkInv
<1> QED
    BY <1>1, <1>2 DEF LinkedInvariant, UnlessRenumbered

LEMMA LinkInit == Init => LinkedInvariant
<1> SUFFICES ASSUME Init PROVE LinkedInvariant
    OBVIOUS
<1>1. chain = Empty /\ DOMAIN Empty = {}
    BY EmptyIs DEF Init
<1>2. Whole(chain)
    BY <1>1 DEF Whole, Linked
<1>3. Follows(Empty, chain)
    BY <1>1, <1>2, NothingFollows
<1>4. \A c \in Call :
        /\ call[c].pc = "read" /\ call[c].attempts = 0 /\ call[c].written = Empty
        /\ call[c].snapshot = <<>>
    BY DEF Init
<1>5. \A c \in Call : CallLinked(call[c], chain) /\ Overtaken(call[c], chain)
    BY <1>3, <1>4 DEF CallLinked, Overtaken
<1>6. \A b \in Backfiller : backfill[b].pc = "idle"
    BY DEF Init
<1>7. Batches /\ \A b \in Backfiller : BackfillLinked(backfill[b], chain)
    BY <1>6 DEF Batches, BackfillLinked
<1> QED
    BY <1>2, <1>5, <1>7 DEF LinkedInvariant, UnlessRenumbered, LinkInv

-----------------------------------------------------------------------------
\* As long as no backfill numbers again what another numbered: the entries of the
\* chain, and those with what any one open transaction has written, are linked from 1
\* without a gap; what was read as the latest entry is still in the chain; and a call
\* knows how often it was overtaken.
THEOREM LinkIsInvariant == Spec => [](OnceInvariant /\ LinkedInvariant)
<1>1. Init => LinkedInvariant
    BY LinkInit
<1>2. OnceInvariant /\ LinkedInvariant /\ [Next]_vars => LinkedInvariant'
    <2> SUFFICES ASSUME OnceInv, Numbers, LinkedInvariant, [Next]_vars PROVE LinkedInvariant'
        BY DEF OnceInvariant
    <2>1. CASE \E c \in Call : AppendStep(c)
        <3>1. PICK c \in Call : AppendStep(c)
            BY <2>1
        <3>2. backfill' = backfill /\ renumbered' = renumbered
            BY <3>1 DEF AppendStep, ReadLatest, Insert, Collide, RetryInAborted, LogAnother,
               Commit, CommitUnacknowledged, RollBack, Proceeds
        <3>3. Batches'
            BY <3>2 DEF LinkedInvariant, Batches
        <3>4. UnlessRenumbered'
            BY <3>1, <3>2, AppendKeepsLink DEF LinkedInvariant, UnlessRenumbered
        <3> QED
            BY <3>3, <3>4 DEF LinkedInvariant
    <2>2. CASE \E b \in Backfiller : BackfillStep(b)
        BY <2>2, BackfillKeepsLink
    <2>3. CASE \E v \in Verifier : ReadPage(v)
        BY <2>3, OtherKeepsLink DEF ReadPage
    <2>4. CASE Edit
        BY <2>4, OtherKeepsLink DEF Edit
    <2>5. CASE UNCHANGED vars
        BY <2>5, OtherKeepsLink DEF vars
    <2> QED
        BY <2>1, <2>2, <2>3, <2>4, <2>5 DEF Next
<1> QED
    BY <1>1, <1>2, OnceIsInvariant, PTL DEF Spec

\* The committed entries are one chain without a gap, whatever appends and backfills
\* run at once, fail or are rolled back, unless a backfill has numbered again what
\* another had numbered (appendEntry, backfillChain, the unique index).
THEOREM ChainStaysLinked == Spec => []ChainIsLinked
<1>1. LinkedInvariant => ChainIsLinked
    BY DEF LinkedInvariant, UnlessRenumbered, LinkInv, Whole, ChainIsLinked
<1> QED
    BY <1>1, LinkIsInvariant, PTL

\* A call gives up for contention only if the chain grew as often as it tried: the
\* retries of create lose to an entry committed since the read before, never twice
\* to the same one.
THEOREM CallsWereOvertaken == Spec => []ContentionIsReal
<1>1. LinkedInvariant => ContentionIsReal
    BY DEF LinkedInvariant, UnlessRenumbered, LinkInv, Overtaken, ContentionIsReal
<1> QED
    BY <1>1, LinkIsInvariant, PTL

-----------------------------------------------------------------------------
\* Pages

\* A page has the next numbers after one, as many as fit, and is cut nowhere else.
LEMMA PageIs ==
    ASSUME Numbered(chain), NEW after \in Nat
    PROVE  LET page == ChainPage(after)
           IN  /\ page \subseteq DOMAIN chain /\ \A s \in page : s > after
               /\ \A s \in page, r \in DOMAIN chain : after < r /\ r <= s => r \in page
               /\ Cardinality(page) # PageSize =>
                    \A s \in DOMAIN chain : s > after => s \in page
<1> DEFINE page == ChainPage(after)
           UpTo(s) == {r \in DOMAIN chain : after < r /\ r <= s}
<1>0. DOMAIN chain \subseteq Nat /\ PageSize \in Nat \ {0}
    BY AuditAssumption DEF Numbered
<1>1. page = {s \in DOMAIN chain : s > after /\ Cardinality(UpTo(s)) <= PageSize}
    BY DEF ChainPage
<1>2. \A s \in Nat : IsFiniteSet(UpTo(s)) /\ Cardinality(UpTo(s)) \in Nat
    <2> SUFFICES ASSUME NEW s \in Nat
                 PROVE  IsFiniteSet(UpTo(s)) /\ Cardinality(UpTo(s)) \in Nat
        OBVIOUS
    <2>1. UpTo(s) \in SUBSET Nat /\ \A r \in UpTo(s) : r <= s
        BY <1>0
    <2> HIDE DEF UpTo
    <2> QED
        BY <2>1, FS_BoundedSetOfNaturals, FS_CardinalityType
<1>3. ASSUME NEW s \in page, NEW r \in DOMAIN chain, after < r, r <= s PROVE r \in page
    <2>1. s \in Nat /\ r \in Nat /\ s \in DOMAIN chain
        BY <1>0, <1>1
    <2>2. UpTo(r) \subseteq UpTo(s)
        BY <1>0, <1>3, <2>1
    <2>3. Cardinality(UpTo(s)) <= PageSize
        BY <1>1
    <2>4. r > after
        BY <1>3, <2>1
    <2> HIDE DEF UpTo, page
    <2>5. Cardinality(UpTo(r)) <= Cardinality(UpTo(s))
        BY <1>2, <2>1, <2>2, FS_Subset
    <2>6. Cardinality(UpTo(r)) <= PageSize
        BY <1>0, <1>2, <2>1, <2>3, <2>5
    <2> QED
        BY <1>1, <2>4, <2>6
<1>4. ASSUME Cardinality(page) # PageSize, NEW x \in DOMAIN chain, x > after, x \notin page
      PROVE  FALSE
    <2> DEFINE Beyond == {s \in DOMAIN chain : s > after /\ s \notin page}
    <2>1. Beyond \subseteq Nat /\ Beyond # {}
        BY <1>0, <1>4
    <2>2. PICK s \in Beyond : \A y \in Beyond : s <= y
        BY <2>1, NatMin
    <2>3. s \in Nat /\ s \in DOMAIN chain /\ s > after /\ s \notin page
        BY <1>0, <2>2
    <2>4. ASSUME NEW r \in UpTo(s), r # s PROVE r \in page
        <3>1. r \in DOMAIN chain /\ r \in Nat /\ r > after /\ r < s
            BY <1>0, <2>3, <2>4
        <3>2. r \notin Beyond
            BY <2>2, <2>3, <3>1
        <3> QED
            BY <3>1, <3>2
    <2>5. \A r \in page : r \in DOMAIN chain /\ r \in Nat /\ after < r /\ r <= s
        <3> SUFFICES ASSUME NEW r \in page PROVE r \in DOMAIN chain /\ r \in Nat /\ after < r /\ r <= s
            OBVIOUS
        <3>1. r \in DOMAIN chain /\ r \in Nat /\ after < r
            BY <1>0, <1>1
        <3>2. CASE s <= r
            <4>1. after < s
                BY <2>3
            <4> QED
                BY <1>3, <2>3, <3>2, <4>1
        <3> QED
            BY <2>3, <3>1, <3>2
    <2>6. s \in UpTo(s) /\ page \subseteq UpTo(s)
        BY <2>3, <2>5
    <2>7. UpTo(s) = page \cup {s}
        BY <2>4, <2>6
    <2>8. page \in SUBSET UpTo(s)
        BY <2>6
    <2>9. IsFiniteSet(page) /\ Cardinality(page) \in Nat
        <3> HIDE DEF UpTo, page
        <3> QED
            BY <1>2, <2>3, <2>8, FS_Subset, FS_CardinalityType
    <2>10. Cardinality(page) <= PageSize
        <3>1. CASE page = {}
            BY <1>0, <3>1, FS_EmptySet
        <3>2. CASE page # {}
            <4>1. page \subseteq Nat /\ \A r \in page : r <= s
                BY <2>5
            <4>2. PICK m \in page : \A y \in page : y <= m
                BY <2>3, <3>2, <4>1, NatMax
            <4>3. m \in Nat /\ Cardinality(UpTo(m)) <= PageSize
                BY <1>1, <4>1
            <4>4. page \subseteq UpTo(m)
                BY <2>5, <4>2
            <4> HIDE DEF UpTo, page
            <4>5. Cardinality(page) <= Cardinality(UpTo(m))
                BY <1>2, <4>3, <4>4, FS_Subset
            <4> QED
                BY <1>0, <1>2, <2>9, <4>3, <4>5
        <3> QED
            BY <3>1, <3>2
    <2> HIDE DEF UpTo, page
    <2>11. Cardinality(UpTo(s)) = Cardinality(page) + 1
        BY <2>3, <2>7, <2>9, FS_AddElement
    <2>12. Cardinality(UpTo(s)) <= PageSize
        BY <1>0, <1>4, <2>9, <2>10, <2>11
    <2> QED
        BY <1>1, <2>3, <2>12
<1>5. page \subseteq DOMAIN chain /\ \A s \in page : s > after
    BY <1>1
<1> HIDE DEF page
<1> QED
    BY <1>3, <1>4, <1>5 DEF page

-----------------------------------------------------------------------------
\* What stays of a chain when a backfill moves rows

\* Two chains with the same entries at the first numbers have the same hashes there.
LEMMA SameIdsSameHashes ==
    ASSUME NEW f, NEW g, Linked(f), Linked(g), Numbered(f), Numbered(g),
           NEW n \in DOMAIN f, n \in DOMAIN g,
           \A s \in DOMAIN f : s <= n => s \in DOMAIN g /\ f[s].id = g[s].id
    PROVE  f[n].hash = g[n].hash
<1> DEFINE Differ == {s \in DOMAIN f : s <= n /\ f[s].hash # g[s].hash}
<1>0. n \in Nat /\ DOMAIN f \subseteq Nat
    BY DEF Numbered
<1> SUFFICES ASSUME Differ # {} PROVE FALSE
    BY <1>0
<1>1. PICK m \in Differ : \A y \in Differ : m <= y
    BY <1>0, NatMin
<1>2. /\ m \in DOMAIN f /\ m \in Nat /\ m <= n /\ f[m].hash # g[m].hash /\ 1 <= m
      /\ m \in DOMAIN g /\ f[m].id = g[m].id
    BY <1>0, <1>1, LinkedFromOne
<1>3. f[m].previous = g[m].previous
    <2>1. CASE m = 1
        BY <1>2, <2>1 DEF Linked
    <2>2. CASE m # 1
        <3>1. m - 1 \in DOMAIN f /\ m - 1 < m /\ m - 1 <= n /\ m - 1 \in Nat
            BY <1>0, <1>2, <2>2 DEF Linked
        <3>2. m - 1 \notin Differ
            BY <1>1, <1>2, <3>1
        <3>3. f[m - 1].hash = g[m - 1].hash
            BY <3>1, <3>2
        <3> HIDE DEF Differ
        <3> QED
            BY <1>2, <2>2, <3>3 DEF Linked
    <2> QED
        BY <2>1, <2>2
<1>4. /\ f[m].hash = EntryHash(f[m].previous, m, f[m].id)
      /\ g[m].hash = EntryHash(g[m].previous, m, g[m].id)
    BY <1>2 DEF Linked
<1> QED
    BY <1>2, <1>3, <1>4

\* Rows that name each entry of an older version once.
BatchOnce(rows) ==
    /\ \A id \in LegacyIds : \E s \in DOMAIN rows : rows[s].id = id
    /\ \A s, t \in DOMAIN rows : rows[s].id = rows[t].id => s = t

LegacyOnce ==
    /\ \A s, t \in DOMAIN chain :
         chain[s].id = chain[t].id /\ chain[s].id \in LegacyIds => s = t
    /\ \A b \in Backfiller : backfill[b].pc = "hold" => BatchOnce(backfill[b].written)

LEMMA RenumberedOnce ==
    ASSUME NEW head, head.sequence \in Nat PROVE BatchOnce(Renumbered(head, Legacy))
<1> DEFINE rows == Renumbered(head, Legacy)
<1>1. Legacy \in Seq(LegacyIds)
    BY AuditAssumption DEF LegacyIds
<1>2. Len(Legacy) \in Nat /\ DOMAIN Legacy = 1 .. Len(Legacy)
    BY <1>1
<1>3. DOMAIN rows = head.sequence + 1 .. head.sequence + Len(Legacy)
    BY DEF Renumbered
<1>4. \A s \in DOMAIN rows : s \in Nat /\ s - head.sequence \in DOMAIN Legacy
                             /\ rows[s].id = Legacy[s - head.sequence]
    BY RenumberedIds
<1> HIDE DEF rows
<1>5. ASSUME NEW id \in LegacyIds PROVE \E s \in DOMAIN rows : rows[s].id = id
    <2>1. PICK i \in DOMAIN Legacy : id = Legacy[i]
        BY DEF LegacyIds
    <2>2. i \in Nat /\ head.sequence + i \in DOMAIN rows /\ (head.sequence + i) - head.sequence = i
        BY <1>2, <1>3, <2>1
    <2>3. rows[head.sequence + i].id = Legacy[(head.sequence + i) - head.sequence]
        BY <1>4, <2>2
    <2> QED
        BY <2>1, <2>2, <2>3
<1>6. ASSUME NEW s \in DOMAIN rows, NEW t \in DOMAIN rows, rows[s].id = rows[t].id PROVE s = t
    <2>1. s - head.sequence = t - head.sequence
        BY <1>4, <1>6, AuditAssumption
    <2> QED
        BY <1>4, <2>1
<1> QED
    BY <1>5, <1>6 DEF BatchOnce, rows

\* A commit of a call adds entries and moves none, whatever backfills do.
LEMMA AppendGrows ==
    ASSUME OnceInv, NEW c \in Call, AppendStep(c)
    PROVE  /\ Grown(chain, chain') /\ edited' = edited /\ backfill' = backfill
           /\ renumbered' = renumbered
           /\ \A s \in DOMAIN chain' \ DOMAIN chain :
                chain'[s] = call[c].written[s] /\ s \in DOMAIN call[c].written
                /\ call[c].pc = "hold"
<1>1. edited' = edited /\ backfill' = backfill /\ renumbered' = renumbered
    BY DEF AppendStep, ReadLatest, Insert, Collide, RetryInAborted, LogAnother,
       Commit, CommitUnacknowledged, RollBack, Proceeds
<1>2. CASE chain' = chain
    BY <1>1, <1>2 DEF Grown
<1>3. CASE chain' = Over(chain, call[c].written) /\ call[c].pc = "hold"
    <2>1. \A s \in DOMAIN call[c].written : s \notin DOMAIN chain
        BY DEF OnceInv, CallHolds
    <2> DEFINE W == call[c].written
    <2>2. /\ DOMAIN chain' = DOMAIN chain \cup DOMAIN W
          /\ \A s \in DOMAIN W : chain'[s] = W[s]
          /\ \A s \in DOMAIN chain \ DOMAIN W : chain'[s] = chain[s]
        BY <1>3 DEF Over
    <2>3. \A s \in DOMAIN W : s \notin DOMAIN chain
        BY <2>1
    <2>4. \A s \in DOMAIN chain' \ DOMAIN chain : chain'[s] = W[s] /\ s \in DOMAIN W
        BY <2>2
    <2> HIDE DEF W
    <2>5. Grown(chain, chain')
        BY <2>2, <2>3 DEF Grown
    <2> USE DEF W
    <2> QED
        BY <1>1, <1>3, <2>4, <2>5
<1> QED
    BY <1>2, <1>3 DEF AppendStep, ReadLatest, Insert, Collide, RetryInAborted, LogAnother,
       Commit, CommitUnacknowledged, RollBack

LEMMA LegacyOnceInit == Init => LegacyOnce
BY EmptyIs DEF Init, LegacyOnce

LEMMA AppendKeepsLegacyOnce ==
    ASSUME OnceInv, LegacyOnce, NEW c \in Call, AppendStep(c) PROVE LegacyOnce'
<1>1. /\ Grown(chain, chain') /\ backfill' = backfill
      /\ \A s \in DOMAIN chain' \ DOMAIN chain :
           chain'[s] = call[c].written[s] /\ s \in DOMAIN call[c].written /\ call[c].pc = "hold"
    BY AppendGrows
<1>2. ASSUME NEW s \in DOMAIN chain', s \notin DOMAIN chain PROVE chain'[s].id \notin LegacyIds
    <2>1. /\ s \in DOMAIN call[c].written /\ chain'[s] = call[c].written[s]
          /\ OnceIn(c, call[c]) /\ Recorded(call[c]) = call[c].entry /\ call[c].entry \in Nat
        BY <1>1, <1>2 DEF OnceInv, WritesOnce, Working, Recorded, Shapes
    <2>2. PICK n \in 1 .. call[c].entry : chain'[s].id = <<c, n>>
        BY <2>1 DEF OnceIn
    <2>3. n \in Nat
        BY <2>1
    <2> QED
        BY <2>2, <2>3, AuditAssumption DEF LegacyIds
<1>3. \A s, t \in DOMAIN chain' :
        chain'[s].id = chain'[t].id /\ chain'[s].id \in LegacyIds => s = t
    BY <1>1, <1>2 DEF LegacyOnce, Grown
<1> QED
    BY <1>1, <1>3 DEF LegacyOnce

\* What a backfill's commit does to the chain.
LEMMA CommitBackfillIs ==
    ASSUME OnceInv, Batches, NEW b \in Backfiller, CommitBackfill(b)
    PROVE  LET W == backfill[b].written
           IN  /\ backfill[b].pc = "hold"
               /\ DOMAIN chain' =
                    {s \in DOMAIN chain : chain[s].id \notin LegacyIds} \cup DOMAIN W
               /\ \A s \in DOMAIN W : chain'[s] = W[s] /\ W[s].id \in LegacyIds
               /\ \A s \in DOMAIN W \cap DOMAIN chain : chain[s].id = W[s].id
               /\ \A s \in DOMAIN chain \ DOMAIN W :
                    chain[s].id \notin LegacyIds => chain'[s] = chain[s]
               /\ (renumbered => renumbered')
               /\ ~renumbered' => \A s \in DOMAIN chain : chain[s].id \notin LegacyIds
               /\ \A o \in Backfiller : backfill'[o].pc = "hold" =>
                    backfill[o].pc = "hold" /\ backfill'[o].written = backfill[o].written
               /\ edited' = edited
<1> DEFINE batch == {backfill[b].batch[i] : i \in DOMAIN backfill[b].batch}
           kept == [s \in {r \in DOMAIN chain : chain[r].id \notin batch} |-> chain[s]]
           W == backfill[b].written
           k == [backfill[b] EXCEPT !.pc = "done", !.written = Empty]
<1>1. /\ backfill[b].pc = "hold" /\ chain' = Over(kept, W) /\ BackfillProceeds(b, k)
      /\ renumbered' = (renumbered \/ DOMAIN kept # DOMAIN chain)
    BY DEF CommitBackfill
<1>2. batch = LegacyIds
    BY <1>1 DEF Batches, LegacyIds
<1>3. /\ DOMAIN kept = {s \in DOMAIN chain : chain[s].id \notin LegacyIds}
      /\ \A s \in DOMAIN kept : kept[s] = chain[s]
    BY <1>2
<1>4. DOMAIN backfill[b] = BackfillFields /\ k.pc = "done"
    BY DEF OnceInv, Shapes, BackfillFields
<1> HIDE DEF k, kept
<1>5. /\ backfill'[b] = k /\ \A o \in Backfiller \ {b} : backfill'[o] = backfill[o]
      /\ edited' = edited
    BY <1>1, BackfillProceedsMoves DEF OnceInv
<1>6. \A s \in DOMAIN W : W[s].id \in LegacyIds /\ (s \in DOMAIN chain => chain[s].id = W[s].id)
    BY <1>1 DEF OnceInv, BackfillHolds
<1> HIDE DEF W
<1>7. /\ DOMAIN chain' = DOMAIN kept \cup DOMAIN W
      /\ \A s \in DOMAIN W : chain'[s] = W[s]
      /\ \A s \in DOMAIN kept \ DOMAIN W : chain'[s] = kept[s]
    BY <1>1 DEF Over
<1>8. \A s \in DOMAIN chain \ DOMAIN W : chain[s].id \notin LegacyIds => chain'[s] = chain[s]
    BY <1>3, <1>7
<1>9. ~renumbered' => \A s \in DOMAIN chain : chain[s].id \notin LegacyIds
    BY <1>1, <1>3
<1>10. \A o \in Backfiller : backfill'[o].pc = "hold" =>
         backfill[o].pc = "hold" /\ backfill'[o].written = backfill[o].written
    BY <1>4, <1>5
<1>11. renumbered => renumbered'
    BY <1>1
<1>12. DOMAIN chain' = {s \in DOMAIN chain : chain[s].id \notin LegacyIds} \cup DOMAIN W
    BY <1>3, <1>7
<1>13. \A s \in DOMAIN W : chain'[s] = W[s] /\ W[s].id \in LegacyIds
    BY <1>6, <1>7
<1>14. \A s \in DOMAIN W \cap DOMAIN chain : chain[s].id = W[s].id
    BY <1>6
<1> QED
    BY <1>1, <1>5, <1>8, <1>9, <1>10, <1>11, <1>12, <1>13, <1>14 DEF W

LEMMA CommitBackfillKeepsLegacyOnce ==
    ASSUME OnceInv, Batches, LegacyOnce, NEW b \in Backfiller, CommitBackfill(b)
    PROVE  LegacyOnce'
<1> DEFINE W == backfill[b].written
<1>1. /\ backfill[b].pc = "hold"
      /\ DOMAIN chain' = {s \in DOMAIN chain : chain[s].id \notin LegacyIds} \cup DOMAIN W
      /\ \A s \in DOMAIN W : chain'[s] = W[s]
      /\ \A s \in DOMAIN chain \ DOMAIN W :
           chain[s].id \notin LegacyIds => chain'[s] = chain[s]
      /\ \A o \in Backfiller : backfill'[o].pc = "hold" =>
           backfill[o].pc = "hold" /\ backfill'[o].written = backfill[o].written
    BY CommitBackfillIs
<1>2. BatchOnce(W)
    BY <1>1 DEF LegacyOnce
<1> HIDE DEF W
<1>3. ASSUME NEW s \in DOMAIN chain', chain'[s].id \in LegacyIds PROVE s \in DOMAIN W
    BY <1>1, <1>3
<1>4. \A s, t \in DOMAIN chain' :
        chain'[s].id = chain'[t].id /\ chain'[s].id \in LegacyIds => s = t
    BY <1>1, <1>2, <1>3 DEF BatchOnce
<1>5. \A o \in Backfiller : backfill'[o].pc = "hold" => BatchOnce(backfill'[o].written)
    BY <1>1 DEF LegacyOnce
<1> QED
    BY <1>4, <1>5 DEF LegacyOnce

LEMMA BackfillKeepsLegacyOnce ==
    ASSUME OnceInv, Numbers, Batches, LegacyOnce, NEW b \in Backfiller, BackfillStep(b)
    PROVE  LegacyOnce'
<1>0. /\ DOMAIN backfill[b] = BackfillFields
      /\ backfill[b].seen.sequence \in Nat
    BY DEF OnceInv, Shapes, Numbers
<1>1. CASE CommitBackfill(b)
    BY <1>1, CommitBackfillKeepsLegacyOnce
<1>2. ASSUME chain' = chain, NEW k, BackfillProceeds(b, k),
             k.pc = "hold" => BatchOnce(k.written)
      PROVE  LegacyOnce'
    <2>1. backfill'[b] = k /\ \A o \in Backfiller \ {b} : backfill'[o] = backfill[o]
        BY <1>2, BackfillProceedsMoves DEF OnceInv
    <2>2. \A o \in Backfiller : backfill'[o].pc = "hold" => BatchOnce(backfill'[o].written)
        BY <1>2, <2>1 DEF LegacyOnce
    <2>3. \A s, t \in DOMAIN chain' :
            chain'[s].id = chain'[t].id /\ chain'[s].id \in LegacyIds => s = t
        BY <1>2 DEF LegacyOnce
    <2> QED
        BY <2>2, <2>3 DEF LegacyOnce
<1>3. CASE ReadLegacy(b)
    <2> DEFINE k == [backfill[b] EXCEPT
                       !.batch = legacy, !.pc = IF legacy = <<>> THEN "done" ELSE "latest"]
    <2>1. chain' = chain /\ BackfillProceeds(b, k)
        BY <1>3 DEF ReadLegacy
    <2>2. k.pc # "hold"
        BY <1>0 DEF BackfillFields
    <2> HIDE DEF k
    <2> QED
        BY <1>2, <2>1, <2>2
<1>4. CASE ReadLatestForBackfill(b)
    <2> DEFINE k == [backfill[b] EXCEPT !.seen = Latest(chain), !.pc = "update"]
    <2>1. chain' = chain /\ BackfillProceeds(b, k)
        BY <1>4 DEF ReadLatestForBackfill
    <2>2. k.pc # "hold"
        BY <1>0 DEF BackfillFields
    <2> HIDE DEF k
    <2> QED
        BY <1>2, <2>1, <2>2
<1>5. CASE BackfillFails(b)
    <2> DEFINE k == [backfill[b] EXCEPT !.pc = "failed", !.written = Empty]
    <2>1. chain' = chain /\ BackfillProceeds(b, k)
        BY <1>5 DEF BackfillFails
    <2>2. k.pc # "hold"
        BY <1>0 DEF BackfillFields
    <2> HIDE DEF k
    <2> QED
        BY <1>2, <2>1, <2>2
<1>6. CASE Renumber(b)
    <2> DEFINE rows == Renumbered(backfill[b].seen, backfill[b].batch)
               k1 == [backfill[b] EXCEPT !.pc = "failed"]
               k2 == [backfill[b] EXCEPT !.pc = "hold", !.written = rows]
    <2>1. /\ backfill[b].pc = "update" /\ chain' = chain
          /\ BackfillProceeds(b, k1) \/ BackfillProceeds(b, k2)
        BY <1>6 DEF Renumber
    <2>2. k1.pc # "hold" /\ k2.written = rows
        BY <1>0 DEF BackfillFields
    <2>3. rows = Renumbered(backfill[b].seen, Legacy)
        BY <2>1 DEF Batches
    <2>4. BatchOnce(rows)
        BY <1>0, <2>3, RenumberedOnce
    <2> HIDE DEF k1, k2, rows
    <2> QED
        BY <1>2, <2>1, <2>2, <2>4
<1> QED
    BY <1>1, <1>3, <1>4, <1>5, <1>6 DEF BackfillStep

\* A head of a sound chain stays in it as long as the chain stays sound: what a
\* backfill moves then was the end of the chain and comes back to the same numbers.
LEMMA CommitBackfillKeepsHead ==
    ASSUME OnceInv, Numbers, Numbers', Batches, LegacyOnce, NEW b \in Backfiller,
           CommitBackfill(b), Linked(chain), Linked(chain'), NEW head, SeenIn(head, chain)
    PROVE  SeenIn(head, chain')
<1> DEFINE W == backfill[b].written
<1>1. /\ backfill[b].pc = "hold"
      /\ DOMAIN chain' = {s \in DOMAIN chain : chain[s].id \notin LegacyIds} \cup DOMAIN W
      /\ \A s \in DOMAIN W : chain'[s] = W[s] /\ W[s].id \in LegacyIds
      /\ \A s \in DOMAIN W \cap DOMAIN chain : chain[s].id = W[s].id
      /\ \A s \in DOMAIN chain \ DOMAIN W :
           chain[s].id \notin LegacyIds => chain'[s] = chain[s]
    BY CommitBackfillIs
<1>2. BatchOnce(W)
    BY <1>1 DEF LegacyOnce
<1>3. Numbered(chain) /\ Numbered(chain') /\ Numbered(W)
    BY DEF Numbers, Numbered
<1> HIDE DEF W
<1>4. DOMAIN chain \subseteq Nat /\ DOMAIN chain' \subseteq Nat /\ DOMAIN W \subseteq Nat
    BY <1>3 DEF Numbered
<1>5. ASSUME NEW r \in DOMAIN chain PROVE r \in DOMAIN chain'
    <2> SUFFICES ASSUME r \notin DOMAIN chain' PROVE FALSE
        OBVIOUS
    <2>1. chain[r].id \in LegacyIds /\ r \notin DOMAIN W /\ r \in Nat
        BY <1>1, <1>4
    <2>2. PICK s \in DOMAIN W : W[s].id = chain[r].id
        BY <1>2, <2>1 DEF BatchOnce
    <2>3. s \in DOMAIN chain' /\ s \in Nat
        BY <1>1, <1>4
    <2>4. CASE s <= r
        <3>1. s \in DOMAIN chain
            BY <1>3, <2>3, <2>4, LinkedIsFull, LinkedFromOne
        <3>2. chain[s].id = chain[r].id
            BY <1>1, <2>2, <3>1
        <3> QED
            BY <2>1, <2>2, <3>1, <3>2 DEF LegacyOnce
    <2>5. CASE r <= s
        BY <1>3, <2>1, <2>3, <2>5, LinkedIsFull, LinkedFromOne
    <2> QED
        BY <2>1, <2>3, <2>4, <2>5
<1>6. \A r \in DOMAIN chain : chain'[r].id = chain[r].id
    BY <1>1, <1>5
<1>7. CASE head.sequence = 0 /\ head.hash = Genesis
    BY <1>7 DEF SeenIn
<1>8. CASE head.sequence \in DOMAIN chain /\ head.hash = chain[head.sequence].hash
    <2> DEFINE n == head.sequence
               g == chain'
    <2>1. /\ n \in DOMAIN chain /\ n \in DOMAIN g /\ Linked(g) /\ Numbered(g)
          /\ \A s \in DOMAIN chain : s <= n => s \in DOMAIN g /\ chain[s].id = g[s].id
        BY <1>3, <1>5, <1>6, <1>8
    <2> HIDE DEF n, g
    <2>2. chain[n].hash = g[n].hash
        BY <1>3, <2>1, SameIdsSameHashes
    <2> USE DEF n, g
    <2> QED
        BY <1>8, <2>1, <2>2 DEF SeenIn
<1> QED
    BY <1>7, <1>8 DEF SeenIn

\* The content of an entry beyond a number has been changed.
EditedAhead(after) == \E s \in DOMAIN chain : s > after /\ chain[s].id \in edited

\* What any step does to a chain that a verification walks.
Walked ==
    /\ Sound /\ Sound' => \A head : SeenIn(head, chain) => SeenIn(head, chain')
    /\ ~renumbered' => ~renumbered /\ Grown(chain, chain')
    /\ edited \subseteq edited'

LEMMA StepsWalk ==
    ASSUME OnceInv, Numbers, Numbers', Batches, LegacyOnce, [Next]_vars PROVE Walked
<1>1. ASSUME Grown(chain, chain'), edited \subseteq edited', renumbered' = renumbered
      PROVE  Walked
    <2>1. \A head : SeenIn(head, chain) => SeenIn(head, chain')
        BY <1>1, SeenInGrown
    <2> QED
        BY <1>1, <2>1 DEF Walked
<1>2. ASSUME chain' = chain, edited \subseteq edited', renumbered' = renumbered PROVE Walked
    <2>1. Grown(chain, chain')
        BY <1>2 DEF Grown
    <2> QED
        BY <1>1, <1>2, <2>1
<1>3. CASE \E c \in Call : AppendStep(c)
    BY <1>1, <1>3, AppendGrows
<1>4. ASSUME NEW b \in Backfiller, BackfillStep(b) PROVE Walked
    <2>1. CASE CommitBackfill(b)
        <3>1. /\ renumbered => renumbered'
              /\ edited' = edited
            BY <2>1, CommitBackfillIs
        <3>2. Sound /\ Sound' => \A head : SeenIn(head, chain) => SeenIn(head, chain')
            BY <2>1, CommitBackfillKeepsHead DEF Sound
        <3>3. ASSUME ~renumbered' PROVE Grown(chain, chain')
            <4> DEFINE W == backfill[b].written
            <4>1. /\ DOMAIN chain' =
                       {s \in DOMAIN chain : chain[s].id \notin LegacyIds} \cup DOMAIN W
                  /\ \A s \in DOMAIN W : W[s].id \in LegacyIds
                  /\ \A s \in DOMAIN W \cap DOMAIN chain : chain[s].id = W[s].id
                  /\ \A s \in DOMAIN chain \ DOMAIN W :
                       chain[s].id \notin LegacyIds => chain'[s] = chain[s]
                  /\ \A s \in DOMAIN chain : chain[s].id \notin LegacyIds
                BY <2>1, <3>3, CommitBackfillIs
            <4> HIDE DEF W
            <4>2. \A s \in DOMAIN chain : s \notin DOMAIN W
                BY <4>1
            <4> QED
                BY <4>1, <4>2 DEF Grown
        <3> QED
            BY <3>1, <3>2, <3>3 DEF Walked
    <2>2. CASE ~CommitBackfill(b)
        <3>1. chain' = chain /\ edited' = edited /\ renumbered' = renumbered
            BY <1>4, <2>2 DEF BackfillStep, ReadLegacy, ReadLatestForBackfill, Renumber,
               BackfillFails, BackfillProceeds
        <3> QED
            BY <1>2, <3>1
    <2> QED
        BY <2>1, <2>2
<1>5. CASE \E v \in Verifier : ReadPage(v)
    BY <1>2, <1>5 DEF ReadPage
<1>6. CASE Edit
    BY <1>2, <1>6 DEF Edit
<1>7. CASE UNCHANGED vars
    BY <1>2, <1>7 DEF vars
<1> QED
    BY <1>3, <1>4, <1>5, <1>6, <1>7 DEF Next

-----------------------------------------------------------------------------
\* One page of a verification

PreviousHashIn(page, previous, s) ==
    IF {r \in page : r < s} = {} THEN previous
    ELSE chain[CHOOSE r \in {t \in page : t < s} : \A q \in {t \in page : t < s} : q <= r].hash

PageValid(after, previous) ==
    \A s \in ChainPage(after) :
        AuditLinkValid(PreviousHashIn(ChainPage(after), previous, s), s)

PageEnd(after) == Latest([s \in ChainPage(after) |-> chain[s]])

VerifierFields == {"pc", "after", "previous", "verdict"}
HeadOf(k) == [sequence |-> k.after, hash |-> k.previous]

\* A sound chain that still has the head a verification remembers is never called
\* broken.
LEMMA SoundPageIsValid ==
    ASSUME Sound, Numbered(chain), NEW k, k.after \in Nat, SeenIn(HeadOf(k), chain)
    PROVE  PageValid(k.after, k.previous)
<1> DEFINE n == k.after
           page == ChainPage(n)
<1>1. /\ page \subseteq DOMAIN chain /\ \A s \in page : s > n
      /\ \A s \in page, r \in DOMAIN chain : n < r /\ r <= s => r \in page
    BY PageIs
<1>2. /\ Linked(chain) /\ DOMAIN chain \subseteq Nat
      /\ \A s \in DOMAIN chain : chain[s].id \notin edited
    BY DEF Sound, Numbered
<1>3. \/ n = 0 /\ k.previous = Genesis
      \/ n \in DOMAIN chain /\ k.previous = chain[n].hash
    BY DEF SeenIn, HeadOf
<1> HIDE DEF page
<1> SUFFICES ASSUME NEW s \in page
             PROVE  AuditLinkValid(PreviousHashIn(page, k.previous, s), s)
    BY DEF PageValid, page
<1>4. /\ s \in DOMAIN chain /\ s \in Nat /\ s > n /\ n \in Nat
      /\ s = 1 \/ s - 1 \in DOMAIN chain
      /\ chain[s].previous = IF s = 1 THEN Genesis ELSE chain[s - 1].hash
      /\ chain[s].hash = EntryHash(chain[s].previous, s, chain[s].id)
      /\ chain[s].id \notin edited
    BY <1>1, <1>2 DEF Linked
<1> DEFINE Before == {r \in page : r < s}
<1>5. chain[s].previous = PreviousHashIn(page, k.previous, s)
    <2>1. CASE s = n + 1
        <3>1. Before = {}
            <4> SUFFICES ASSUME NEW r \in page, r < s PROVE FALSE
                OBVIOUS
            <4>1. r \in Nat /\ r > n
                BY <1>1, <1>2
            <4> QED
                BY <1>4, <2>1, <4>1
        <3>2. PreviousHashIn(page, k.previous, s) = k.previous
            BY <3>1 DEF PreviousHashIn
        <3>3. CASE n = 0
            <4>1. k.previous = Genesis
                BY <1>2, <1>3, <3>3, LinkedFromOne
            <4> QED
                BY <1>4, <2>1, <3>2, <3>3, <4>1
        <3>4. CASE n # 0
            <4>1. s # 1 /\ s - 1 = n
                BY <1>4, <2>1, <3>4
            <4> QED
                BY <1>3, <1>4, <3>2, <3>4, <4>1
        <3> QED
            BY <3>3, <3>4
    <2>2. CASE s # n + 1
        <3>1. s - 1 \in Nat /\ n < s - 1 /\ s - 1 <= s /\ s # 1 /\ s - 1 < s
            BY <1>4, <2>2
        <3>2. s - 1 \in page
            BY <1>1, <1>4, <3>1
        <3>3. s - 1 \in Before /\ \A q \in Before : q <= s - 1 /\ q \in Nat
            BY <1>1, <1>2, <1>4, <3>1, <3>2
        <3> DEFINE p == CHOOSE r \in Before : \A q \in Before : q <= r
        <3>4. p \in Before /\ \A q \in Before : q <= p
            BY <3>3
        <3>5. p = s - 1
            <4> HIDE DEF p, Before
            <4>1. p \in Nat /\ p <= s - 1 /\ s - 1 <= p
                BY <3>3, <3>4
            <4> QED
                BY <3>1, <4>1
        <3>6. PreviousHashIn(page, k.previous, s) = chain[p].hash
            BY <3>3 DEF PreviousHashIn
        <3> HIDE DEF p
        <3> QED
            BY <1>4, <3>1, <3>5, <3>6
    <2> QED
        BY <2>1, <2>2
<1> QED
    BY <1>4, <1>5 DEF AuditLinkValid

\* The last entry of a page that has one.
LEMMA PageEndIs ==
    ASSUME Numbered(chain), NEW after \in Nat, ChainPage(after) # {}
    PROVE  /\ PageEnd(after).sequence \in ChainPage(after)
           /\ PageEnd(after).sequence \in Nat
           /\ \A s \in ChainPage(after) : s <= PageEnd(after).sequence
           /\ PageEnd(after).hash = chain[PageEnd(after).sequence].hash
<1> DEFINE page == ChainPage(after)
           f == [s \in page |-> chain[s]]
<1>1. page \subseteq DOMAIN chain
    BY PageIs
<1>2. DOMAIN f = page /\ Numbered(f) /\ \A s \in page : f[s] = chain[s]
    BY <1>1 DEF Numbered
<1>3. PageEnd(after) = Latest(f)
    BY DEF PageEnd
<1> HIDE DEF f, page
<1> QED
    BY <1>2, <1>3, LatestIs DEF page

\* What a verification does with a page.
LEMMA ReadPageIs ==
    ASSUME NEW v \in Verifier, ReadPage(v), DOMAIN verifier = Verifier,
           DOMAIN verifier[v] = VerifierFields
    PROVE  LET old == verifier[v]
               new == verifier'[v]
               more == /\ PageValid(old.after, old.previous)
                       /\ Cardinality(ChainPage(old.after)) = PageSize
           IN  /\ old.pc \in {"idle", "reading"}
               /\ DOMAIN verifier' = Verifier
               /\ \A w \in Verifier \ {v} : verifier'[w] = verifier[w]
               /\ DOMAIN new = VerifierFields
               /\ more => /\ new.pc = "reading"
                          /\ new.after = PageEnd(old.after).sequence
                          /\ new.previous = PageEnd(old.after).hash
               /\ ~more => /\ new.pc = "done" /\ new.after = old.after
                           /\ new.verdict = PageValid(old.after, old.previous)
<1> DEFINE old == verifier[v]
           valid == PageValid(old.after, old.previous)
           more == valid /\ Cardinality(ChainPage(old.after)) = PageSize
           last == PageEnd(old.after)
           k == IF more
                THEN [old EXCEPT !.pc = "reading", !.after = last.sequence, !.previous = last.hash]
                ELSE [old EXCEPT !.pc = "done", !.verdict = valid]
<1>1. old.pc \in {"idle", "reading"} /\ verifier' = [verifier EXCEPT ![v] = k]
    BY DEF ReadPage, PageValid, PreviousHashIn, PageEnd
<1> HIDE DEF valid, last
<1>2. CASE more
    <2>1. k = [old EXCEPT !.pc = "reading", !.after = last.sequence, !.previous = last.hash]
        BY <1>2
    <2> HIDE DEF k
    <2> QED
        BY <1>1, <1>2, <2>1 DEF VerifierFields, valid, last
<1>3. CASE ~more
    <2>1. k = [old EXCEPT !.pc = "done", !.verdict = valid]
        BY <1>3
    <2> HIDE DEF k
    <2> QED
        BY <1>1, <1>3, <2>1 DEF VerifierFields, valid
<1> QED
    BY <1>2, <1>3

-----------------------------------------------------------------------------
\* The verdict

\* While a verification reads, either the chain was broken at some moment since its
\* first read, or it is sound and has the head the verification remembers; and either
\* it was sound at some moment, or entries were renumbered, or one that is not yet read
\* has changed content.
Judged(k, seen) ==
    /\ k.pc = "reading" =>
         /\ FALSE \in seen \/ (Sound /\ SeenIn(HeadOf(k), chain))
         /\ TRUE \in seen \/ renumbered \/ EditedAhead(k.after)
    /\ k.pc = "done" =>
         /\ ~k.verdict => FALSE \in seen
         /\ k.verdict => TRUE \in seen \/ renumbered

VerifierShape(k) ==
    /\ DOMAIN k = VerifierFields
    /\ k.pc \in {"idle", "reading", "done"}
    /\ k.after \in Nat
    /\ k.pc = "idle" => k.after = 0 /\ k.previous = Genesis

VerdictInv ==
    /\ DOMAIN verifier = Verifier
    /\ \A v \in Verifier : VerifierShape(verifier[v])
    /\ \A v \in Verifier : Judged(verifier[v], truth[v])

LEMMA TruthOf ==
    ASSUME NEW p \in BOOLEAN, NEW seen
    PROVE  /\ TRUE \in seen \cup {p} <=> (TRUE \in seen \/ p)
           /\ FALSE \in seen \cup {p} <=> (FALSE \in seen \/ ~p)
<1>1. CASE p = TRUE
    BY <1>1
<1>2. CASE p = FALSE
    BY <1>2
<1> QED
    BY <1>1, <1>2

\* What a step records for a verification.
LEMMA WitnessedIs ==
    ASSUME Witnessed, NEW v \in Verifier
    PROVE  /\ verifier[v].pc = "done" \/ verifier'[v].pc = "idle" => truth'[v] = truth[v]
           /\ ~(verifier[v].pc = "done" \/ verifier'[v].pc = "idle") =>
                /\ TRUE \in truth'[v] <=> (TRUE \in truth[v] \/ Sound')
                /\ FALSE \in truth'[v] <=> (FALSE \in truth[v] \/ ~Sound')
<1>1. truth'[v] = IF verifier[v].pc = "done" \/ verifier'[v].pc = "idle"
                  THEN truth[v] ELSE truth[v] \cup {Sound'}
    BY DEF Witnessed
<1>2. Sound' \in BOOLEAN
    BY DEF Sound, Linked
<1> DEFINE p == Sound'
<1>3. p \in BOOLEAN
    BY <1>2
<1> HIDE DEF p
<1>4. /\ TRUE \in truth[v] \cup {p} <=> (TRUE \in truth[v] \/ p)
      /\ FALSE \in truth[v] \cup {p} <=> (FALSE \in truth[v] \/ ~p)
    BY <1>3, TruthOf
<1>5. truth'[v] = IF verifier[v].pc = "done" \/ verifier'[v].pc = "idle"
                  THEN truth[v] ELSE truth[v] \cup {p}
    BY <1>1 DEF p
<1>6. p <=> Sound'
    BY DEF p
<1> HIDE DEF Sound
<1> QED
    BY <1>4, <1>5, <1>6

\* A step of others leaves a verification's place justified.
LEMMA WaitingStaysJudged ==
    ASSUME Walked, Witnessed, NEW v \in Verifier, verifier'[v] = verifier[v],
           VerifierShape(verifier[v]), Judged(verifier[v], truth[v])
    PROVE  Judged(verifier[v], truth[v])'
<1> DEFINE k == verifier[v]
<1>1. CASE k.pc = "reading"
    <2>1. /\ TRUE \in truth'[v] <=> (TRUE \in truth[v] \/ Sound')
          /\ FALSE \in truth'[v] <=> (FALSE \in truth[v] \/ ~Sound')
        BY <1>1, WitnessedIs
    <2>2. /\ FALSE \in truth[v] \/ (Sound /\ SeenIn(HeadOf(k), chain))
          /\ TRUE \in truth[v] \/ renumbered \/ EditedAhead(k.after)
        BY <1>1 DEF Judged
    <2>3. FALSE \in truth'[v] \/ (Sound' /\ SeenIn(HeadOf(k), chain'))
        BY <2>1, <2>2 DEF Walked
    <2>4. ~renumbered' /\ EditedAhead(k.after) =>
            \E s \in DOMAIN chain' : s > k.after /\ chain'[s].id \in edited'
        BY DEF Walked, Grown, EditedAhead
    <2>5. TRUE \in truth'[v] \/ renumbered' \/
            \E s \in DOMAIN chain' : s > k.after /\ chain'[s].id \in edited'
        BY <2>1, <2>2, <2>4 DEF Walked
    <2>6. /\ FALSE \in truth'[v] \/ (Sound' /\ SeenIn(HeadOf(verifier'[v]), chain'))
          /\ TRUE \in truth'[v] \/ renumbered' \/
               \E s \in DOMAIN chain' : s > verifier'[v].after /\ chain'[s].id \in edited'
          /\ verifier'[v].pc = "reading"
        BY <1>1, <2>3, <2>5
    <2> HIDE DEF k
    <2> QED
        BY <2>6 DEF Judged, EditedAhead
<1>2. CASE k.pc # "reading"
    <2>1. k.pc = "done" => truth'[v] = truth[v]
        BY WitnessedIs
    <2>2. renumbered => renumbered'
        BY DEF Walked
    <2>3. k.pc = "done" => (~k.verdict => FALSE \in truth'[v])
        BY <2>1 DEF Judged
    <2>4. k.pc = "done" => (k.verdict => TRUE \in truth'[v] \/ renumbered')
        BY <2>1, <2>2 DEF Judged
    <2>5. /\ verifier'[v].pc # "reading"
          /\ verifier'[v].pc = "done" =>
               /\ ~verifier'[v].verdict => FALSE \in truth'[v]
               /\ verifier'[v].verdict => TRUE \in truth'[v] \/ renumbered'
        BY <1>2, <2>3, <2>4
    <2> HIDE DEF k
    <2> QED
        BY <2>5 DEF Judged
<1> QED
    BY <1>1, <1>2

\* A page read keeps the verification justified, and its verdict is.
LEMMA ReadPageKeepsVerdict ==
    ASSUME Numbered(chain), ~renumbered => Linked(chain), VerdictInv, Witnessed,
           NEW v \in Verifier, ReadPage(v)
    PROVE  VerifierShape(verifier[v])' /\ Judged(verifier[v], truth[v])'
<1> DEFINE k == verifier[v]
           n == verifier'[v]
           page == ChainPage(k.after)
           valid == PageValid(k.after, k.previous)
           more == valid /\ Cardinality(page) = PageSize
<1>1. /\ VerifierShape(k) /\ Judged(k, truth[v])
      /\ DOMAIN verifier = Verifier /\ k.after \in Nat
    BY DEF VerdictInv, VerifierShape
<1>2. /\ k.pc \in {"idle", "reading"}
      /\ DOMAIN n = VerifierFields
      /\ more => /\ n.pc = "reading"
                 /\ n.after = PageEnd(k.after).sequence
                 /\ n.previous = PageEnd(k.after).hash
      /\ ~more => n.pc = "done" /\ n.after = k.after /\ n.verdict = valid
    BY <1>1, ReadPageIs DEF VerifierShape
<1>3. chain' = chain /\ edited' = edited /\ renumbered' = renumbered /\ (Sound' <=> Sound)
    BY DEF ReadPage, Sound
<1>4. /\ TRUE \in truth'[v] <=> (TRUE \in truth[v] \/ Sound)
      /\ FALSE \in truth'[v] <=> (FALSE \in truth[v] \/ ~Sound)
    BY <1>2, <1>3, WitnessedIs
<1>5. /\ page \subseteq DOMAIN chain /\ (\A s \in page : s > k.after)
      /\ \A s \in page, r \in DOMAIN chain : k.after < r /\ r <= s => r \in page
      /\ Cardinality(page) # PageSize => \A s \in DOMAIN chain : s > k.after => s \in page
    BY <1>1, PageIs
<1>6. more => /\ PageEnd(k.after).sequence \in page
              /\ PageEnd(k.after).sequence \in Nat
              /\ \A s \in page : s <= PageEnd(k.after).sequence
              /\ PageEnd(k.after).hash = chain[PageEnd(k.after).sequence].hash
    <2>1. more => page # {}
        BY FS_EmptySet, AuditAssumption
    <2> QED
        BY <1>1, <2>1, PageEndIs
\* As long as the chain was sound, the page is too.
<1>7. FALSE \in truth'[v] \/ (Sound /\ valid)
    <2> SUFFICES ASSUME FALSE \notin truth'[v] PROVE Sound /\ valid
        OBVIOUS
    <2>1. Sound /\ FALSE \notin truth[v]
        BY <1>4
    <2>2. SeenIn(HeadOf(k), chain)
        <3>1. CASE k.pc = "idle"
            BY <1>1, <3>1 DEF VerifierShape, SeenIn, HeadOf
        <3>2. CASE k.pc = "reading"
            BY <1>1, <2>1, <3>2 DEF Judged
        <3> QED
            BY <1>2, <3>1, <3>2
    <2> QED
        BY <1>1, <2>1, <2>2, SoundPageIsValid
\* As long as it was not, something is wrong beyond the pages read.
<1>8. valid => TRUE \in truth'[v] \/ renumbered \/
                 (more /\ \E s \in DOMAIN chain :
                            s > PageEnd(k.after).sequence /\ chain[s].id \in edited)
    <2> SUFFICES ASSUME valid, TRUE \notin truth'[v], ~renumbered
                 PROVE  more /\ \E s \in DOMAIN chain :
                            s > PageEnd(k.after).sequence /\ chain[s].id \in edited
        OBVIOUS
    <2>1. ~Sound /\ TRUE \notin truth[v]
        BY <1>4
    <2>2. PICK s \in DOMAIN chain : s > k.after /\ chain[s].id \in edited
        <3>1. CASE k.pc = "idle"
            <4>1. PICK s \in DOMAIN chain : chain[s].id \in edited
                BY <2>1 DEF Sound
            <4>2. s \in Nat /\ 1 <= s /\ k.after = 0
                BY <1>1, <3>1, LinkedFromOne DEF VerifierShape
            <4> QED
                BY <4>1, <4>2
        <3>2. CASE k.pc = "reading"
            BY <1>1, <2>1, <3>2 DEF Judged, EditedAhead
        <3> QED
            BY <1>2, <3>1, <3>2
    <2>3. s \notin page
        BY <2>2 DEF PageValid, AuditLinkValid
    <2>4. more
        BY <1>5, <2>2, <2>3
    <2>5. s \in Nat /\ k.after < s
        BY <1>1, <2>2 DEF Numbered
    <2>6. s > PageEnd(k.after).sequence
        BY <1>5, <1>6, <2>2, <2>3, <2>4, <2>5
    <2> QED
        BY <2>2, <2>4, <2>6
<1> HIDE DEF valid, page
<1>9. VerifierShape(n)
    BY <1>1, <1>2, <1>6 DEF VerifierShape
<1>10. CASE more
    <2>1. n.pc = "reading" /\ n.after = PageEnd(k.after).sequence /\ n.previous = PageEnd(k.after).hash
        BY <1>2, <1>10
    <2>2. SeenIn(HeadOf(n), chain)
        BY <1>5, <1>6, <1>10, <2>1 DEF SeenIn, HeadOf
    <2>3. FALSE \in truth'[v] \/ (Sound' /\ SeenIn(HeadOf(n), chain'))
        BY <1>3, <1>7, <2>2
    <2>4. TRUE \in truth'[v] \/ renumbered' \/
            \E s \in DOMAIN chain' : s > n.after /\ chain'[s].id \in edited'
        BY <1>3, <1>8, <1>10, <2>1
    <2>5. Judged(verifier[v], truth[v])'
        BY <2>1, <2>3, <2>4 DEF Judged, EditedAhead
    <2> QED
        BY <1>9, <2>5 DEF VerifierShape
<1>11. CASE ~more
    <2>1. n.pc = "done" /\ n.verdict = valid
        BY <1>2, <1>11
    <2>2. ~valid => FALSE \in truth'[v]
        BY <1>7
    <2>3. valid => TRUE \in truth'[v] \/ renumbered'
        BY <1>3, <1>8, <1>11
    <2>4. /\ ~n.verdict => FALSE \in truth'[v]
          /\ n.verdict => TRUE \in truth'[v] \/ renumbered'
        BY <2>1, <2>2, <2>3
    <2>5. Judged(verifier[v], truth[v])'
        BY <2>1, <2>4 DEF Judged
    <2> QED
        BY <1>9, <2>5 DEF VerifierShape
<1> QED
    BY <1>10, <1>11

LEMMA VerdictInit == Init => VerdictInv
<1> SUFFICES ASSUME Init PROVE VerdictInv
    OBVIOUS
<1>1. DOMAIN verifier = Verifier
    BY DEF Init
<1>2. \A v \in Verifier :
        /\ DOMAIN verifier[v] = VerifierFields
        /\ verifier[v].pc = "idle" /\ verifier[v].after = 0 /\ verifier[v].previous = Genesis
    BY DEF Init, VerifierFields
<1>3. \A v \in Verifier : VerifierShape(verifier[v])
    BY <1>2 DEF VerifierShape
<1>4. \A v \in Verifier : Judged(verifier[v], truth[v])
    BY <1>2 DEF Judged
<1> QED
    BY <1>1, <1>3, <1>4 DEF VerdictInv

\* The verdict of a verification was true of the chain at some moment while it ran,
\* although it reads page by page without a transaction (verifyChain).  The invariant
\* is Judged: a head it remembers stays in a chain that stays sound, even when a
\* backfill moves rows, and an entry changed before the first read is still ahead of
\* every page that was found valid.
VerdictInvariant == LegacyOnce /\ VerdictInv

THEOREM VerdictsWereTrue == Spec => []VerdictWasTrue
<1>1. Init => VerdictInvariant
    BY LegacyOnceInit, VerdictInit DEF VerdictInvariant
<1>2. /\ OnceInvariant /\ LinkedInvariant /\ VerdictInvariant
      /\ OnceInvariant' /\ [Next]_vars
      => VerdictInvariant'
    <2> SUFFICES ASSUME OnceInv, Numbers, Numbers', Batches, UnlessRenumbered, LegacyOnce,
                        VerdictInv, [Next]_vars
                 PROVE  LegacyOnce' /\ VerdictInv'
        BY DEF OnceInvariant, LinkedInvariant, VerdictInvariant
    <2>1. Walked
        BY StepsWalk
    <2>2. Numbered(chain) /\ (~renumbered => Linked(chain))
        BY DEF Numbers, UnlessRenumbered, LinkInv, Whole
    <2>3. ASSUME chain' = chain, backfill' = backfill PROVE LegacyOnce'
        BY <2>3 DEF LegacyOnce
    <2>4. LegacyOnce'
        <3>1. CASE \E c \in Call : AppendStep(c)
            BY <3>1, AppendKeepsLegacyOnce
        <3>2. CASE \E b \in Backfiller : BackfillStep(b)
            BY <3>2, BackfillKeepsLegacyOnce
        <3>3. CASE \E v \in Verifier : ReadPage(v)
            BY <2>3, <3>3 DEF ReadPage
        <3>4. CASE Edit
            BY <2>3, <3>4 DEF Edit
        <3>5. CASE UNCHANGED vars
            BY <2>3, <3>5 DEF vars
        <3> QED
            BY <3>1, <3>2, <3>3, <3>4, <3>5 DEF Next
    <2>5. ASSUME verifier' = verifier, Witnessed PROVE VerdictInv'
        <3>1. \A v \in Verifier : Judged(verifier[v], truth[v])'
            BY <2>1, <2>5, WaitingStaysJudged DEF VerdictInv
        <3>2. /\ DOMAIN verifier' = Verifier
              /\ \A v \in Verifier : VerifierShape(verifier'[v])
            BY <2>5 DEF VerdictInv
        <3> QED
            BY <3>1, <3>2 DEF VerdictInv
    <2>6. ASSUME NEW v \in Verifier, ReadPage(v), Witnessed PROVE VerdictInv'
        <3>1. /\ DOMAIN verifier' = Verifier
              /\ \A w \in Verifier \ {v} : verifier'[w] = verifier[w]
            BY <2>6, ReadPageIs DEF VerdictInv, VerifierShape
        <3>2. VerifierShape(verifier[v])' /\ Judged(verifier[v], truth[v])'
            BY <2>2, <2>6, ReadPageKeepsVerdict
        <3>3. \A w \in Verifier \ {v} :
                 VerifierShape(verifier[w])' /\ Judged(verifier[w], truth[w])'
            BY <2>1, <2>6, <3>1, WaitingStaysJudged DEF VerdictInv, VerifierShape
        <3> QED
            BY <3>1, <3>2, <3>3 DEF VerdictInv
    <2>7. CASE UNCHANGED vars
        <3>1. /\ chain' = chain /\ edited' = edited /\ renumbered' = renumbered
              /\ truth' = truth /\ verifier' = verifier
            BY <2>7 DEF vars
        <3>2. Sound' <=> Sound
            BY <3>1 DEF Sound
        <3>3. ASSUME NEW v \in Verifier PROVE Judged(verifier[v], truth[v])'
            <4>1. Judged(verifier[v], truth[v])
                BY DEF VerdictInv
            <4> QED
                BY <3>1, <3>2, <4>1 DEF Judged, EditedAhead
        <3>4. \A v \in Verifier : VerifierShape(verifier'[v])
            BY <3>1 DEF VerdictInv
        <3> QED
            BY <2>4, <3>1, <3>3, <3>4 DEF VerdictInv
    <2>8. CASE Next
        <3>1. Witnessed /\ (verifier' = verifier \/ \E v \in Verifier : ReadPage(v))
            BY <2>8 DEF Next, AppendStep, BackfillStep, Edit
        <3> QED
            BY <2>4, <2>5, <2>6, <3>1
    <2> QED
        BY <2>4, <2>7, <2>8
<1>3. VerdictInvariant => VerdictWasTrue
    BY DEF VerdictInvariant, VerdictInv, Judged, VerdictWasTrue
<1> QED
    BY <1>1, <1>2, <1>3, LinkIsInvariant, PTL DEF Spec

=============================================================================

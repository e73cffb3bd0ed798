----------------------------- MODULE AuditChain -----------------------------
(***************************************************************************)
(* The audit log of one tenant: entries that each carry the hash of the    *)
(* one before.  Calls append to it concurrently, alone or inside a         *)
(* business transaction, and repeat an append that lost its number to      *)
(* another; a backfill numbers the entries of older versions; a            *)
(* verification walks the chain page by page while all this goes on.       *)
(*                                                                         *)
(* The database gives transactions and the unique index on the number: an  *)
(* insert waits for a transaction that holds the same number and fails if  *)
(* it committed.  The row lock some stores take on the latest entry only   *)
(* removes interleavings and is left out.  A hash is the sequence of what  *)
(* was hashed, so equal hashes mean equal histories.                       *)
(***************************************************************************)
EXTENDS Naturals, Sequences, FiniteSets

CONSTANTS
    Call,           \* record() calls, or business transactions that log entries
    Backfiller,     \* calls of backfillChain
    Verifier,       \* calls of verifyChain
    Legacy,         \* the entries without a number, by created_at and id
    Modes,          \* how calls use transactions: [nested, retry]
    MaxRetries,     \* MAX_CHAIN_RETRIES
    PageSize,       \* MAX_AUDIT_LIST_LIMIT
    MaxEntries,     \* bound: entries one business transaction logs
    MaxFaults,      \* bound: statements that throw, commits without an answer
    MaxEdits        \* bound: entries changed in the database by other hands

\* nested: the append runs inside a business transaction.  retry: what a repeated
\* append finds there: the newest rows after a savepoint ("fresh"), a transaction
\* the database has aborted ("aborted"), or the rows of the transaction's snapshot.
ASSUME AuditAssumption ==
    /\ MaxRetries \in Nat \ {0} /\ PageSize \in Nat \ {0}
    /\ MaxEntries \in Nat \ {0} /\ MaxFaults \in Nat /\ MaxEdits \in Nat
    /\ Modes \subseteq [nested : BOOLEAN, retry : {"fresh", "aborted", "snapshot"}]
    /\ Legacy \in Seq({Legacy[i] : i \in DOMAIN Legacy})
    /\ \A i, j \in DOMAIN Legacy : Legacy[i] = Legacy[j] => i = j
    /\ \A i \in DOMAIN Legacy : Legacy[i] \notin Call \X Nat
    /\ Call \cap Backfiller = {}

VARIABLES
    mode,           \* the store and the kind of calls, chosen once
    chain,          \* committed numbered entries: sequence -> [id, previous, hash]
    legacy,         \* committed entries without a number
    call,           \* per call: its place, its transaction's rows, what it read
    backfill,       \* per backfill: the same
    verifier,       \* per verification: its place in the chain and its verdict
    faults,
    edited,         \* ids of entries whose content was changed after they were hashed
    renumbered,     \* a backfill has numbered again what another had numbered
    truth           \* per verification: whether the chain was sound while it ran

vars == <<mode, chain, legacy, call, backfill, verifier, faults, edited, renumbered, truth>>

Empty == [s \in {} |-> 0]
Over(f, g) == [s \in DOMAIN f \cup DOMAIN g |-> IF s \in DOMAIN g THEN g[s] ELSE f[s]]

Genesis == <<>>
EntryHash(previous, sequence, id) == Append(previous, <<sequence, id>>)
NewRow(head, id) ==
    [id |-> id, previous |-> head.hash, hash |-> EntryHash(head.hash, head.sequence + 1, id)]

\* The entry with the highest number, and what stands for it in an empty chain.
Latest(rows) ==
    IF DOMAIN rows = {}
    THEN [sequence |-> 0, hash |-> Genesis]
    ELSE LET s == CHOOSE s \in DOMAIN rows : \A r \in DOMAIN rows : r <= s
         IN  [sequence |-> s, hash |-> rows[s].hash]

\* A number that another open transaction holds: an insert of it waits.
HeldByOthers(s, who) ==
    \/ \E c \in Call \ {who} : s \in DOMAIN call[c].written
    \/ \E b \in Backfiller \ {who} : s \in DOMAIN backfill[b].written

Init ==
    /\ mode \in Modes
    /\ chain = Empty
    /\ legacy = Legacy
    /\ call = [c \in Call |->
                [pc |-> "read", entry |-> 1, attempts |-> 0, base |-> 0,
                 seen |-> Latest(Empty), snapshot |-> <<>>, written |-> Empty]]
    /\ backfill = [b \in Backfiller |->
                    [pc |-> "idle", batch |-> <<>>, seen |-> Latest(Empty), written |-> Empty]]
    /\ verifier = [v \in Verifier |->
                    [pc |-> "idle", after |-> 0, previous |-> Genesis, verdict |-> TRUE]]
    /\ faults = 0
    /\ edited = {}
    /\ renumbered = FALSE
    /\ truth = [v \in Verifier |-> {}]

-----------------------------------------------------------------------------
\* create and appendEntry

\* The call goes on as k; nothing else but the chain may change.
Proceeds(c, k) ==
    /\ call' = [call EXCEPT ![c] = k]
    /\ UNCHANGED <<mode, legacy, backfill, edited, renumbered>>

\* What a statement of the call's transaction sees.
View(c) ==
    Over(IF call[c].snapshot = <<>> THEN chain ELSE call[c].snapshot[1], call[c].written)

\* A repeated append finds its transaction aborted.
Aborted(c) == mode.nested /\ mode.retry = "aborted" /\ call[c].attempts > 0

MutReadLatestBeforeRetries(c) ==
    /\ call[c].pc = "read"
    /\ ~Aborted(c)
    /\ Proceeds(c, [call[c] EXCEPT
         !.pc = "insert",
         !.seen = IF call[c].attempts = 0 THEN Latest(View(c)) ELSE @,
         !.base = IF call[c].attempts = 0 THEN Latest(chain).sequence ELSE @])
    /\ UNCHANGED <<chain, faults>>

\* The transaction reads the latest entry and computes the next one from it.
ReadLatest(c) ==
    LET fixed == mode.nested /\ mode.retry = "snapshot" /\ call[c].snapshot = <<>>
    IN  /\ call[c].pc = "read"
        /\ ~Aborted(c)
        /\ Proceeds(c, [call[c] EXCEPT
             !.pc = "insert",
             !.seen = Latest(View(c)),
             !.base = IF call[c].attempts = 0 THEN Latest(chain).sequence ELSE @,
             !.snapshot = IF fixed THEN <<chain>> ELSE @])
        /\ UNCHANGED <<chain, faults>>

\* The insert is taken: the number is free.  Nobody else sees the entry yet.
Insert(c) ==
    LET s == call[c].seen.sequence + 1
        row == NewRow(call[c].seen, <<c, call[c].entry>>)
    IN  /\ call[c].pc = "insert"
        /\ s \notin DOMAIN chain \cup DOMAIN call[c].written
        /\ ~HeldByOthers(s, c)
        /\ Proceeds(c, [call[c] EXCEPT !.pc = "hold", !.written = Over(@, [n \in {s} |-> row])])
        /\ UNCHANGED <<chain, faults>>

MutIsUniqueViolationAlways(error) == TRUE

\* The errors create() tries again after.
IsUniqueViolation(error) == error = "unique"

\* appendEntry throws: its transaction (or savepoint) is rolled back, and create()
\* tries again, gives up, or lets the error through to the business transaction.
AppendThrows(k, error) ==
    IF ~IsUniqueViolation(error)
    THEN [k EXCEPT !.pc = IF error = "unacknowledged" THEN "unknown" ELSE "failed",
                   !.written = Empty, !.snapshot = <<>>]
    ELSE IF k.attempts + 1 < MaxRetries
    THEN [k EXCEPT !.pc = "read", !.attempts = @ + 1,
                   !.written = IF mode.nested THEN @ ELSE Empty]
    ELSE [k EXCEPT !.pc = "contention", !.attempts = @ + 1,
                   !.written = Empty, !.snapshot = <<>>]

\* The number has been committed by another.
Collide(c) ==
    /\ call[c].pc = "insert"
    /\ call[c].seen.sequence + 1 \in DOMAIN chain \cup DOMAIN call[c].written
    /\ Proceeds(c, AppendThrows(call[c], "unique"))
    /\ UNCHANGED <<chain, faults>>

\* The retry inside a transaction that the database has aborted throws as well.
RetryInAborted(c) ==
    /\ call[c].pc = "read"
    /\ Aborted(c)
    /\ Proceeds(c, AppendThrows(call[c], "aborted"))
    /\ UNCHANGED <<chain, faults>>

\* A business transaction that logs another entry.
LogAnother(c) ==
    /\ call[c].pc = "hold"
    /\ mode.nested /\ call[c].entry < MaxEntries
    /\ Proceeds(c, [call[c] EXCEPT !.pc = "read", !.entry = @ + 1, !.attempts = 0])
    /\ UNCHANGED <<chain, faults>>

Commit(c) ==
    /\ call[c].pc = "hold"
    /\ chain' = Over(chain, call[c].written)
    /\ Proceeds(c, [call[c] EXCEPT !.pc = "done", !.written = Empty, !.snapshot = <<>>])
    /\ UNCHANGED faults

\* The commit is applied and its answer is lost.  A nested call's error is the
\* business transaction's, which create() does not see.
CommitUnacknowledged(c) ==
    /\ call[c].pc = "hold"
    /\ faults < MaxFaults
    /\ faults' = faults + 1
    /\ chain' = Over(chain, call[c].written)
    /\ \/ /\ mode.nested
          /\ Proceeds(c, [call[c] EXCEPT !.pc = "unknown", !.written = Empty, !.snapshot = <<>>])
       \/ /\ ~mode.nested
          /\ Proceeds(c, AppendThrows(call[c], "unacknowledged"))

\* A statement throws for another reason, a later step of the business transaction
\* throws, or the process dies.
RollBack(c) ==
    /\ call[c].pc \in {"read", "insert", "hold"}
    /\ faults < MaxFaults
    /\ faults' = faults + 1
    /\ Proceeds(c, AppendThrows(call[c], "other"))
    /\ UNCHANGED chain

-----------------------------------------------------------------------------
\* backfillChain

BackfillProceeds(b, k) ==
    /\ backfill' = [backfill EXCEPT ![b] = k]
    /\ UNCHANGED <<mode, call, edited>>

ReadLegacy(b) ==
    /\ backfill[b].pc = "idle"
    /\ BackfillProceeds(b, [backfill[b] EXCEPT
         !.batch = legacy,
         !.pc = IF legacy = <<>> THEN "done" ELSE "latest"])
    /\ UNCHANGED <<chain, legacy, faults, renumbered>>

ReadLatestForBackfill(b) ==
    /\ backfill[b].pc = "latest"
    /\ BackfillProceeds(b, [backfill[b] EXCEPT !.seen = Latest(chain), !.pc = "update"])
    /\ UNCHANGED <<chain, legacy, faults, renumbered>>

MutRenumberedFromHead(head, batch) ==
    [s \in head.sequence + 1 .. head.sequence + Len(batch) |->
        [id |-> batch[s - head.sequence],
         previous |-> head.hash,
         hash |-> EntryHash(head.hash, s, batch[s - head.sequence])]]

\* The rows the loop computes: each takes the next number and the hash before it.
Renumbered(head, batch) ==
    LET HashAt(i) == head.hash \o [j \in 1 .. i |-> <<head.sequence + j, batch[j]>>]
    IN  [s \in head.sequence + 1 .. head.sequence + Len(batch) |->
            [id |-> batch[s - head.sequence],
             previous |-> HashAt(s - head.sequence - 1),
             hash |-> HashAt(s - head.sequence)]]

\* The updates, by id.  They wait for a transaction that holds one of the numbers,
\* or the rows; a number another entry has meanwhile ends the backfill.
Renumber(b) ==
    LET rows == Renumbered(backfill[b].seen, backfill[b].batch)
        taken == \E s \in DOMAIN rows \cap DOMAIN chain : chain[s].id # rows[s].id
    IN  /\ backfill[b].pc = "update"
        /\ \A s \in DOMAIN rows : ~HeldByOthers(s, b)
        /\ \A o \in Backfiller \ {b} : backfill[o].pc # "hold"
        /\ \/ taken /\ BackfillProceeds(b, [backfill[b] EXCEPT !.pc = "failed"])
           \/ ~taken /\ BackfillProceeds(b, [backfill[b] EXCEPT !.pc = "hold", !.written = rows])
        /\ UNCHANGED <<chain, legacy, faults, renumbered>>

\* The rows move to the numbers written; normally they had none.
CommitBackfill(b) ==
    LET batch == {backfill[b].batch[i] : i \in DOMAIN backfill[b].batch}
        kept == [s \in {r \in DOMAIN chain : chain[r].id \notin batch} |-> chain[s]]
    IN  /\ backfill[b].pc = "hold"
        /\ chain' = Over(kept, backfill[b].written)
        /\ legacy' = <<>>
        /\ renumbered' = (renumbered \/ DOMAIN kept # DOMAIN chain)
        /\ BackfillProceeds(b, [backfill[b] EXCEPT !.pc = "done", !.written = Empty])
        /\ UNCHANGED faults

\* A statement throws or the process dies: nothing of the backfill remains.
BackfillFails(b) ==
    /\ backfill[b].pc \in {"latest", "update", "hold"}
    /\ faults < MaxFaults
    /\ faults' = faults + 1
    /\ BackfillProceeds(b, [backfill[b] EXCEPT !.pc = "failed", !.written = Empty])
    /\ UNCHANGED <<chain, legacy, renumbered>>

-----------------------------------------------------------------------------
\* verifyChain

\* The numbers of the next page.
ChainPage(after) ==
    {s \in DOMAIN chain :
        s > after /\ Cardinality({r \in DOMAIN chain : after < r /\ r <= s}) <= PageSize}

MutAuditLinkValidByPrevious(previousHash, s) == chain[s].previous = previousHash

AuditLinkValid(previousHash, s) ==
    /\ chain[s].previous = previousHash
    /\ chain[s].hash = EntryHash(previousHash, s, chain[s].id)
    /\ chain[s].id \notin edited

\* One page is read and walked: each entry against the hash of the one before.
ReadPage(v) ==
    LET page == ChainPage(verifier[v].after)
        Before(s) == {r \in page : r < s}
        PreviousHash(s) ==
            IF Before(s) = {} THEN verifier[v].previous
            ELSE chain[CHOOSE r \in Before(s) : \A q \in Before(s) : q <= r].hash
        valid == \A s \in page : AuditLinkValid(PreviousHash(s), s)
        last == Latest([s \in page |-> chain[s]])
        more == valid /\ Cardinality(page) = PageSize
    IN  /\ verifier[v].pc \in {"idle", "reading"}
        /\ verifier' = [verifier EXCEPT ![v] =
             IF more THEN [@ EXCEPT !.pc = "reading", !.after = last.sequence, !.previous = last.hash]
             ELSE [@ EXCEPT !.pc = "done", !.verdict = valid]]
        /\ UNCHANGED <<mode, chain, legacy, call, backfill, faults, edited, renumbered>>

\* Somebody changes the content of an entry in the database.
Edit ==
    /\ Cardinality(edited) < MaxEdits
    /\ \E s \in DOMAIN chain : edited' = edited \cup {chain[s].id}
    /\ UNCHANGED <<mode, chain, legacy, call, backfill, verifier, faults, renumbered>>

-----------------------------------------------------------------------------
\* The chain is whole: numbered from 1 without a gap, every entry carrying the hash
\* of the one before and the hash of itself.
Linked(rows) ==
    \A s \in DOMAIN rows :
        /\ s = 1 \/ s - 1 \in DOMAIN rows
        /\ rows[s].previous = IF s = 1 THEN Genesis ELSE rows[s - 1].hash
        /\ rows[s].hash = EntryHash(rows[s].previous, s, rows[s].id)

Sound == Linked(chain) /\ \A s \in DOMAIN chain : chain[s].id \notin edited

\* Sound is recorded from the first read of a verification to its last.
Witnessed ==
    truth' = [v \in Verifier |->
        IF verifier[v].pc = "done" \/ verifier'[v].pc = "idle"
        THEN truth[v] ELSE truth[v] \cup {Sound'}]

AppendStep(c) ==
    /\ \/ ReadLatest(c) \/ Insert(c) \/ Collide(c) \/ RetryInAborted(c)
       \/ LogAnother(c) \/ Commit(c) \/ CommitUnacknowledged(c) \/ RollBack(c)
    /\ UNCHANGED verifier

BackfillStep(b) ==
    /\ \/ ReadLegacy(b) \/ ReadLatestForBackfill(b) \/ Renumber(b)
       \/ CommitBackfill(b) \/ BackfillFails(b)
    /\ UNCHANGED verifier

Next ==
    /\ \/ \E c \in Call : AppendStep(c)
       \/ \E b \in Backfiller : BackfillStep(b)
       \/ \E v \in Verifier : ReadPage(v)
       \/ Edit
    /\ Witnessed

Spec == Init /\ [][Next]_vars

-----------------------------------------------------------------------------
\* Properties

\* Whatever appends and backfills run at once, fail or are rolled back, the
\* committed entries are one chain without a gap, as long as no backfill has numbered
\* again what another one had numbered (appendEntry, backfillChain and the unique
\* index).
ChainIsLinked == ~renumbered => Linked(chain)

\* The verdict of a verification was true of the committed chain at some moment
\* between its first read and its last, although it reads in pages without a
\* transaction: appends and backfills never make it call a sound chain broken, and a
\* chain broken all the while is found out, unless backfills have renumbered: pages
\* read before and after that need never have stood in one chain (verifyChain).
VerdictWasTrue ==
    \A v \in Verifier : verifier[v].pc = "done" =>
        /\ ~verifier[v].verdict => FALSE \in truth[v]
        /\ verifier[v].verdict => TRUE \in truth[v] \/ renumbered

\* An entry whose call returned is in the chain once, one whose call failed is not
\* in it, and no repeated attempt puts it there twice, also when the answer to a
\* commit was lost (create's retry loop inside or outside a business transaction).
RecordedOnce ==
    \A c \in Call, k \in 1 .. MaxEntries :
        LET copies == {s \in DOMAIN chain : chain[s].id = <<c, k>>}
        IN  /\ \A s, t \in copies : s = t
            /\ call[c].pc = "done" /\ k <= call[c].entry => copies # {}
            /\ call[c].pc \notin {"done", "unknown"} => copies = {}

\* A call has tried again only as often as the chain grew by other hands since it
\* began: it gives up for contention only if that many entries were committed
\* meanwhile.  Excepted is a transaction that goes on reading its snapshot
\* (create, AUDIT_CHAIN_CONTENTION).
ContentionIsReal ==
    \A c \in Call :
        ~renumbered /\ mode.retry # "snapshot" /\ call[c].attempts > 0 =>
            call[c].base + call[c].attempts <= Latest(chain).sequence

=============================================================================

-------------------------- MODULE SchemaMigrations --------------------------
(***************************************************************************)
(* migrate(knex): processes bring the schema up to date by the steps of     *)
(* SchemaSteps, which a ledger records one by one.  Every statement is its  *)
(* own transaction.  A process can die between any two of them, and a later *)
(* call goes on from the ledger.  PostgreSQL and MySQL keep two calls apart *)
(* with an advisory lock of the session; on SQLite nothing does.            *)
(***************************************************************************)
EXTENDS SchemaSteps

CONSTANTS
    Migrator,   \* processes that call migrate
    NoOne,
    Dialects,   \* the databases considered
    Row,        \* legacy customers, products and so on
    Dirt,       \* objects of Refuse that a database may start with
    MaxTries    \* bound: calls of migrate and deaths inside it, for each dialect

ASSUME SchemaMigrationsAssumption ==
    /\ NoOne \notin Migrator
    /\ Dialects \subseteq {"postgresql", "mysql", "sqlite"}
    /\ Dirt \subseteq Contradictions
    /\ MaxTries \in [Dialects -> Nat]

VARIABLES
    dialect,    \* fixed
    earlier,    \* the steps an earlier release recorded; fixed
    db,         \* the objects that are there
    ledger,     \* payable_migrations: the steps recorded
    holder,     \* who has the advisory lock
    at,         \* where each migrator is
    tries,      \* calls and deaths
    torn        \* what createIfMissing would have made, and the release that made
                \* the table, a death after CREATE TABLE, or an error it swallowed
                \* left out

schemaVars == <<dialect, earlier, db, ledger, holder, at, tries, torn>>

-----------------------------------------------------------------------------
\* The databases migrate meets: a new one, and one that a release with three
\* steps made

Legacy ==
    LegacySchema
    \cup {"customers", "products", "prices", "subscriptions", "invoices", "payments"} \X Row

LeftOut(there) == (UNION {Makes(op) : op \in {c \in Creates : c.unless \subseteq there}}) \ there

\* Rows are told from the parts of a table
ASSUME RowsAreNoParts ==
    /\ \A object \in LegacySchema \cup Contradictions : object[2] \notin Row
    /\ \A op \in Operations : \A object \in Makes(op) : object[2] \notin Row

Idle(error) == [pc |-> "idle", step |-> 0, op |-> 0, statement |-> 0, error |-> error]

SchemaInit ==
    /\ dialect \in Dialects
    /\ \/ db = {} /\ earlier = {}
       \/ earlier = 1..3 /\ \E dirt \in SUBSET Dirt : db = Legacy \cup dirt
    /\ ledger = earlier
    /\ holder = NoOne
    /\ at = [m \in Migrator |-> Idle("none")]
    /\ tries = 0
    /\ torn = LeftOut(db)

-----------------------------------------------------------------------------
\* withMigrationLock

Locks == dialect # "sqlite"
Stands(m, pc, step, op, statement) ==
    at' = [at EXCEPT ![m] = [pc |-> pc, step |-> step, op |-> op, statement |-> statement,
                             error |-> "none"]]
Leaves(m, error) ==
    /\ at' = [at EXCEPT ![m] = Idle(error)]
    /\ holder' = IF holder = m THEN NoOne ELSE holder

Migrate(m) ==
    /\ at[m].pc = "idle" /\ tries < MaxTries[dialect]
    /\ tries' = tries + 1
    /\ Stands(m, IF Locks THEN "waiting" ELSE "step", 1, 0, 0)
    /\ UNCHANGED <<dialect, earlier, db, ledger, holder, torn>>

Acquire(m) ==
    /\ at[m].pc = "waiting" /\ holder = NoOne
    /\ holder' = m
    /\ Stands(m, "step", 1, 0, 0)
    /\ UNCHANGED <<dialect, earlier, db, ledger, tries, torn>>

\* GET_LOCK gives up after thirty seconds
TimeOut(m) ==
    /\ at[m].pc = "waiting" /\ dialect = "mysql" /\ holder # NoOne
    /\ Leaves(m, "lock")
    /\ UNCHANGED <<dialect, earlier, db, ledger, tries, torn>>

-----------------------------------------------------------------------------
\* runStep

Step(m) == Steps[at[m].step]
Op(m) == Step(m)[at[m].op]
Statement(m) == Op(m).statements[at[m].statement]

MutLookRecordsFirst(m) ==
    /\ at[m].pc = "step"
    /\ CASE at[m].step > Len(Steps) -> Leaves(m, "none") /\ UNCHANGED ledger
         [] at[m].step \in ledger ->
                Stands(m, "step", at[m].step + 1, 0, 0) /\ UNCHANGED <<holder, ledger>>
         [] OTHER -> /\ Stands(m, "guard", at[m].step, 1, 0)
                     /\ ledger' = ledger \cup {at[m].step} /\ UNCHANGED holder
    /\ UNCHANGED <<dialect, earlier, db, tries, torn>>
\* A recorded step is skipped; after the last one the call returns
Look(m) ==
    /\ at[m].pc = "step"
    /\ CASE at[m].step > Len(Steps) -> Leaves(m, "none")
         [] at[m].step \in ledger -> Stands(m, "step", at[m].step + 1, 0, 0) /\ UNCHANGED holder
         [] OTHER -> Stands(m, "guard", at[m].step, 1, 0) /\ UNCHANGED holder
    /\ UNCHANGED <<dialect, earlier, db, ledger, tries, torn>>

Needless(op) == op.unless # {} /\ op.unless \subseteq db

NextOp(m) ==
    IF at[m].op < Len(Step(m)) THEN Stands(m, "guard", at[m].step, at[m].op + 1, 0)
    ELSE Stands(m, "record", at[m].step, 0, 0)
NextStatement(m) ==
    IF at[m].statement < Len(Op(m).statements)
    THEN Stands(m, "run", at[m].step, at[m].op, at[m].statement + 1)
    ELSE NextOp(m)

\* hasTable, hasColumn, indexExists and their like
Guard(m) ==
    /\ at[m].pc = "guard"
    /\ IF Op(m).when \subseteq db /\ ~Needless(Op(m))
       THEN Stands(m, "run", at[m].step, at[m].op, 1)
       ELSE NextOp(m)
    /\ UNCHANGED <<dialect, earlier, db, ledger, holder, tries, torn>>

Record(m) ==
    /\ at[m].pc = "record"
    /\ ledger' = ledger \cup {at[m].step}
    /\ Stands(m, "step", at[m].step + 1, 0, 0)
    /\ UNCHANGED <<dialect, earlier, db, holder, tries, torn>>

-----------------------------------------------------------------------------
\* Statements

\* What a migrator in the middle of a CREATE TABLE has yet to make
Remaining(m) ==
    IF at[m].pc = "run" /\ IsCreate(Op(m)) /\ at[m].statement > 1
    THEN (UNION {Op(m).statements[i].objects : i \in at[m].statement..Len(Op(m).statements)}) \ db
    ELSE {}

Runs(m, verbs) == at[m].pc = "run" /\ Statement(m).verb \in verbs
Executes(m) == NextStatement(m) /\ UNCHANGED <<holder, torn>>

\* An error leaves migrate, unless createIfMissing, or a step that looks again,
\* finds that somebody else did the work; what was still to do is left out
Fails(m, error) ==
    /\ UNCHANGED db
    /\ IF Op(m).tolerant /\ Needless(Op(m))
       THEN NextOp(m) /\ torn' = torn \cup Remaining(m) /\ UNCHANGED holder
       ELSE Leaves(m, error) /\ UNCHANGED torn

\* SQLite has the foreign keys in CREATE TABLE, and no statements for them
Inline(m) ==
    UNION {Op(m).statements[i].objects : i \in
               {j \in DOMAIN Op(m).statements :
                   ~Locks /\ at[m].statement = 1 /\ Op(m).statements[j].verb = "foreign"}}

Adds(m, objects) ==
    IF objects \cap db # {} THEN Fails(m, "exists") ELSE db' = db \cup objects /\ Executes(m)
Add(m) ==
    /\ Runs(m, {"add"})
    /\ Adds(m, Statement(m).objects \cup Inline(m))
    /\ UNCHANGED <<dialect, earlier, ledger, tries>>
Reference(m) ==
    /\ Runs(m, {"foreign"})
    /\ Adds(m, IF Locks THEN Statement(m).objects ELSE {})
    /\ UNCHANGED <<dialect, earlier, ledger, tries>>

Update(m) ==
    /\ Runs(m, {"merge"})
    /\ db' = db \cup Statement(m).objects
    /\ Executes(m)
    /\ UNCHANGED <<dialect, earlier, ledger, tries>>

\* The columns of one ALTER may go one by one.  PostgreSQL does not drop by name
\* an index that a constraint made by ADD CONSTRAINT ... UNIQUE needs
Drop(m) ==
    /\ Runs(m, {"drop", "dropIndex"})
    /\ LET left == Statement(m).objects \cap db IN
       CASE left = {} -> Fails(m, "absent")
         [] left # {} /\ dialect = "postgresql" /\ Statement(m).verb = "dropIndex" ->
                Fails(m, "constraint")
         [] OTHER -> \E gone \in SUBSET left \ {{}} :
                         /\ db' = db \ gone
                         /\ IF gone = left THEN Executes(m) ELSE UNCHANGED <<at, holder, torn>>
    /\ UNCHANGED <<dialect, earlier, ledger, tries>>

Uncopied(statement) ==
    {r \in Row : <<statement.from, r>> \in db /\ <<statement.to, r>> \notin db}

\* One batch of a backfill: its INSERT ignores the rows that are there
Copy(m) ==
    /\ Runs(m, {"fill"})
    /\ LET left == Uncopied(Statement(m)) IN
       \/ left = {} /\ UNCHANGED db /\ Executes(m)
       \/ /\ left # {} /\ UNCHANGED <<at, holder, torn>>
          /\ \E batch \in SUBSET left \ {{}} : db' = db \cup ({Statement(m).to} \X batch)
    /\ UNCHANGED <<dialect, earlier, ledger, tries>>

Check(m) ==
    /\ Runs(m, {"verify", "refuse", "require"})
    /\ LET statement == Statement(m)
           good == CASE statement.verb = "verify" -> Uncopied(statement) = {}
                     [] statement.verb = "refuse" -> statement.objects \cap db = {}
                     [] statement.verb = "require" -> statement.objects \subseteq db IN
       IF good THEN Executes(m) /\ UNCHANGED db ELSE Fails(m, "rows")
    /\ UNCHANGED <<dialect, earlier, ledger, tries>>

\* The operator corrects the rows that a call reported
Repair ==
    /\ db \cap Dirt # {}
    /\ \E m \in Migrator : at[m].error = "rows"
    /\ db' = db \ Dirt
    /\ UNCHANGED <<dialect, earlier, ledger, holder, at, tries, torn>>

\* The process dies, and its session, with the lock, ends
Die(m) ==
    /\ at[m].pc # "idle" /\ tries < MaxTries[dialect]
    /\ tries' = tries + 1
    /\ torn' = torn \cup Remaining(m)
    /\ Leaves(m, "none")
    /\ UNCHANGED <<dialect, earlier, db, ledger>>

Works(m) ==
    \/ TimeOut(m) \/ Look(m) \/ Guard(m) \/ Record(m)
    \/ Add(m) \/ Reference(m) \/ Update(m) \/ Drop(m) \/ Copy(m) \/ Check(m)

SchemaNext ==
    \/ \E m \in Migrator : Migrate(m) \/ Acquire(m) \/ Works(m) \/ Die(m)
    \/ Repair

\* A process that runs goes on, and the lock is granted in turn
SchemaSpec ==
    /\ SchemaInit /\ [][SchemaNext]_schemaVars
    /\ \A m \in Migrator : WF_schemaVars(Works(m)) /\ SF_schemaVars(Acquire(m))

-----------------------------------------------------------------------------
(* What migrate promises. *)

\* The statements of a step, by what they do, and what they are about
StatementsOf(s, ops(_), verbs) ==
    {st \in UNION {{Steps[s][i].statements[j] : j \in DOMAIN Steps[s][i].statements} :
                      i \in {k \in DOMAIN Steps[s] : ops(Steps[s][k])}} : st.verb \in verbs}
Objects(s, ops(_), verbs) == UNION {st.objects : st \in StatementsOf(s, ops, verbs)}

Created == [s \in DOMAIN Steps |-> Objects(s, IsCreate, {"add", "foreign"})]
Ensured == [s \in DOMAIN Steps |-> Objects(s, LAMBDA op : ~IsCreate(op), {"add", "merge"})]
Dropped == [s \in DOMAIN Steps |-> Objects(s, LAMBDA op : TRUE, {"drop", "dropIndex"})]
Copied == [s \in DOMAIN Steps |-> StatementsOf(s, LAMBDA op : TRUE, {"fill"})]

Missing == torn \cup UNION {Remaining(m) : m \in Migrator}

\* A step that migrate recorded has been done and stays so: whatever died, was
\* repeated or was overtaken, its columns, keys and indexes are there, what it
\* had to drop is gone and every row is copied.  Only what createIfMissing left
\* out, torn, may be missing, and only until a step asks for it by name
RecordedStepsHold ==
    \A s \in ledger \ earlier :
        /\ Ensured[s] \subseteq db
        /\ Created[s] \subseteq db \cup Missing
        /\ Dropped[s] \cap db = {}
        /\ \A copy \in Copied[s] : Uncopied(copy) = {}

\* Under the lock, no call adds what is there or drops what is not, whichever
\* statement the one before it died at
LockedCallsNeverStumble ==
    Locks => \A m \in Migrator : at[m].error \notin {"exists", "absent"}

\* An upgrade keeps what the old schema knew: the provider's name of a customer is
\* in its old column until a binding has it, and while the unique key of a table
\* is replaced, the old one or the new one is there, so that an application that
\* still runs can at no time write a duplicate
UpgradeLosesNothing ==
    /\ \A r \in Row : <<"customers", r>> \in db =>
           ProviderId \in db \/ <<"customer_bindings", r>> \in db
    /\ earlier # {} =>
           /\ \A t \in {"products", "prices"} :
                  <<t, "legacy_unique">> \in db \/ <<t, "tenant_unique">> \in db
           /\ \A k \in {<<"legacy_name_unique", "customer_name_unique">>,
                        <<"legacy_provider_unique", "provider_id_unique">>} :
                  <<"subscriptions", k[1]>> \in db \/ <<"subscriptions", k[2]>> \in db

=============================================================================

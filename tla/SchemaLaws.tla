----------------------------- MODULE SchemaLaws ------------------------------
(***************************************************************************)
(* What the steps of migrate keep to, whatever each of them is about: all   *)
(* that the proofs about SchemaMigrations use of the steps.  No constant    *)
(* and no variable occurs in a law: it is a statement about the finite data *)
(* of SchemaSteps, and TLC decides it when it evaluates the assumption.     *)
(***************************************************************************)
EXTENDS SchemaSteps

Statements == UNION {{op.statements[j] : j \in DOMAIN op.statements} : op \in Operations}

Adding == {"add", "foreign", "merge"}
Dropping == {"drop", "dropIndex"}
Comparing == {"fill", "verify"}
Asking == {"refuse", "require"}

\* What a statement adds and what one drops, and the tables that rows are copied
\* from and to
Kept == UNION {st.objects : st \in {x \in Statements : x.verb \in Adding}}
Gone == UNION {st.objects : st \in {x \in Statements : x.verb \in Dropping}}
Sources == {st.from : st \in {x \in Statements : x.verb \in Comparing}}
Targets == {st.to : st \in {x \in Statements : x.verb \in Comparing}}

Drops(op) == \E j \in DOMAIN op.statements : op.statements[j].verb \in Dropping

-----------------------------------------------------------------------------

\* There are twenty-five, each of some operations, each of some statements
ASSUME StepsAreSequences ==
    /\ Len(Steps) = 25 /\ DOMAIN Steps = 1..25
    /\ \A s \in DOMAIN Steps :
        Len(Steps[s]) \in Nat /\ Len(Steps[s]) >= 1 /\ DOMAIN Steps[s] = 1..Len(Steps[s])
    /\ \A op \in Operations :
        /\ Len(op.statements) \in Nat /\ Len(op.statements) >= 1
        /\ DOMAIN op.statements = 1..Len(op.statements)
        /\ op.tolerant \in BOOLEAN

\* createIfMissing only adds, and the table first; any other operation that adds
\* adds one object, the one it looks for; what an operation drops it has looked
\* for, and it drops it last
ASSUME OperationsAreShaped ==
    \A op \in Operations :
        /\ IsCreate(op) => /\ op.unless # {} /\ op.statements[1].verb = "add"
                           /\ op.unless \subseteq op.statements[1].objects
        /\ \A j \in DOMAIN op.statements :
            LET st == op.statements[j] IN
            /\ st.verb \in Adding \cup Dropping \cup Comparing \cup Asking
            /\ IsCreate(op) => st.verb \in {"add", "foreign"}
            /\ st.verb = "foreign" => IsCreate(op)
            /\ st.verb \in Adding /\ ~IsCreate(op) => Len(op.statements) = 1
            /\ st.verb = "add" /\ ~IsCreate(op) =>
                   op.unless = st.objects /\ \E x \in st.objects : st.objects = {x}
            /\ st.verb \in {"merge", "fill"} => op.unless = {}
            /\ st.verb \notin {"add", "foreign"} => ~op.tolerant
            /\ st.verb \in Dropping => /\ j = Len(op.statements)
                                       /\ st.objects # {} /\ st.objects \subseteq op.when

\* What is added is never dropped, and no row is copied to a table that rows are
\* copied from
ASSUME NothingIsUndone ==
    /\ Kept \cap Gone = {} /\ Kept \cap Contradictions = {} /\ Gone \cap Contradictions = {}
    /\ Sources \cap Targets = {}
    /\ "customers" \in Sources /\ "customer_bindings" \in Targets

\* When an operation comes, the tables it is about have been made
Before(s, i, object) ==
    \E s0 \in 1..s : \E i0 \in DOMAIN Steps[s0] :
        /\ s0 < s \/ (s0 = s /\ i0 < i)
        /\ s0 > 3 \/ object \in LegacySchema
        /\ IsCreate(Steps[s0][i0]) /\ object \in Steps[s0][i0].unless
ASSUME TablesComeFirst ==
    \A s \in DOMAIN Steps : \A i \in DOMAIN Steps[s] :
        ~Drops(Steps[s][i]) => \A object \in Steps[s][i].when :
                                   object \in Kept /\ Before(s, i, object)

\* Nothing but createIfMissing makes a table, and nothing makes a part before its
\* table; of two that make the same table, the one that can find it missing makes
\* all of it
Fullest(op) == \A c \in Creates : c.unless = op.unless => Makes(c) \subseteq Makes(op)
ASSUME TablesAreMadeWhole ==
    /\ \A op \in Operations : \A j \in DOMAIN op.statements : \A c \in Creates :
        op.statements[j].verb \in Adding =>
            /\ op.statements[j].objects \cap c.unless # {} =>
                   IsCreate(op) /\ j = 1 /\ c.unless = op.unless
            /\ op.statements[j].objects \cap Makes(c) # {} =>
                   c.unless \subseteq IF IsCreate(op) THEN op.unless ELSE op.when
    /\ \A c \in Creates : /\ Makes(c) \cap LegacySchema # {} => c.unless \subseteq LegacySchema
                          /\ Makes(c) \cap Contradictions = {}
    /\ \A s \in DOMAIN Steps : \A i \in DOMAIN Steps[s] :
        IsCreate(Steps[s][i]) =>
            \/ Fullest(Steps[s][i])
            \/ \E s0 \in 4..(s - 1) : \E i0 \in DOMAIN Steps[s0] :
                   IsCreate(Steps[s0][i0]) /\ Steps[s0][i0].unless = Steps[s][i].unless

\* A key is dropped by an operation of its own that looks for nothing else.  Only
\* 008 drops two columns, one of them after it has compared what they say
DropsAlone(op) ==
    /\ Len(op.statements) = 1 /\ op.unless = {}
    /\ \E x \in op.when : op.when = {x} /\ op.statements[1].objects = {x}
Binds(st) == st.from = "customers" /\ st.to = "customer_bindings"
ASSUME ColumnsGoLast ==
    /\ Steps[8][7] = DropBoth /\ Steps[8][8] = DropProviderId /\ Steps[8][9] = DropProvider
    /\ Len(Steps[8]) = 9
    /\ \A s \in DOMAIN Steps : \A i \in DOMAIN Steps[s] :
        Drops(Steps[s][i]) => DropsAlone(Steps[s][i]) \/ (s = 8 /\ i \in 7..9)
    /\ \A op \in Operations : \A j \in DOMAIN op.statements :
        /\ op.statements[j].verb = "fill" /\ Drops(op) => op = DropBoth /\ Binds(op.statements[j])
        /\ op.statements[j].verb \in Dropping /\ ProviderId \in op.statements[j].objects =>
               \E j0 \in 1..(j - 1) : /\ op.statements[j0].verb \in Comparing
                                      /\ Binds(op.statements[j0])

\* A key goes after its successor has come
Successors == {<< <<"products", "legacy_unique">>, <<"products", "tenant_unique">> >>,
               << <<"prices", "legacy_unique">>, <<"prices", "tenant_unique">> >>,
               << <<"subscriptions", "legacy_name_unique">>,
                  <<"subscriptions", "customer_name_unique">> >>,
               << <<"subscriptions", "legacy_provider_unique">>,
                  <<"subscriptions", "provider_id_unique">> >>}
ASSUME NewKeysComeFirst ==
    /\ ProviderId \in LegacySchema
    /\ \A pair \in Successors :
        /\ pair[1] \in LegacySchema /\ pair[2] \in Kept
        /\ \A s \in DOMAIN Steps : \A i \in DOMAIN Steps[s] :
            pair[1] \in Makes(Steps[s][i]) =>
                \E i0 \in 1..(i - 1) : /\ ~IsCreate(Steps[s][i0])
                                      /\ Steps[s][i0].statements[1].verb = "add"
                                      /\ Steps[s][i0].statements[1].objects = {pair[2]}

=============================================================================

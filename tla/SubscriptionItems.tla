-------------------------- MODULE SubscriptionItems --------------------------
(***************************************************************************)
(* Which line of a subscription is which item at the provider:             *)
(* matchProviderSubscriptionItems() decides it when the subscription is    *)
(* created, reconcileProviderSubscriptionItems() for every webhook that    *)
(* lists the items of a subscription the catalog does not own.             *)
(*                                                                         *)
(* Local lines and provider items come as lists.  A pairing is a set of    *)
(* pairs of places in the two lists.  Ids are numbers, in the order the    *)
(* source compares them; 0 is a providerItemId that is null.               *)
(***************************************************************************)
EXTENDS Naturals, Sequences, FiniteSets

NoId == 0

\* The two keys of matchGroups(): price and quantity, then the price alone
SameKey(x, y, exact) ==
    /\ x.price = y.price
    /\ exact => x.quantity = y.quantity

Group(items, among, x, exact) == {i \in among : SameKey(items[i], x, exact)}

\* As many on both sides, and either one or so alike that it does not matter
\* which is which
SafelyPairable(local, remote, mine, theirs, exact) ==
    /\ Cardinality(mine) = Cardinality(theirs)
    /\ \/ Cardinality(mine) = 1
       \/ /\ exact \/ \A h, i \in mine : local[h].quantity = local[i].quantity
          /\ \A j \in theirs : remote[j].pid # NoId

\* Places in a group sorted by id, and by provider id with a sort that is stable
LocalPlace(local, mine, i) == Cardinality({h \in mine : local[h].id < local[i].id})

RemotePlace(remote, theirs, j) ==
    Cardinality({h \in theirs : \/ remote[h].pid < remote[j].pid
                                \/ remote[h].pid = remote[j].pid /\ h < j})

\* matchGroups() with one of the keys, among the places still free on each side
MatchGroups(local, remote, free, offered, exact) ==
    {p \in free \X offered :
        LET mine == Group(local, free, local[p[1]], exact)
            theirs == Group(remote, offered, local[p[1]], exact)
        IN  /\ p[2] \in theirs
            /\ SafelyPairable(local, remote, mine, theirs, exact)
            /\ LocalPlace(local, mine, p[1]) = RemotePlace(remote, theirs, p[2])}

Lines(pairs) == {p[1] : p \in pairs}
Items(pairs) == {p[2] : p \in pairs}

\* By price and quantity first, what is left by price
Grouped(local, remote, free, offered) ==
    LET exactly == MatchGroups(local, remote, free, offered, TRUE)
    IN  exactly \cup MatchGroups(local, remote, free \ Lines(exactly),
                                 offered \ Items(exactly), FALSE)

\* At the creation nothing is known; the lines count as sorted
Matched(lines, remote) ==
    LET local == [i \in DOMAIN lines |->
                    [id |-> i, pid |-> NoId,
                     price |-> lines[i].price, quantity |-> lines[i].quantity]]
    IN  Grouped(local, remote, DOMAIN lines, DOMAIN remote)

\* The lines that already name a provider item of the list: the first of each
Known(local, remote) ==
    {p \in (DOMAIN local) \X (DOMAIN remote) :
        /\ remote[p[2]].pid # NoId
        /\ local[p[1]].pid = remote[p[2]].pid
        /\ \A i \in DOMAIN local : local[i].pid = local[p[1]].pid => p[1] <= i
        /\ \A j \in DOMAIN remote : remote[j].pid = remote[p[2]].pid => p[2] <= j}

\* If one line and one item are left they are taken for each other
Leftover(local, remote, pairs) ==
    LET lines == DOMAIN local \ Lines(pairs)
        items == DOMAIN remote \ Items(pairs)
    IN  IF Cardinality(lines) = 1 /\ Cardinality(items) = 1 THEN lines \X items ELSE {}

Reconciliations(local, remote) ==
    LET known == Known(local, remote)
        unnamed == {i \in DOMAIN local : local[i].pid = NoId}
        paired == known \cup Grouped(local, remote, unnamed, DOMAIN remote \ Items(known))
    IN  paired \cup Leftover(local, remote, paired)

\* The rows that reconcileWebhookSubscription() leaves
ReconciledRows(local, remote) ==
    LET pairs == Reconciliations(local, remote)
        item(i) == remote[CHOOSE j \in DOMAIN remote : <<i, j>> \in pairs]
    IN  [i \in DOMAIN local |->
            IF i \notin Lines(pairs) THEN local[i]
            ELSE [id |-> local[i].id, pid |-> item(i).pid,
                  price |-> item(i).price, quantity |-> item(i).quantity]]

=============================================================================

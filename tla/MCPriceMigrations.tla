------------------------- MODULE MCPriceMigrations -------------------------
(***************************************************************************)
(* Instance of PriceMigrations for TLC.                                    *)
(***************************************************************************)
EXTENDS PriceMigrations, TLC

CONSTANTS none, nobody, p1, p2

FirstItemDef == [price |-> p1, quantity |-> 1]

\* An attempt is an owner token: the tokens are not ordered
Symmetry == Permutations(Attempt)

-----------------------------------------------------------------------------
\* The pairing of lines with the provider's items, for lists of up to two lines
\* and three items.  SubscriptionMutations has one line: the first assumption is
\* what it relies on.

Pairing == INSTANCE SubscriptionItems

Listed(n) == {items \in [1..n -> [pid : 0..2, price : 1..2, quantity : 1..2]] :
                  \A i, j \in 1..n : items[i].pid = items[j].pid /\ items[i].pid # 0 => i = j}

LinesOf(items) == [i \in DOMAIN items |->
                      [id |-> i, pid |-> items[i].pid,
                       price |-> items[i].price, quantity |-> items[i].quantity]]

\* The only line is the only item, whatever either says
ASSUME SingleItemIsTaken ==
    \A items, listed \in Listed(1) :
        Pairing!ReconciledRows(LinesOf(items), listed) = LinesOf(listed)

\* A webhook that is processed again changes nothing
ASSUME RepeatedItemsChangeNothing ==
    \A n \in 0..2, m \in 0..3 : \A items \in Listed(n), listed \in Listed(m) :
        LET rows == Pairing!ReconciledRows(LinesOf(items), listed)
        IN  Pairing!ReconciledRows(rows, listed) = rows

\* When the provider lists what was asked of it, in any order and each with an id,
\* every line finds an item with its price and quantity
ASSUME CreatedLinesAreMatched ==
    \A n \in 1..3 : \A lines \in [1..n -> [price : 1..2, quantity : 1..2]],
                     order \in Permutations(1..n), ids \in Permutations(1..n) :
        LET listed == [j \in 1..n |-> [pid |-> ids[j], price |-> lines[order[j]].price,
                                       quantity |-> lines[order[j]].quantity]]
            pairs == Pairing!Matched(lines, listed)
        IN  /\ Pairing!Lines(pairs) = 1..n
            /\ \A p \in pairs : Pairing!SameKey(lines[p[1]], listed[p[2]], TRUE)

============================================================================

----------------------------- MODULE MCRefunds -----------------------------
(***************************************************************************)
(* Instance of Refunds for TLC: a payment of three units, refunded by one  *)
(* unit, by two, or by what remains.  The arithmetic of amounts is checked *)
(* here against what it is for, on small numbers.                          *)
(***************************************************************************)
EXTENDS Refunds, TLC

MCRequests == {1, 2, Omitted}
AllModes == [locking : BOOLEAN, unknownOutcomes : BOOLEAN]
Symmetry == Permutations(Call) \cup Permutations(LocalCall)

-----------------------------------------------------------------------------

Arithmetic == INSTANCE Amounts

\* The nearest unit: the error is never more than half the divisor, and of two
\* units as near the one further from zero is taken
ASSUME QuotientIsNearest ==
    \A amount \in -30..30, divisor \in (-8..8) \ {0} :
        LET error == 2 * (Arithmetic!Quotient(amount, divisor) * divisor - amount)
        IN  /\ error \in -Arithmetic!Magnitude(divisor)..Arithmetic!Magnitude(divisor)
            /\ Arithmetic!Magnitude(error) = Arithmetic!Magnitude(divisor) =>
                   error * amount > 0

\* Shares add up to the amount, a ratio of zero gets none of it, and each is at
\* most one unit away from its exact part; of equal ratios the earlier gets more
ASSUME AllocationIsExact ==
    \A n \in 1..4 : \A ratios \in [1..n -> 0..3], amount \in -7..7 :
        LET total == Arithmetic!Sum(ratios)
            shares == Arithmetic!Allocated(amount, ratios)
            beyond(i) == Arithmetic!Magnitude(shares[i] * total - amount * ratios[i])
        IN  total > 0 =>
                /\ Arithmetic!Sum(shares) = amount
                /\ \A i \in 1..n : ratios[i] = 0 => shares[i] = 0
                /\ \A i \in 1..n : beyond(i) <= total
                /\ \A i, j \in 1..n : i < j /\ ratios[i] = ratios[j] =>
                       Arithmetic!Magnitude(shares[i]) >= Arithmetic!Magnitude(shares[j])

\* An amount that Stripe counts in other units comes back as it was, or not at
\* all: nothing is rounded on the way
ASSUME StripeLosesNothing ==
    \A amount \in -120..120, decimals, stripeDecimals \in 0..3 :
        \A sent \in Arithmetic!StripeAmount(amount, decimals, stripeDecimals) :
            Arithmetic!StripeMoney(sent, decimals, stripeDecimals) = {amount}

\* A conversion at one to one between currencies that count alike is exact, and
\* converting to coarser units rounds to the nearest of them
ASSUME ConversionIsNearest ==
    \A amount \in -25..25, numerator \in 1..4, from, to \in {1, 5, 10} :
        LET rate == [numerator |-> numerator, denominator |-> 2]
            converted == Arithmetic!Converted(amount, rate, from, to)
        IN  /\ numerator = 2 /\ from = to => converted = amount
            /\ Arithmetic!Magnitude(2 * (converted * 2 * from - amount * numerator * to))
                   <= 2 * from

=============================================================================

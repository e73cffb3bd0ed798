------------------------------ MODULE Amounts ------------------------------
(***************************************************************************)
(* Arithmetic on minor units: Money, CurrencyConverter, and what the       *)
(* Stripe adapter does where Stripe counts a currency in other units than  *)
(* the library.  Sums and products beyond the safe integers throw in the   *)
(* source; here integers have no bound and what throws is an empty set.    *)
(***************************************************************************)
EXTENDS Integers, Sequences, FiniteSets, SequencesExt

Sign(n) == IF n < 0 THEN -1 ELSE 1
Magnitude(n) == Sign(n) * n

\* Quotient to the nearest unit, a half away from zero
Quotient(amount, divisor) ==
    LET a == Magnitude(amount)
        d == Magnitude(divisor)
        rest == a - (a \div d) * d
    IN  Sign(amount) * Sign(divisor) * ((a \div d) + (IF 2 * rest >= d THEN 1 ELSE 0))

Percentage(amount, basisPoints) == Quotient(amount * basisPoints, 10000)

\* A rate is a decimal, numerator / denominator; currencies count unitsFrom and
\* unitsTo minor units to the major one
Converted(amount, rate, unitsFrom, unitsTo) ==
    Quotient(amount * rate.numerator * unitsTo, rate.denominator * unitsFrom)

Sum(numbers) == FoldLeft(LAMBDA x, y : x + y, 0, numbers)

\* The part of each ratio rounded towards zero
Shares(amount, ratios) ==
    [i \in DOMAIN ratios |->
        Sign(amount) * ((Magnitude(amount) * ratios[i]) \div Sum(ratios))]

\* The units that are left go one by one to the ratios that are not zero, in
\* their order and from the first again
Allocated(amount, ratios) ==
    LET shares == Shares(amount, ratios)
        eligible == SelectSeq([i \in DOMAIN ratios |-> i], LAMBDA i : ratios[i] > 0)
        left == amount - Sum(shares)
        turns(i) == {n \in 0..(Magnitude(left) - 1) : eligible[(n % Len(eligible)) + 1] = i}
    IN  [i \in DOMAIN ratios |-> shares[i] + Sign(left) * Cardinality(turns(i))]

\* From a number of decimals to another; what would lose precision throws
Rescaled(amount, decimals, wanted) ==
    IF wanted >= decimals THEN {amount * 10^(wanted - decimals)}
    ELSE LET factor == 10^(decimals - wanted)
         IN  IF amount % factor = 0 THEN {amount \div factor} ELSE {}

StripeAmount(amount, decimals, stripeDecimals) == Rescaled(amount, decimals, stripeDecimals)
StripeMoney(amount, decimals, stripeDecimals) == Rescaled(amount, stripeDecimals, decimals)

=============================================================================

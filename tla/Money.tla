------------------------------- MODULE Money -------------------------------
(***************************************************************************)
(* Integer money: amounts in minor units, rates in basis points, and the    *)
(* one rounding rule of every derived figure.  int64 never wraps at the     *)
(* amounts of a household, so it is left out.                               *)
(***************************************************************************)
EXTENDS Integers

\* num / den for den > 0, to the nearest integer, halves to the even one.
\* \div is the floored quotient the code builds from Go's truncated one.
RoundHalfEvenDiv(num, den) ==
    LET q == num \div den
        twice == 2 * (num % den)
    IN  IF twice < den \/ (twice = den /\ q % 2 = 0) THEN q ELSE q + 1

BasisPointsDivisor == 10000

ApplyRate(amount, rate) == RoundHalfEvenDiv(amount * rate, BasisPointsDivisor)

\* Mutant: the social charge falls on the whole value.
PEANetOfGross(gross, initial, rate) ==
    IF gross < initial THEN gross ELSE gross - ApplyRate(gross, rate)

\* The social charge falls on the gain only; a loss is not charged.
PEANet(gross, initial, rate) ==
    IF gross < initial THEN gross ELSE gross - ApplyRate(gross - initial, rate)
=============================================================================

---------------------------------- MODULE Money ----------------------------------
(***************************************************************************)
(* Money.allocate (packages/domain/src/money/money.ts): an amount of minor *)
(* units split by ratios.  An amount is an integer, as the bigint is.  A   *)
(* ratio is a number: k with a denominator stands for k / denominator.     *)
(* Floating-point error in the sum of the ratios is left out.  And what a  *)
(* quote makes of an amount (packages/domain/src/payments/quote.ts).       *)
(***************************************************************************)
EXTENDS Integers, Sequences, SequencesExt

\* Mutant: division rounds down.
RoundedDown(a, b) == a \div b

\* bigint division truncates toward zero; the divisor is never negative here.
Truncated(a, b) == IF a >= 0 THEN a \div b ELSE -((-a) \div b)

\* Math.round(k / denominator * 10000): halves go up.
Scaled(k, denominator) == (20000 * k + denominator) \div (2 * denominator)

Total(s) == FoldLeft(LAMBDA x, y : x + y, 0, s)

\* The first loop: each share is rounded toward zero.
Shares(amount, ratios, denominator) ==
  [i \in 1..Len(ratios) |->
     Truncated(amount * Scaled(ratios[i], denominator), Scaled(Total(ratios), denominator))]

\* Mutant: the loop for a remainder below zero is missing.
HandedWhenPositive(remainder, i, n) ==
  IF remainder >= 0 THEN (remainder + n - i) \div n ELSE 0

\* Mutant: the remainder goes to the first share, not to each in turn.
HandedToTheFirst(remainder, i, n) == IF i = 1 THEN remainder ELSE 0

\* The two loops that hand out the remainder one unit at a time, starting with the first share:
\* what they add to share i of n in all.
Handed(remainder, i, n) ==
  IF remainder >= 0 THEN (remainder + n - i) \div n ELSE -((-remainder + n - i) \div n)

\* What allocate throws: a DomainError, and a RangeError when the divisor rounds to zero.
AllocateThrows(ratios, denominator) ==
  ratios # <<>> /\ (Total(ratios) <= 0 \/ Scaled(Total(ratios), denominator) = 0)

allocate(amount, ratios, denominator) ==
  LET share == Shares(amount, ratios, denominator)
      remainder == amount - Total(share)
  IN  [i \in 1..Len(ratios) |-> share[i] + Handed(remainder, i, Len(ratios))]

---------------------------------------------------------------------------------
feeBps == 20 \* nobody asks for another fee

\* Mutant: the fee is rounded to the nearest unit.
FeeRounded(amount) == (2 * amount * feeBps + 10000) \div 20000

Fee(amount) == Truncated(amount * feeBps, 10000)

\* The rest in minor units of the target at rate / denominator, by Math.round: the minor units of
\* the two currencies are taken to be as large, whatever the registry says.
Converted(amount, rate, denominator) ==
  (2 * (amount - Fee(amount)) * rate + denominator) \div (2 * denominator)
==================================================================================

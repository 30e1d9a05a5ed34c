------------------------------- MODULE Money -------------------------------
(***************************************************************************)
(* Money as packages/core/src/domain/money.ts keeps it: an integer number  *)
(* of the smallest currency unit.  A multiplier is a number of hundredths, *)
(* the resolution games display; the product is rounded exactly, so the    *)
(* last bit of an IEEE-754 product is not modelled.                        *)
(***************************************************************************)
EXTENDS Integers

CONSTANT Currencies

\* MoneySchema: `amount: z.number().int()`, any sign.
MoneyValues == [amount : Int, currency : Currencies]

\* assertSameCurrency: what subMoney needs in order not to throw.
SameCurrency(a, b) == a.currency = b.currency

\* subMoney, for values that satisfy SameCurrency.
SubMoney(a, b) == [amount |-> a.amount - b.amount, currency |-> a.currency]

Abs(x) == IF x < 0 THEN -x ELSE x
Sign(x) == IF x < 0 THEN -1 ELSE IF x = 0 THEN 0 ELSE 1

Hundredths == 100

\* Mutant: truncation without the half unit.
TruncateOnly(p) == Sign(p) * (Abs(p) \div Hundredths)

\* Math.trunc(p + Math.sign(p) * 0.5) for a product p given in hundredths.
RoundHalfAway(p) == Sign(p) * ((2 * Abs(p) + Hundredths) \div (2 * Hundredths))

\* mulMoney
MulMoney(a, multiplier) ==
  [amount |-> RoundHalfAway(a.amount * multiplier), currency |-> a.currency]
=============================================================================

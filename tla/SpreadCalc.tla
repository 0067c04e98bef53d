------------------------------ MODULE SpreadCalc -----------------------------
(***************************************************************************)
(* The spread calculation (internal/engine/spread.go).  A decimal is a     *)
(* whole number of units of its last digit: fractions and their quotients  *)
(* are in units of 1/One (the code divides to 16 digits), prices in units  *)
(* of the mid price's last digit, and the bid and the ask, which are exact *)
(* products, in both.  The mean of bid and ask is a quotient again, and so *)
(* has 16 digits at most: it is a multiple of Digit of these units, which  *)
(* is 10^p for a mid price of p decimals.                                  *)
(***************************************************************************)
EXTENDS Integers

CONSTANTS One,                 \* units in a fraction of 1
          Digit,               \* units of price in the last digit of a quotient
          MinSpread, MaxSpread \* SpreadBounds

\* (NewSpreadCalc takes any bounds; a spread is less than the price.)
ASSUME SpreadAssumption ==
    /\ {One, Digit, MinSpread, MaxSpread} \subseteq Nat
    /\ 0 < One /\ 0 < Digit /\ 0 < MinSpread /\ MinSpread <= MaxSpread /\ MaxSpread < One

\* a / b for b > 0, rounded to the nearest unit, halves away from zero.
DivRound(a, b) == IF a >= 0 THEN (2 * a + b) \div (2 * b)
                            ELSE -((b - 2 * a) \div (2 * b))

half(targetSpread) == DivRound(targetSpread, 2)

PricesFail(midPrice, targetSpread) ==
    \/ midPrice <= 0
    \/ targetSpread < MinSpread \/ targetSpread > MaxSpread

\* Prices, where it does not fail.
Prices(midPrice, targetSpread) ==
    [bid |-> midPrice * (One - half(targetSpread)),
     ask |-> midPrice * (One + half(targetSpread))]

\* (bid + ask) / 2, to the digits of a quotient.
Mean(bid, ask) == Digit * DivRound(ask + bid, 2 * Digit)

\* EffectiveSpread returns an error for an ask that is not positive, and panics
\* for a mean that is zero in these digits.
EffectiveSpreadFails(ask) == ask <= 0
EffectiveSpreadPanics(bid, ask) == ~EffectiveSpreadFails(ask) /\ Mean(bid, ask) = 0

\* Its quotient: the difference over the mean, in units of 1/One.
EffectiveSpread(bid, ask) ==
    LET difference == One * (ask - bid)
        mean == Mean(bid, ask)
    IN  IF mean > 0 THEN DivRound(difference, mean) ELSE DivRound(-difference, -mean)
==============================================================================

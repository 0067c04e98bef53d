--------------------------- MODULE SpreadCalcProofs --------------------------
(***************************************************************************)
(* What the spread calculation promises, for every scale and all bounds.   *)
(***************************************************************************)
EXTENDS SpreadCalc, TLAPS

\* A quotient that is a whole number of units is not rounded.
LEMMA DivRoundExact ==
    ASSUME NEW q \in Nat, NEW d \in Nat \ {0}
    PROVE  DivRound(q * d, d) = q
<1> DEFINE n == 2 * (q * d) + d
           e == 2 * d
<1>1. q * d \in Nat
  OBVIOUS
<1>2. n \in Nat /\ e \in Nat /\ e > 0
  BY <1>1
<1>3. n = e * q + d
  OBVIOUS
<1>4. 0 <= d /\ d < e
  OBVIOUS
<1>5. n \div e = q
  <2> HIDE DEF n, e
  <2>1. PICK r \in 0 .. e - 1 : n = e * (n \div e) + r
    BY <1>2
  <2>2. n \div e \in Int
    BY <1>2
  <2>3. e * (n \div e - q) = d - r
    BY <2>1, <2>2, <1>2, <1>3
  <2>4. n \div e - q < 1
    BY <2>1, <2>2, <2>3, <1>2, <1>4
  <2>5. n \div e - q > -1
    BY <2>1, <2>2, <2>3, <1>2, <1>4
  <2> QED
    BY <2>2, <2>4, <2>5
<1> QED
  BY <1>1, <1>5 DEF DivRound

\* Half of a spread is exact, or half a unit too large.
LEMMA HalfBounds ==
    ASSUME NEW t \in Nat
    PROVE  half(t) \in Nat /\ (2 * half(t) = t \/ 2 * half(t) = t + 1)
  BY DEF half, DivRound

\* Positive numbers have a positive product.
LEMMA TimesPositive ==
    ASSUME NEW a \in Nat \ {0}, NEW b \in Nat \ {0}
    PROVE  a * b \in Nat \ {0}
  OBVIOUS

\* What a call of Prices that does not fail works with.
LEMMA PricesInput ==
    ASSUME NEW mid \in Int, NEW t \in Int, ~PricesFail(mid, t)
    PROVE  /\ mid \in Nat \ {0} /\ t \in Nat \ {0}
           /\ half(t) \in Nat \ {0} /\ One - half(t) \in Nat \ {0}
<1>1. mid \in Nat \ {0} /\ t \in Nat \ {0} /\ t < One
  BY SpreadAssumption DEF PricesFail
<1> QED
  BY <1>1, HalfBounds, SpreadAssumption

\* Prices quotes on both sides of the mid price, as far from it on the one as
\* on the other, and never at a price that is not positive.
THEOREM PricesBracketMid ==
    ASSUME NEW mid \in Int, NEW t \in Int, ~PricesFail(mid, t)
    PROVE  LET p == Prices(mid, t)
           IN  /\ 0 < p.bid /\ p.bid < mid * One /\ mid * One < p.ask
               /\ p.ask - mid * One = mid * One - p.bid
<1> DEFINE h == half(t)
           p == Prices(mid, t)
<1>1. mid \in Nat \ {0} /\ h \in Nat \ {0} /\ One - h \in Nat \ {0}
  BY PricesInput
<1>2. One \in Nat
  BY SpreadAssumption
<1> HIDE DEF h
<1>3. mid * (One - h) \in Nat \ {0} /\ mid * h \in Nat \ {0}
  BY <1>1, TimesPositive
<1>4. mid * (One - h) = mid * One - mid * h /\ mid * (One + h) = mid * One + mid * h
  BY <1>1, <1>2
<1>5. p.bid = mid * (One - h) /\ p.ask = mid * (One + h)
  BY DEF Prices, h
<1>6. mid * One \in Nat
  BY <1>1, <1>2
<1> HIDE DEF p
<1>7. /\ 0 < p.bid /\ p.bid < mid * One /\ mid * One < p.ask
      /\ p.ask - mid * One = mid * One - p.bid
  BY <1>3, <1>4, <1>5, <1>6
<1> QED
  BY <1>7 DEF p

\* EffectiveSpread gives the spread back that the prices were made with, or
\* one unit of the last digit more when that digit is odd, and it neither fails nor
\* divides by zero, for a mid price of at most as many decimals as a quotient has.
THEOREM SpreadOfPrices ==
    ASSUME NEW mid \in Int, NEW t \in Int, ~PricesFail(mid, t),
           NEW k \in Nat, One = k * Digit
    PROVE  LET p == Prices(mid, t)
           IN  /\ ~EffectiveSpreadFails(p.ask) /\ ~EffectiveSpreadPanics(p.bid, p.ask)
               /\ EffectiveSpread(p.bid, p.ask) \in {t, t + 1}
               /\ t % 2 = 0 => EffectiveSpread(p.bid, p.ask) = t
<1> DEFINE h == half(t)
           d == mid * One
           p == Prices(mid, t)
<1>1. mid \in Nat \ {0} /\ t \in Nat /\ h \in Nat \ {0}
  BY PricesInput
<1>2. One \in Nat \ {0} /\ Digit \in Nat \ {0}
  BY SpreadAssumption
<1>3. 2 * h = t \/ 2 * h = t + 1
  BY <1>1, HalfBounds
<1> HIDE DEF h
<1>4. d \in Nat \ {0}
  BY <1>1, <1>2, TimesPositive
<1>5. p.bid = mid * (One - h) /\ p.ask = mid * (One + h)
  BY DEF Prices, h
<1>6. p.ask + p.bid = 2 * d /\ p.ask - p.bid = 2 * (mid * h)
  BY <1>1, <1>2, <1>5
\* The mean is a whole number of digits, so it is exact.
<1>7. Mean(p.bid, p.ask) = d
  <2> DEFINE q == k * mid
             e == 2 * Digit
  <2>1. q \in Nat /\ e \in Nat \ {0}
    BY <1>1, <1>2
  <2>2. 2 * d = q * e /\ d = Digit * q
    BY <1>1, <1>2
  <2>3. DivRound(q * e, e) = q
    <3> HIDE DEF q, e
    <3> QED
      BY <2>1, DivRoundExact
  <2> HIDE DEF p, d, q
  <2> QED
    BY <1>6, <2>2, <2>3 DEF Mean
<1>8. One * (p.ask - p.bid) = (2 * h) * d
  BY <1>1, <1>2, <1>6
<1>9. EffectiveSpread(p.bid, p.ask) = 2 * h
  <2> HIDE DEF d, p
  <2>1. DivRound((2 * h) * d, d) = 2 * h
    BY <1>1, <1>4, DivRoundExact
  <2> QED
    BY <1>4, <1>7, <1>8, <2>1 DEF EffectiveSpread
<1>10. ~EffectiveSpreadFails(p.ask) /\ ~EffectiveSpreadPanics(p.bid, p.ask)
  <2>1. p.ask > 0
    <3>1. 0 < p.bid /\ p.bid < mid * One /\ mid * One < p.ask
      BY PricesBracketMid
    <3>2. p.bid \in Int /\ p.ask \in Int /\ mid * One \in Int
      BY <1>1, <1>2, <1>5
    <3> QED
      BY <3>1, <3>2
  <2>2. Mean(p.bid, p.ask) # 0
    BY <1>4, <1>7
  <2>3. p.ask \in Int
    BY <1>1, <1>2, <1>5
  <2> HIDE DEF p
  <2> QED
    BY <2>1, <2>2, <2>3 DEF EffectiveSpreadFails, EffectiveSpreadPanics
<1>11. t % 2 = 0 => 2 * h = t
  BY <1>1, <1>3
<1> HIDE DEF p
<1>12. /\ ~EffectiveSpreadFails(p.ask) /\ ~EffectiveSpreadPanics(p.bid, p.ask)
       /\ EffectiveSpread(p.bid, p.ask) \in {t, t + 1}
       /\ t % 2 = 0 => EffectiveSpread(p.bid, p.ask) = t
  BY <1>3, <1>9, <1>10, <1>11
<1> QED
  BY <1>12 DEF p

\* A quoted spread is within the bounds if the upper bound is even in its last
\* digit (the bounds of DefaultSpreadBounds have three digits of the sixteen).
THEOREM SpreadWithinBounds ==
    ASSUME NEW mid \in Int, NEW t \in Int, ~PricesFail(mid, t), MaxSpread % 2 = 0,
           NEW k \in Nat, One = k * Digit
    PROVE  LET p == Prices(mid, t)
           IN  EffectiveSpread(p.bid, p.ask) \in MinSpread .. MaxSpread
<1> DEFINE s == EffectiveSpread(Prices(mid, t).bid, Prices(mid, t).ask)
<1>1. s \in {t, t + 1} /\ (t % 2 = 0 => s = t)
  BY SpreadOfPrices
<1>2. t \in MinSpread .. MaxSpread
  BY SpreadAssumption DEF PricesFail
<1> HIDE DEF s
<1>3. s \in MinSpread .. MaxSpread
  BY <1>1, <1>2, SpreadAssumption
<1> QED
  BY <1>3 DEF s
==============================================================================

---------------------------- MODULE MCOrderManager ---------------------------
(* OrderManager on small instances, and SpreadCalc, which its plans would be *)
(* made with, on small prices with the bounds of DefaultSpreadBounds.        *)
EXTENDS OrderManager, SpreadCalc

CONSTANTS o1, o2, o3, o4

MCOrder     == {o1, o2, o3, o4}
ThreeOrders == {o1, o2, o3}

\* Mean is the mean of the prices to the nearest digit, EffectiveSpread the quotient
\* of difference and mean to the nearest unit, for any prices it accepts, and
\* Prices quotes both sides of the mid price at the spread it was asked for, or a
\* unit above it (for mid prices of no more decimals than a quotient has).
ASSUME SpreadReference ==
    /\ \A bid \in -40 .. 40, ask \in 1 .. 40 :
          LET mean  == Mean(bid, ask)
              size  == IF mean < 0 THEN -mean ELSE mean
              error == EffectiveSpread(bid, ask) * mean - One * (ask - bid)
          IN  /\ mean % Digit = 0 /\ 2 * mean - (ask + bid) \in -Digit .. Digit
              /\ EffectiveSpreadPanics(bid, ask) \/ 2 * error \in -size .. size
    /\ \A mid \in -1 .. 20, s \in MinSpread - 1 .. MaxSpread + 1 :
          LET p == Prices(mid, s) IN
          \/ PricesFail(mid, s)
          \/ /\ 0 < p.bid /\ p.bid < mid * One /\ mid * One < p.ask
             /\ One % Digit = 0 => EffectiveSpread(p.bid, p.ask) = s + (s % 2)
==============================================================================

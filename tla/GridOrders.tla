------------------------------ MODULE GridOrders ------------------------------
(***************************************************************************)
(* The parts a futures grid is made of                                     *)
(* (research/experiments/futures_grid): price levels with a resting buy or *)
(* sell order, an inventory that is long (positive) or short (negative),   *)
(* and the legs along which the price is taken to move inside a candle.    *)
(*                                                                         *)
(* Prices and quantities are integers.  An inventory keeps its quantity    *)
(* and its cost, quantity times average entry, so that rounding never      *)
(* creates or destroys money.  Rates are in thousandths.                   *)
(***************************************************************************)
EXTENDS Integers, Sequences, FiniteSetsExt, SequencesExt

Thousand == 1000

Magnitude(n) == IF n < 0 THEN -n ELSE n
Larger(a, b) == IF a > b THEN a ELSE b
Rated(amount, rate) == (amount * rate) \div Thousand

Flat == [qty |-> 0, cost |-> 0]

Unrealized(inv, price) == inv.qty * price - inv.cost
Notional(inv, price) == Magnitude(inv.qty) * price

-----------------------------------------------------------------------------
(* Trading d units, bought when d is positive, sold when it is negative    *)

\* The cost, at the average entry, of so many units of the inventory.
Carried(inv, units) ==
    (IF inv.qty < 0 THEN -1 ELSE 1)
      * ((Magnitude(inv.cost) * units) \div Magnitude(inv.qty))

Adds(inv, d) == inv.qty * d >= 0
Flips(inv, d) == inv.qty * (inv.qty + d) < 0

\* Realized on the whole fill, also where only a part of it closes inventory.
Realized(inv, d, price) ==
    IF Adds(inv, d) THEN 0 ELSE -(d * price) - Carried(inv, Magnitude(d))

Traded(inv, d, price) ==
    [qty |-> inv.qty + d,
     cost |-> IF Adds(inv, d) THEN inv.cost + d * price
              ELSE IF Flips(inv, d) THEN (inv.qty + d) * price
              ELSE inv.cost - Carried(inv, Magnitude(d))]

\* What a market exit of the whole inventory brings, at the slipped price.
SlippedValue(inv, price, slippage) ==
    inv.qty * price - Rated(Notional(inv, price), slippage)
ExitPnl(inv, price, slippage) == SlippedValue(inv, price, slippage) - inv.cost

-----------------------------------------------------------------------------
(* Levels and legs                                                         *)

\* open -> first extreme -> second extreme -> close
Legs(start, c) ==
    IF c.close >= c.open
    THEN <<<<start, c.low>>, <<c.low, c.high>>, <<c.high, c.close>>>>
    ELSE <<<<start, c.high>>, <<c.high, c.low>>, <<c.low, c.close>>>>

\* Levels with an order on the way from one price to another.
MetFalling(orders, level, from, to) == {i \in orders : to <= level[i] /\ level[i] <= from}
MetRising(orders, level, from, to) == {i \in orders : from <= level[i] /\ level[i] <= to}

\* A filled buy leaves a sell order one level up, a filled sell a buy order one
\* level down.
AfterBuy(orders, i, level) ==
    [buys |-> orders.buys \ {i},
     sells |-> orders.sells \union ({i + 1} \intersect DOMAIN level)]

AfterSell(orders, i, level) ==
    [sells |-> orders.sells \ {i},
     buys |-> orders.buys \union ({i - 1} \intersect DOMAIN level)]

NoOrders == [buys |-> {}, sells |-> {}]
=============================================================================

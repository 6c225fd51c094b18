-------------------------------- MODULE Fills --------------------------------
(***************************************************************************)
(* What a fill costs and where it happens: the fee and slippage models of  *)
(* domain/execution_costs.py, and the rules by which the execution engine  *)
(* (application/services/execution.py) judges orders and exits against one *)
(* candle.                                                                 *)
(*                                                                         *)
(* Prices and quantities are natural numbers; cash is counted in parts of  *)
(* which Unit make one unit of price times quantity, so that fee rates are *)
(* natural numbers too.                                                    *)
(***************************************************************************)
EXTENDS Integers

CONSTANTS
    Unit,            \* cash per unit of price times quantity
    MakerRate,       \* limit-order fee, in cash per unit of price times quantity
    TakerRate,       \* market-order fee, likewise
    SlippageRate     \* slippage of market orders, likewise

Positive == Nat \ {0}
Directions == {"BULLISH", "BEARISH"}
CloseReasons == {"STOP_LOSS", "TAKE_PROFIT"}

-----------------------------------------------------------------------------
(* Values of one position or trade                                         *)

Sign(direction) == IF direction = "BULLISH" THEN 1 ELSE -1

\* position_size: the notional at entry, in cash
Size(p) == Unit * (p.quantity * p.entry)

\* profit before costs if the position is closed, or marked, at this price
Gross(p, price) == Sign(p.direction) * (Unit * (p.quantity * (price - p.entry)))

\* Entries are limit orders; a stop is a market order, a target a limit order.
EntryFee(p) == MakerRate * (p.quantity * p.entry)
ExitFee(p, price, reason) ==
    (IF reason = "STOP_LOSS" THEN TakerRate ELSE MakerRate) * (p.quantity * price)
Slippage(p, price, reason) ==
    IF reason = "STOP_LOSS" THEN SlippageRate * (p.quantity * price) ELSE 0

Net(trade) == trade.gross - (trade.fees + trade.slippage + trade.funding)

-----------------------------------------------------------------------------
(* Prices seen from a direction: a long is hurt by low prices, a short by  *)
(* high ones.                                                              *)

NoBetter(direction, price, level) ==
    IF direction = "BULLISH" THEN price <= level ELSE price >= level

NoWorse(direction, price, level) == NoBetter(direction, level, price)

Worst(direction, c) == IF direction = "BULLISH" THEN c.low ELSE c.high
Best(direction, c) == IF direction = "BULLISH" THEN c.high ELSE c.low

\* An order fills at a price no worse than its entry.
AtOpen(o, c) == NoBetter(o.direction, c.open, o.entry)
Touched(o, c) == NoBetter(o.direction, Worst(o.direction, c), o.entry)

\* Mutation of FillPrice: the limit price, also where the candle opened past it.
FillPriceAtEntry(o, c) == o.entry

FillPrice(o, c) == IF AtOpen(o, c) THEN c.open ELSE o.entry

Exit(price, reason) == [price |-> price, reason |-> reason]

\* The exits below are sets with at most one member.
OpeningExit(p, c) ==
    IF NoBetter(p.direction, c.open, p.stop) THEN {Exit(c.open, "STOP_LOSS")}
    ELSE {x \in {Exit(c.open, "TAKE_PROFIT")} : NoWorse(p.direction, c.open, p.target)}

\* Mutation of RangeExit: a position that was entered inside the candle waits
\* for the next one.
RangeExitEnteredLater(p, c, entered) ==
    IF entered THEN {}
    ELSE IF NoBetter(p.direction, Worst(p.direction, c), p.stop)
    THEN {Exit(p.stop, "STOP_LOSS")}
    ELSE {x \in {Exit(p.target, "TAKE_PROFIT")} :
             NoWorse(p.direction, Best(p.direction, c), p.target)}

\* Mutation of RangeExit: the target is looked at before the stop.
RangeExitTargetFirst(p, c, entered) ==
    IF NoWorse(p.direction, IF entered THEN c.close ELSE Best(p.direction, c), p.target)
    THEN {Exit(p.target, "TAKE_PROFIT")}
    ELSE {x \in {Exit(p.stop, "STOP_LOSS")} :
             NoBetter(p.direction, Worst(p.direction, c), p.stop)}

\* When a candle touches both, the stop is taken; a position entered inside
\* the candle takes its target only if the close is beyond it.
RangeExit(p, c, entered) ==
    IF NoBetter(p.direction, Worst(p.direction, c), p.stop)
    THEN {Exit(p.stop, "STOP_LOSS")}
    ELSE {x \in {Exit(p.target, "TAKE_PROFIT")} :
             NoWorse(p.direction, IF entered THEN c.close ELSE Best(p.direction, c), p.target)}

IntrabarExit(p, c, entered) ==
    IF ~entered /\ OpeningExit(p, c) # {} THEN OpeningExit(p, c) ELSE RangeExit(p, c, entered)
=============================================================================

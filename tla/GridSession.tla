----------------------------- MODULE GridSession -----------------------------
(***************************************************************************)
(* One futures grid of fixed range and margin, simulator.py: resting       *)
(* orders at every level, fills along the legs of each candle, funding,    *)
(* liquidation, stop loss and take profit, and the market exit that ends   *)
(* the session.                                                            *)
(*                                                                         *)
(* A configuration is a record of GridConfig's fields; stop_loss_roi and   *)
(* take_profit_roi are sets, empty for None, in thousandths.               *)
(***************************************************************************)
EXTENDS GridOrders, Sums

CONSTANTS MakerFee, TakerFee, Slippage, MaintenanceRate, LiquidationFee   \* thousandths

GridConfig ==
    [lower : Nat \ {0}, upper : Nat \ {0}, grids : Nat \ {0}, margin : Nat \ {0},
     leverage : Nat, type : {"NEUTRAL", "LONG", "SHORT"}, mode : {"ARITHMETIC", "GEOMETRIC"},
     stopLoss : SUBSET (Nat \ {0}), takeProfit : SUBSET (Nat \ {0})]

\* price of level i: equal steps, or equal ratios
Steps(cfg) ==
    [i \in 0 .. cfg.grids |-> cfg.lower + (i * (cfg.upper - cfg.lower)) \div cfg.grids]

Powers(cfg, ratio) ==
    LET level[i \in 0 .. cfg.grids] == IF i = 0 THEN cfg.lower ELSE level[i - 1] * ratio
    IN  level

Ratio(cfg) == CHOOSE r \in 2 .. cfg.upper : Powers(cfg, r)[cfg.grids] = cfg.upper

Levels(cfg) == IF cfg.mode = "ARITHMETIC" THEN Steps(cfg) ELSE Powers(cfg, Ratio(cfg))

\* Prices are whole numbers here: the levels are a unit apart at least, and a
\* geometric grid has a whole ratio.
Spaced(cfg) ==
    IF cfg.mode = "ARITHMETIC" THEN cfg.lower + cfg.grids <= cfg.upper
    ELSE \E r \in 2 .. cfg.upper : Powers(cfg, r)[cfg.grids] = cfg.upper

\* every level stands for the same notional
Quantity(cfg, i) == ((cfg.margin * cfg.leverage) \div cfg.grids) \div Levels(cfg)[i]

Event(type, qty, value, fee, pnl, s) ==
    [type |-> type, qty |-> qty, value |-> value, fee |-> fee, pnl |-> pnl,
     inventory |-> s.inv.qty, wallet |-> s.wallet]

-----------------------------------------------------------------------------
(* Opening                                                                 *)

InitialOrders(cfg, price) ==
    LET level == Levels(cfg)
        below == {i \in DOMAIN level : level[i] < price}
        above == {i \in DOMAIN level : level[i] > price}
    IN  CASE cfg.type = "NEUTRAL" -> [buys |-> below, sells |-> above]
          [] cfg.type = "LONG" -> [buys |-> below, sells |-> DOMAIN level \ below]
          [] cfg.type = "SHORT" -> [buys |-> DOMAIN level \ above, sells |-> above]

NewSession(cfg, price) ==
    [status |-> "ACTIVE", config |-> cfg, lastPrice |-> price, wallet |-> cfg.margin,
     peak |-> cfg.margin, drawdown |-> 0, inv |-> Flat, peakInventory |-> 0,
     maxNotional |-> 0, profit |-> 0, fees |-> 0, funding |-> 0, completed |-> 0,
     fills |-> 0, orders |-> InitialOrders(cfg, price), events |-> <<>>]

-----------------------------------------------------------------------------
(* Valuation                                                               *)

MarginBalance(s, price) == s.wallet + Unrealized(s.inv, price)

IsLiquidatable(s, price) ==
    /\ s.inv.qty # 0
    /\ MarginBalance(s, price) <= Rated(Notional(s.inv, price), MaintenanceRate)

RoiAtMost(s, price, roi) ==
    Thousand * (MarginBalance(s, price) - s.config.margin) <= roi * s.config.margin
RoiAtLeast(s, price, roi) ==
    Thousand * (MarginBalance(s, price) - s.config.margin) >= roi * s.config.margin

StopLossDue(s, price) == \E roi \in s.config.stopLoss : RoiAtMost(s, price, -roi)
TakeProfitDue(s, price) == \E roi \in s.config.takeProfit : RoiAtLeast(s, price, roi)

-----------------------------------------------------------------------------
(* Fills                                                                   *)

\* What both kinds of fill do to the books; d is the signed quantity.
Booked(s, type, d, price) ==
    LET fee == Rated(Magnitude(d) * price, MakerFee)
        pnl == Realized(s.inv, d, price)
        inv == Traded(s.inv, d, price)
        t == [s EXCEPT !.wallet = @ - fee + pnl, !.fees = @ + fee, !.fills = @ + 1,
                       !.profit = @ + pnl, !.inv = inv,
                       !.peakInventory = Larger(@, Magnitude(inv.qty)),
                       !.maxNotional = Larger(@, Notional(inv, price))]
    IN  [t EXCEPT !.events =
            Append(@, Event(type, Magnitude(d), Magnitude(d) * price, fee, pnl, t))]

FillBuy(s, i) ==
    LET level == Levels(s.config)
    IN  [Booked(s, "BUY_FILL", Quantity(s.config, i), level[i])
            EXCEPT !.orders = AfterBuy(@, i, level)]

FillSell(s, i) ==
    LET level == Levels(s.config)
        closesLong == IF s.inv.qty > 0 THEN 1 ELSE 0
    IN  [Booked(s, "SELL_FILL", -Quantity(s.config, i), level[i])
            EXCEPT !.orders = AfterSell(@, i, level), !.completed = @ + closesLong]

-----------------------------------------------------------------------------
(* The end of a session                                                    *)

\* Mutation of Terminate: the liquidation fee is taken but not counted.
TerminateUncounted(s, status, price) ==
    LET fee == Rated(Notional(s.inv, price), TakerFee)
        clearance == IF status = "LIQUIDATED"
                     THEN Rated(Notional(s.inv, price), LiquidationFee) ELSE 0
        pnl == ExitPnl(s.inv, price, Slippage)
        t == [s EXCEPT !.status = status, !.orders = NoOrders, !.inv = Flat,
                       !.wallet = @ + pnl - fee - clearance, !.fees = @ + fee]
    IN  [t EXCEPT !.events =
            Append(@, Event(status, Magnitude(s.inv.qty),
                            SlippedValue(s.inv, price, Slippage), fee, pnl, t))]

\* Cancel all orders and close the inventory at market.
Terminate(s, status, price) ==
    LET slipped == Magnitude(SlippedValue(s.inv, price, Slippage))
        fee == Rated(slipped, TakerFee)
               + (IF status = "LIQUIDATED" THEN Rated(slipped, LiquidationFee) ELSE 0)
        pnl == ExitPnl(s.inv, price, Slippage)
        t == [s EXCEPT !.status = status, !.orders = NoOrders, !.inv = Flat,
                       !.wallet = @ + pnl - fee, !.fees = @ + fee]
    IN  [t EXCEPT !.events =
            Append(@, Event(status, Magnitude(s.inv.qty),
                            SlippedValue(s.inv, price, Slippage), fee, pnl, t))]

\* close, by the regime gate or because time is up
Close(s, price, reason) ==
    IF s.status # "ACTIVE" THEN s
    ELSE Terminate(s, IF reason = "GATE" THEN "CLOSED_GATE" ELSE "TIMEOUT", price)

-----------------------------------------------------------------------------
(* One candle                                                              *)

\* The orders filled on the way along a leg, from the highest level down when the
\* price falls and from the lowest up when it rises; prices rise with the levels.
Crossed(s, level, from, to) ==
    LET top == s.config.grids
        met == IF to < from THEN MetFalling(s.orders.buys, level, from, to)
               ELSE MetRising(s.orders.sells, level, from, to)
        at(n) == IF to < from THEN top + 1 - n ELSE n - 1
        after[n \in 0 .. top + 1] ==
            IF n = 0 THEN s
            ELSE IF at(n) \notin met THEN after[n - 1]
            ELSE IF to < from THEN FillBuy(after[n - 1], at(n)) ELSE FillSell(after[n - 1], at(n))
    IN  after[top + 1]

\* Mutation of Stopped: the stops are not looked at on the way up.
StoppedFallingOnly(s, from, to) ==
    IF to < from /\ IsLiquidatable(s, to) THEN Terminate(s, "LIQUIDATED", to)
    ELSE IF to < from /\ StopLossDue(s, to) THEN Terminate(s, "CLOSED_SL", to)
    ELSE IF TakeProfitDue(s, to) THEN Terminate(s, "CLOSED_TP", to)
    ELSE s

\* What is due at the end of a leg: liquidation and stop loss, if the price moved
\* at all, then take profit.
Stopped(s, from, to) ==
    IF to # from /\ IsLiquidatable(s, to) THEN Terminate(s, "LIQUIDATED", to)
    ELSE IF to # from /\ StopLossDue(s, to) THEN Terminate(s, "CLOSED_SL", to)
    ELSE IF TakeProfitDue(s, to) THEN Terminate(s, "CLOSED_TP", to)
    ELSE s

TraverseLeg(s, from, to) ==
    Stopped(IF to = from THEN s ELSE Crossed(s, Levels(s.config), from, to), from, to)

Funded(s, price, rate) ==
    LET cost == (IF s.inv.qty > 0 THEN 1 ELSE -1) * Rated(Notional(s.inv, price), rate)
        t == [s EXCEPT !.wallet = @ - cost, !.funding = @ + cost]
    IN  [t EXCEPT !.events =
            Append(@, Event("FUNDING", Magnitude(s.inv.qty), 0, cost, 0, t))]

\* A session that is still active after the candle is valued at its close.
Drawn(s, price) ==
    LET equity == MarginBalance(s, price)
        peak == Larger(s.peak, equity)
    IN  IF s.status # "ACTIVE" THEN s
        ELSE [s EXCEPT !.lastPrice = price, !.peak = peak,
                       !.drawdown = Larger(@, (Thousand * (peak - equity)) \div peak)]

\* The three legs, as long as none of them ends the session.
Walk(s, leg) == IF s.status = "ACTIVE" THEN TraverseLeg(s, leg[1], leg[2]) ELSE s
Walked(s, c, start) ==
    LET legs == Legs(start, c) IN Walk(Walk(Walk(s, legs[1]), legs[2]), legs[3])

\* Mutation of ProcessCandle: the path starts at the open of the candle.
ProcessCandleFromOpen(s, c, rate) ==
    IF s.status # "ACTIVE" THEN s ELSE Drawn(Walked(s, c, c.open), c.close)

\* Funding on what was held at the open, then the legs from the price seen last
\* until one of them ends the session.
ProcessCandle(s, c, rate) ==
    LET pays == rate # 0 /\ s.inv.qty # 0
        funded == IF pays THEN Funded(s, c.open, rate) ELSE s
    IN  IF s.status # "ACTIVE" THEN s
        ELSE IF pays /\ IsLiquidatable(funded, c.open)
        THEN Terminate(funded, "LIQUIDATED", c.open)
        ELSE Drawn(Walked(funded, c, s.lastPrice), c.close)

NetPnl(s) == s.wallet - s.config.margin
=============================================================================

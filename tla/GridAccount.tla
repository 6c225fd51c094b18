----------------------------- MODULE GridAccount -----------------------------
(***************************************************************************)
(* PortfolioAccount (portfolio.py): one pool of capital that several grids *)
(* share.  A grid is allotted margin from what the equity leaves free;     *)
(* inventories are closed at market; the whole account is liquidated when  *)
(* its equity falls to the maintenance margin.                             *)
(*                                                                         *)
(* The operators take an account and a function of prices.  The fields     *)
(* traded and turned are history: the cash of all trades, and whether one  *)
(* of them turned an inventory through zero.                               *)
(***************************************************************************)
EXTENDS GridOrders, Sums

CONSTANTS Order,                                                     \* the symbols
          MakerFee, TakerFee, Slippage, MaintenanceRate, LiquidationFee,  \* thousandths
          InitialCapital

Symbols == Range(Order)

ASSUME AccountAssumption ==
    /\ Order \in Seq(Symbols) /\ Order # <<>>
    /\ \A i, j \in 1 .. Len(Order) : Order[i] = Order[j] => i = j
    /\ {MakerFee, TakerFee, Slippage, MaintenanceRate, LiquidationFee} \subseteq Nat
    /\ InitialCapital \in Nat \ {0}

Smaller(a, b) == IF a < b THEN a ELSE b

NewAccount ==
    [wallet |-> InitialCapital, peak |-> InitialCapital, drawdown |-> 0,
     bankrupt |-> FALSE, liquidations |-> 0, makerFees |-> 0, takerFees |-> 0,
     profit |-> 0, churn |-> 0, history |-> <<>>, traded |-> 0, turned |-> FALSE,
     inv |-> [s \in Symbols |-> Flat], margin |-> [s \in Symbols |-> 0]]

\* sum over the inventories
Total(of) == SumTo([i \in 1 .. Len(Order) |-> of[Order[i]]], Len(Order))

\* wallet and unrealized profit, before a loss is cut off at zero
RawEquity(a, prices) ==
    a.wallet + Total([s \in Symbols |-> Unrealized(a.inv[s], prices[s])])

EquityOf(a, prices) == IF a.bankrupt THEN 0 ELSE Larger(0, RawEquity(a, prices))

MaintenanceMargin(a, prices) ==
    Total([s \in Symbols |-> Rated(Notional(a.inv[s], prices[s]), MaintenanceRate)])

MarginAllocated(a) == Total(a.margin)

\* Mutation of AvailableMargin: equity that is already allotted counts again.
AvailableMarginUnshared(a, prices) == EquityOf(a, prices)

AvailableMargin(a, prices) ==
    IF a.bankrupt THEN 0 ELSE Larger(0, EquityOf(a, prices) - MarginAllocated(a))

\* allocate_margin: what it allots, and the account afterwards
Allotment(a, requested, prices) == Smaller(requested, AvailableMargin(a, prices))
AllocateMargin(a, s, amount) == [a EXCEPT !.margin[s] = @ + amount]
ReleaseMargin(a, s) == [a EXCEPT !.margin[s] = 0]

\* Mutation of MarketClose: the fee is counted but not paid.
MarketCloseFree(a, s, price, reason) ==
    LET inv == a.inv[s]
        fee == Rated(Magnitude(SlippedValue(inv, price, Slippage)), TakerFee)
        pnl == ExitPnl(inv, price, Slippage)
    IN  [account |-> [a EXCEPT !.wallet = @ + pnl, !.takerFees = @ + fee,
                               !.traded = @ + SlippedValue(inv, price, Slippage) - fee,
                               !.inv[s] = Flat, !.margin[s] = 0],
         net |-> pnl - fee]

\* market_close_inventory: the account afterwards and the net result
MarketClose(a, s, price, reason) ==
    LET inv == a.inv[s]
        value == SlippedValue(inv, price, Slippage)
        fee == Rated(Magnitude(value), TakerFee)
        pnl == ExitPnl(inv, price, Slippage)
        loss == IF pnl < 0 THEN -pnl ELSE 0
    IN  IF inv.qty = 0 THEN [account |-> ReleaseMargin(a, s), net |-> 0]
        ELSE [account |-> [a EXCEPT !.wallet = @ + pnl - fee, !.takerFees = @ + fee,
                                    !.churn = IF reason \in {"GATE", "CHURN"}
                                              THEN @ + fee + loss ELSE @,
                                    !.traded = @ + value - fee,
                                    !.inv[s] = Flat, !.margin[s] = 0],
              net |-> pnl - fee]

-----------------------------------------------------------------------------
(* Fills of a grid's orders                                                *)

Filled(a, s, d, price) ==
    LET fee == Rated(Magnitude(d) * price, MakerFee)
        pnl == Realized(a.inv[s], d, price)
    IN  [a EXCEPT !.wallet = @ - fee + pnl, !.makerFees = @ + fee, !.profit = @ + pnl,
                  !.traded = @ - d * price - fee,
                  !.turned = @ \/ Flips(a.inv[s], d),
                  !.inv[s] = Traded(@, d, price)]

-----------------------------------------------------------------------------
(* The end of a bar                                                        *)

Snapshot(a, prices) ==
    LET equity == EquityOf(a, prices)
    IN  [equity |-> equity,
         margin |-> MarginAllocated(a),
         available |-> AvailableMargin(a, prices),
         active |-> Cardinality({s \in Symbols : a.inv[s].qty # 0 \/ a.margin[s] > 0}),
         notional |-> Total([s \in Symbols |-> Notional(a.inv[s], prices[s])]),
         drawdown |-> IF a.bankrupt THEN Thousand
                      ELSE (Thousand * (a.peak - equity)) \div a.peak]

Recorded(a, prices) == [a EXCEPT !.history = Append(@, Snapshot(a, prices))]

\* Every inventory is closed at market, with the liquidation fee; a deficit is not
\* carried.  Margin of symbols without inventory stays allotted.
Liquidated(a, prices) ==
    LET value == [s \in Symbols |-> SlippedValue(a.inv[s], prices[s], Slippage)]
        fee == [s \in Symbols |-> Rated(Magnitude(value[s]), TakerFee + LiquidationFee)]
        left == a.wallet + Total([s \in Symbols |-> value[s] - a.inv[s].cost - fee[s]])
    IN  [a EXCEPT !.bankrupt = TRUE, !.liquidations = @ + 1,
                  !.wallet = Larger(0, left),
                  !.takerFees = @ + Total(fee),
                  !.inv = [s \in Symbols |-> Flat],
                  !.margin = [s \in Symbols |-> IF a.inv[s].qty # 0 THEN 0 ELSE @[s]]]

\* Mutation of Stepped: the account is looked at only when its equity is gone.
SteppedLate(a, prices) ==
    IF a.bankrupt THEN Recorded(a, prices)
    ELSE IF RawEquity(a, prices) <= 0 THEN Recorded(Liquidated(a, prices), prices)
    ELSE Recorded([a EXCEPT !.peak = Larger(@, EquityOf(a, prices))], prices)

\* step: liquidation, or peak and drawdown, and a snapshot either way
Stepped(a, prices) ==
    LET equity == EquityOf(a, prices)
        peak == Larger(a.peak, equity)
    IN  IF a.bankrupt THEN Recorded(a, prices)
        ELSE IF RawEquity(a, prices) <= MaintenanceMargin(a, prices)
                \/ RawEquity(a, prices) <= 0
        THEN Recorded(Liquidated(a, prices), prices)
        ELSE Recorded([a EXCEPT !.peak = peak,
                                !.drawdown = Larger(@, (Thousand * (peak - equity)) \div peak)],
                      prices)
=============================================================================

---------------------------- MODULE ContinuousGrid ----------------------------
(***************************************************************************)
(* Grids that live on one account for a whole history                      *)
(* (exit_management_engine.py for what happens to one symbol,              *)
(* backtest_exit_variants.py for the loop over the symbols of a shared     *)
(* account).  A regime seen at the close of a bar is acted on at the next  *)
(* open: first every symbol decides, then every symbol plays the bar, then *)
(* the account is stepped.  What a refused regime does to a running grid   *)
(* is the variant under study.                                             *)
(***************************************************************************)
EXTENDS GridAccount

CONSTANTS
    Variants,
    RangePct,          \* thousandths
    NumGrids,
    Leverage,
    RequestedMargin,   \* allocated_margin of the configuration
    MinimumMargin,     \* below this no grid is started
    StopLossRoi,       \* thousandths
    AtrPeriod,
    AtrMultiplier,
    HysteresisBars,
    MaxSessionBars,
    PostBars,          \* bars after an exit at which it is judged
    Tolerance,         \* thousandths of the exit price
    Rows,              \* bars and regime verdicts of all symbols, row by row
    WarmUp,            \* the candle before the first decision
    MaxBars,           \* bound on the bars of a run
    None

PriceBar == [open : Nat \ {0}, high : Nat \ {0}, low : Nat \ {0}, close : Nat \ {0}]

ASSUME GridAssumption ==
    /\ Variants \subseteq {"IMMEDIATE_CLOSE", "FREEZE", "FREEZE_ATR", "HYSTERESIS"}
    /\ RangePct \in 0 .. Thousand - 1
    /\ {NumGrids, MinimumMargin, AtrPeriod, HysteresisBars, MaxSessionBars} \subseteq Nat \ {0}
    /\ {Leverage, RequestedMargin, StopLossRoi, AtrMultiplier} \subseteq Nat
    /\ WarmUp \in PriceBar
    /\ Rows \subseteq [bar : [Symbols -> PriceBar], allowed : [Symbols -> BOOLEAN]]

\* A grid; levels without orders as long as it is frozen.
Grid ==
    [state : {"ACTIVE", "FROZEN", "FROZEN_ATR"}, bars : Nat, streak : Nat, margin : Nat,
     level : [0 .. NumGrids -> Nat \ {0}], stop : SUBSET Int, high : Int, low : Int,
     completed : Nat, fills : Nat,
     orders : [buys : SUBSET (0 .. NumGrids), sells : SUBSET (0 .. NumGrids)]]

ASSUME NoneIsNoGrid == None \notin Grid

VARIABLES
    variant,
    account,
    grids,      \* symbol -> active grid, or None
    candles,    \* symbol -> bars seen so far; the last is being traded
    allowed,    \* symbol -> regime verdicts, one per decision
    records,    \* what the regime exits cost
    phase,      \* "BAR", "DECIDE", "PLAY", "STEP" or "END"
    turn        \* place in Order of the symbol whose turn it is

gridVars == <<variant, account, grids, candles, allowed, records, phase, turn>>

Current(s) == Last(candles[s])
OpenPrices == [s \in Symbols |-> Current(s).open]
ClosePrices == [s \in Symbols |-> Current(s).close]

-----------------------------------------------------------------------------
(* compute_atr_series: mean of the last true ranges                        *)

TrueRange(bars, k) ==
    LET c == bars[k]
    IN  IF k = 1 THEN c.high - c.low
        ELSE Larger(c.high - c.low, Larger(Magnitude(c.high - bars[k - 1].close),
                                           Magnitude(c.low - bars[k - 1].close)))

\* over the bars known when the current one opens
Atr(s) ==
    LET n == Len(candles[s]) - 1
        before == Larger(0, n - AtrPeriod)
    IN  SumTo([k \in 1 .. n - before |-> TrueRange(candles[s], before + k)], n - before)
          \div (n - before)

-----------------------------------------------------------------------------
(* A grid                                                                  *)

LevelsAround(price) ==
    [i \in 0 .. NumGrids |->
        price - Rated(price, RangePct) + (i * 2 * Rated(price, RangePct)) \div NumGrids]

NewGrid(price, margin) ==
    LET level == LevelsAround(price)
    IN  [state |-> "ACTIVE", bars |-> 0, streak |-> 0, margin |-> margin, level |-> level,
         stop |-> {}, high |-> price, low |-> price, completed |-> 0, fills |-> 0,
         orders |-> [buys |-> {i \in DOMAIN level : level[i] < price},
                     sells |-> {i \in DOMAIN level : level[i] > price}]]

Quantity(g, i) == ((g.margin * Leverage) \div NumGrids) \div g.level[i]

\* One fill; p holds the account and the grid.
FilledAt(p, s, i, side) ==
    LET d == (IF side = "BUY" THEN 1 ELSE -1) * Quantity(p.grid, i)
    IN  [account |-> Filled(p.account, s, d, p.grid.level[i]),
         grid |-> [p.grid EXCEPT !.fills = @ + 1,
                                 !.completed = IF Adds(p.account.inv[s], d) THEN @ ELSE @ + 1,
                                 !.orders = IF side = "BUY"
                                            THEN AfterBuy(@, i, p.grid.level)
                                            ELSE AfterSell(@, i, p.grid.level)]]

\* The orders that a falling price meets, from the highest level down, or a rising
\* one from the lowest up.
ExecuteLeg(p, s, leg) ==
    LET falling == leg[2] < leg[1]
        met == IF falling
               THEN {i \in p.grid.orders.buys : p.grid.level[i] \in leg[2] .. leg[1]}
               ELSE {i \in p.grid.orders.sells : p.grid.level[i] \in leg[1] .. leg[2]}
        at(n) == IF falling THEN NumGrids + 1 - n ELSE n - 1
        after[n \in 0 .. NumGrids + 1] ==
            IF n = 0 THEN p
            ELSE IF at(n) \in met
            THEN FilledAt(after[n - 1], s, at(n), IF falling THEN "BUY" ELSE "SELL")
            ELSE after[n - 1]
    IN  after[NumGrids + 1]

-----------------------------------------------------------------------------
(* Parts of a turn.  A world is the account, the grids and the records.    *)

World == [account |-> account, grids |-> grids, records |-> records]

ExitRecord(s, type, inv, price, net) ==
    [symbol |-> s, type |-> type, qty |-> inv.qty, cost |-> inv.cost, price |-> price,
     net |-> net, bar |-> Len(candles[s]),
     churn |-> Rated(Notional(inv, price), TakerFee) + Rated(Notional(inv, price), Slippage)]

Dropped(w, s) ==
    [w EXCEPT !.account = ReleaseMargin(@, s), !.grids[s] = None]

\* Close the inventory, if there is one, write the record, and give up the grid.
Exited(w, s, price, type, reason) ==
    LET inv == w.account.inv[s]
        closed == MarketClose(w.account, s, price, reason)
    IN  Dropped(IF inv.qty = 0 THEN w
                ELSE [w EXCEPT !.account = closed.account,
                               !.records = Append(@, ExitRecord(s, type, inv, price, closed.net))],
                s)

Frozen(w, s, state) ==
    [w EXCEPT !.grids[s] = [@ EXCEPT !.state = state, !.orders = NoOrders]]

\* A stop a few average ranges away from the open, on the losing side.
TrailingStop(qty, price, atr) ==
    IF qty > 0 THEN {price - AtrMultiplier * atr}
    ELSE IF qty < 0 THEN {price + AtrMultiplier * atr} ELSE {}

\* Mutation of Confirmed: one bar more than asked for.
ConfirmedLate(g) == g.streak > HysteresisBars

\* Enough refused bars in a row.
Confirmed(g) == g.streak >= HysteresisBars

\* What a refused regime does.
Refused(w, s, price) ==
    CASE variant = "IMMEDIATE_CLOSE" -> Exited(w, s, price, "IMMEDIATE", "CHURN")
      [] variant = "FREEZE" ->
            IF w.grids[s].state = "ACTIVE" THEN Frozen(w, s, "FROZEN") ELSE w
      [] variant = "FREEZE_ATR" ->
            IF w.grids[s].state = "ACTIVE"
            THEN [Frozen(w, s, "FROZEN_ATR")
                     EXCEPT !.grids[s] =
                        [@ EXCEPT !.high = price, !.low = price,
                                  !.stop = TrailingStop(w.account.inv[s].qty, price, Atr(s))]]
            ELSE w
      [] variant = "HYSTERESIS" ->
            IF Confirmed(w.grids[s])
            THEN Exited(w, s, price, "HYSTERESIS_CONFIRMED", "CHURN") ELSE w

\* A frozen grid is closed, so that a new one can be centred, once the regime is
\* good again.
Recentered(w, s, price) ==
    IF w.grids[s].state \in {"FROZEN", "FROZEN_ATR"}
    THEN Exited(w, s, price, "RECENTER_CHOP", "RECENTER") ELSE w

\* Mutation of TimedOut: the grid is given up, the inventory stays.
TimedOutHolding(w, s, price) ==
    IF w.grids[s] # None /\ w.grids[s].bars >= MaxSessionBars THEN Dropped(w, s) ELSE w

\* An old session is closed without a record.
TimedOut(w, s, price) ==
    IF w.grids[s] # None /\ w.grids[s].bars >= MaxSessionBars
    THEN Dropped([w EXCEPT !.account = MarketClose(@, s, price, "TIMEOUT").account], s)
    ELSE w

\* A new grid takes what margin it can get; what is too little for a grid stays
\* allotted all the same.
Reopened(w, s, prices) ==
    LET amount == Allotment(w.account, RequestedMargin, prices)
        taken == [w EXCEPT !.account = AllocateMargin(@, s, amount)]
    IN  IF amount >= MinimumMargin
        THEN [taken EXCEPT !.grids[s] = NewGrid(prices[s], amount)] ELSE taken

\* One more bar of a session, and one more refused regime in a row or none.
Aged(g, ok) == [g EXCEPT !.bars = @ + 1, !.streak = IF ok THEN 0 ELSE @ + 1]

Decided(w, s, ok, prices) ==
    LET counted == [w EXCEPT !.grids[s] = Aged(@, ok)]
        judged == IF w.grids[s] = None THEN w
                  ELSE TimedOut(IF ok THEN Recentered(counted, s, prices[s])
                                ELSE Refused(counted, s, prices[s]),
                                s, prices[s])
    IN  IF judged.grids[s] = None /\ ok THEN Reopened(judged, s, prices) ELSE judged

StopOf(g) == CHOOSE x \in g.stop : TRUE

Followed(g, long, stop, c) ==
    [g EXCEPT !.stop = {stop},
              !.high = IF long THEN Larger(@, c.high) ELSE @,
              !.low = IF long THEN @ ELSE Smaller(@, c.low)]

\* The stop follows the extreme of the bar, and is then compared with the other
\* end of the same bar; the exit is at the stop.
Trailed(w, s, c) ==
    LET g == w.grids[s]
        long == w.account.inv[s].qty > 0
        old == StopOf(g)
        extended == IF long THEN c.high > g.high ELSE c.low < g.low
        moved == IF long THEN Larger(old, c.high - AtrMultiplier * Atr(s))
                 ELSE Smaller(old, c.low + AtrMultiplier * Atr(s))
        stop == IF extended THEN moved ELSE old
        kept == [w EXCEPT !.grids[s] = Followed(@, long, stop, c)]
    IN  IF g = None THEN w
        ELSE IF g.state # "FROZEN_ATR" \/ g.stop = {} THEN w
        ELSE IF (IF long THEN c.low <= stop ELSE c.high >= stop)
        THEN Exited(kept, s, stop, "ATR_TRAILING", "SL") ELSE kept

\* An active grid trades along the legs, from the open of the bar.
Worked(w, s, c) ==
    LET leg == Legs(c.open, c)
        first == ExecuteLeg([account |-> w.account, grid |-> w.grids[s]], s, leg[1])
        done == ExecuteLeg(ExecuteLeg(first, s, leg[2]), s, leg[3])
    IN  IF w.grids[s] = None THEN w
        ELSE IF w.grids[s].state # "ACTIVE" THEN w
        ELSE [w EXCEPT !.account = done.account, !.grids[s] = done.grid]

\* The stop loss of a grid, at the close of the bar.
StopLoss(w, s, c) ==
    LET inv == w.account.inv[s]
    IN  IF w.grids[s] = None \/ inv.qty = 0 THEN w
        ELSE IF Unrealized(inv, c.close) <= -Rated(w.grids[s].margin, StopLossRoi)
        THEN Exited(w, s, c.close, "SL_HIT", "SL") ELSE w

Played(w, s, c) == StopLoss(Worked(Trailed(w, s, c), s, c), s, c)

-----------------------------------------------------------------------------
(* The loop                                                                *)

Init ==
    /\ variant \in Variants
    /\ account = NewAccount
    /\ grids = [s \in Symbols |-> None]
    /\ candles = [s \in Symbols |-> <<WarmUp>>]
    /\ allowed = [s \in Symbols |-> <<>>]
    /\ records = <<>>
    /\ phase = "BAR" /\ turn = 1

\* The next bar of all symbols, unless the account is bankrupt or data runs out.
NextBar(row) ==
    /\ phase = "BAR" /\ ~account.bankrupt
    /\ Len(candles[Order[1]]) <= MaxBars
    /\ candles' = [s \in Symbols |-> Append(candles[s], row.bar[s])]
    /\ allowed' = [s \in Symbols |-> Append(allowed[s], row.allowed[s])]
    /\ phase' = "DECIDE" /\ turn' = 1
    /\ UNCHANGED <<variant, account, grids, records>>

\* Each pass over the symbols hands over to the next one.
Advance(here, after) ==
    IF turn < Len(Order) THEN phase' = here /\ turn' = turn + 1
    ELSE phase' = after /\ turn' = 1

Becomes(w) == account' = w.account /\ grids' = w.grids /\ records' = w.records

Decide ==
    /\ phase = "DECIDE"
    /\ LET s == Order[turn] IN Becomes(Decided(World, s, Last(allowed[s]), OpenPrices))
    /\ Advance("DECIDE", "PLAY")
    /\ UNCHANGED <<variant, candles, allowed>>

Play ==
    /\ phase = "PLAY"
    /\ LET s == Order[turn] IN Becomes(Played(World, s, Current(s)))
    /\ Advance("PLAY", "STEP")
    /\ UNCHANGED <<variant, candles, allowed>>

StepAccount ==
    /\ phase = "STEP"
    /\ account' = Stepped(account, ClosePrices)
    /\ phase' = "BAR"
    /\ UNCHANGED <<variant, grids, candles, allowed, records, turn>>

\* _annotate_post_exit_prices: an exit is judged by the close PostBars later, or,
\* when there is none, by its own price.
Annotated(r) ==
    LET later == r.bar + PostBars
        reference == IF later <= Len(candles[r.symbol])
                     THEN candles[r.symbol][later].close ELSE r.price
        worse == IF r.qty > 0
                 THEN Thousand * reference < (Thousand - Tolerance) * r.price
                 ELSE Thousand * reference > (Thousand + Tolerance) * r.price
        back == r.qty * reference >= r.cost
    IN  [verdict |-> IF worse THEN "PROTECTIVE" ELSE IF back THEN "SPURIOUS" ELSE "NEITHER"]
          @@ r

AllClosed(a, prices) ==
    LET after[i \in 0 .. Len(Order)] ==
            IF i = 0 THEN a
            ELSE MarketClose(after[i - 1], Order[i], prices[Order[i]], "TIMEOUT").account
    IN  after[Len(Order)]

\* Whatever is left is closed at the last close.
Finish ==
    /\ phase = "BAR" /\ Len(candles[Order[1]]) > 1
    /\ account' = Stepped(AllClosed(account, ClosePrices), ClosePrices)
    /\ records' = [k \in DOMAIN records |-> Annotated(records[k])]
    /\ phase' = "END"
    /\ UNCHANGED <<variant, grids, candles, allowed, turn>>

Next ==
    \/ \E row \in Rows : NextBar(row)
    \/ Decide
    \/ Play
    \/ StepAccount
    \/ Finish

Spec == Init /\ [][Next]_gridVars

-----------------------------------------------------------------------------
(* Properties                                                              *)

\* A grid that is started is covered: with its margin the margins of all symbols
\* together are within the equity at the prices of that moment.
PoolNeverOversold ==
    [][\A s \in Symbols :
          grids[s] = None /\ grids'[s] # None =>
             /\ MarginAllocated(account') <= EquityOf(account', OpenPrices)
             /\ account'.margin[s] >= grids'[s].margin]_gridVars

\* Between the turns an inventory always belongs to a running grid, whose stop
\* loss looks after it, and is never left on an account that has ended.
InventoryManaged ==
    \A s \in Symbols :
        /\ account.inv[s].qty # 0 => grids[s] # None
        /\ phase = "END" \/ account.bankrupt => account.inv[s] = Flat
        /\ grids[s] # None /\ ~account.bankrupt /\ phase # "END" =>
              /\ grids[s].margin <= account.margin[s]
              /\ grids[s].bars < MaxSessionBars

\* Whether the last n verdicts on a symbol were refusals.
RefusedFor(s, n) ==
    /\ Len(allowed[s]) >= n
    /\ \A k \in 0 .. n - 1 : ~allowed[s][Len(allowed[s]) - k]

\* Once all symbols have decided, a refused regime has had its effect: no grid, or
\* one without orders; with hysteresis as soon as enough refusals have come in a
\* row.  A grid is frozen only as long as its regime is refused.
RegimeObeyed ==
    phase = "PLAY" => \A s \in Symbols :
        /\ variant = "IMMEDIATE_CLOSE" /\ RefusedFor(s, 1) => grids[s] = None
        /\ variant \in {"FREEZE", "FREEZE_ATR"} /\ RefusedFor(s, 1) =>
              grids[s] = None \/ grids[s].orders = NoOrders
        /\ variant = "HYSTERESIS" /\ RefusedFor(s, HysteresisBars) => grids[s] = None
        /\ RefusedFor(s, 1) \/ grids[s] = None \/ grids[s].state = "ACTIVE"

\* As long as no fill has turned an inventory through zero, the wallet is the
\* capital, the cash of all trades, and the inventories at cost.
BooksMatchTrades ==
    ~account.turned /\ ~account.bankrupt =>
        account.wallet = InitialCapital + account.traded
                         + Total([s \in Symbols |-> account.inv[s].cost])

\* After every bar the account is either above its maintenance margin or has been
\* liquidated, once, and owes nothing; its drawdown is the deepest of the recorded
\* ones as long as it lives.
SolventOrHalted ==
    /\ account.bankrupt =>
          account.liquidations = 1 /\ account.wallet >= 0 /\ EquityOf(account, ClosePrices) = 0
    /\ phase = "BAR" /\ ~account.bankrupt /\ account.history # <<>> =>
          /\ RawEquity(account, ClosePrices) > MaintenanceMargin(account, ClosePrices)
          /\ account.drawdown = Max({account.history[k].drawdown : k \in DOMAIN account.history})

\* The wallet is what was traded, and the account is liquidated as soon as it is not
\* above its maintenance margin.
AccountSound == BooksMatchTrades /\ SolventOrHalted
=============================================================================

---------------------------- MODULE TradeBacktest ----------------------------
(***************************************************************************)
(* TradeBacktester (application/services/trade_backtester.py): after the   *)
(* prefetch, every symbol is played by itself, with an account and an      *)
(* execution engine of its own, candle by candle: first the waiting order  *)
(* and the position meet the candle (PaperExecutionEngine for one symbol,  *)
(* in legacy funding mode), then the signals are computed from what is     *)
(* known, and may leave an order for the next candle.                      *)
(*                                                                         *)
(* The pipeline (scores, set-up, risk decision, sizing) is an external     *)
(* operator of its inputs, one per strategy.                               *)
(***************************************************************************)
EXTENDS HistoricalData, Fills, Sums

CONSTANTS
    InitialCapital,
    Quotes,            \* symbol -> open time -> candle
    Rates,             \* symbol -> settlement -> cash per unit of notional
    FundingInterval,   \* eight hours
    Intelligence,      \* times from which intelligence records are available
    Strategies,
    Decide(_, _, _)    \* strategy, view, account -> an order, or None

ASSUME BacktestAssumption ==
    /\ InitialCapital \in Int /\ FundingInterval \in Nat \ {0}
    /\ {Unit, MakerRate, TakerRate, SlippageRate} \subseteq Int
    /\ \A s \in Pairs : \A t \in CandleTimes[s][1] :
          Quotes[s][t] \in [open : Int, high : Int, low : Int, close : Int]
    /\ \A s \in Pairs : \A t \in Settlements[s] : Rates[s][t] \in Int
    /\ \A s \in Pairs : \A f \in Fields : Samples[s][f] \subseteq Nat
    /\ Intelligence \subseteq Nat
    /\ \A s \in Pairs, b \in 1 .. Len(Bars) : \A c \in SUBSET CandleTimes[s][b] : c # None
    /\ None \notin [direction : Directions, quantity : Int, stop : Int, target : Int,
                    placed : Int, entry : Int, openedAt : Int]

VARIABLES
    strategy,
    clock,     \* open time of the candle played last, or NotYet
    account,   \* portfolio and execution engine of the symbol in turn
    played,    \* symbols done in this run
    trades     \* all_trades

simVars == <<strategy, clock, account, played, trades>>
btVars == <<dataVars, simVars>>

Fresh == [free |-> InitialCapital, total |-> InitialCapital, peak |-> InitialCapital,
          position |-> None, order |-> None, closed |-> <<>>, raised |-> FALSE]

-----------------------------------------------------------------------------
(* What is known when the candle that opened at time t has closed          *)

Data(s) ==
    [candles |-> series[<<s, 1>>],
     higher |-> IF Len(Bars) = 1 THEN {} ELSE series[<<s, 2>>],
     rates |-> IF rates[s] = None THEN {} ELSE rates[s],
     context |-> IF contexts[s] = None THEN [f \in Fields |-> {}] ELSE contexts[s],
     intelligence |-> Intelligence]

\* Mutation of View: a higher candle counts from its open.
ViewUnfinished(d, t) ==
    [candles |-> Published(d.candles, t),
     higher |-> Published(d.higher, t),
     rate |-> LastKnown(d.rates, t),
     context |-> [f \in Fields |-> Published(d.context[f], t)],
     intelligence |-> Published(d.intelligence, t)]

\* Candles of the higher timeframe count when they have closed.
View(d, t) ==
    [candles |-> Published(d.candles, t),
     higher |-> {u \in d.higher : u + Bars[2] <= t + Bars[1]},
     rate |-> LastKnown(d.rates, t),
     context |-> [f \in Fields |-> Published(d.context[f], t)],
     intelligence |-> Published(d.intelligence, t)]

-----------------------------------------------------------------------------
(* process_market_tick                                                     *)

Value(p, price) == Size(p) + Gross(p, price)

\* update_market_prices; a position worth less than nothing is refused.
Mark(a, price) ==
    IF a.raised \/ a.position = None THEN a
    ELSE IF Value(a.position, price) < 0 THEN [a EXCEPT !.raised = TRUE]
    ELSE [a EXCEPT !.total = a.free + Value(a.position, price)]

\* calculate_funding_cost_pct: at every boundary in (entry, exit] the last
\* known rate, if there is one
FundingPct(s, known, entry, exit) ==
    LET charged(t) == IF t <= entry \/ LastKnown(known, t) = NotYet THEN 0
                      ELSE Rates[s][LastKnown(known, t)]
        boundaries == exit \div FundingInterval
    IN  SumTo([i \in 1 .. boundaries |-> charged(i * FundingInterval)], boundaries)

ClosedTrade(s, known, p, x, t) ==
    [symbol |-> s, direction |-> p.direction, entered |-> p.openedAt, exited |-> t,
     placed |-> p.placed, quantity |-> p.quantity, at |-> p.entry, price |-> x.price,
     gross |-> Gross(p, x.price), fees |-> EntryFee(p) + ExitFee(p, x.price, x.reason),
     slippage |-> Slippage(p, x.price, x.reason), reason |-> x.reason,
     funding |-> Sign(p.direction)
                   * (p.quantity * x.price * FundingPct(s, known, p.openedAt, t))]

\* _close_at, for the exit if there is one
Leave(a, s, known, exits, t) ==
    IF a.raised \/ exits = {} THEN a
    ELSE LET trade == ClosedTrade(s, known, a.position, CHOOSE x \in exits : TRUE, t)
             cash == a.free + Size(a.position) + Net(trade)
         IN  IF cash < 0 THEN [a EXCEPT !.raised = TRUE]
             ELSE [a EXCEPT !.free = cash, !.total = cash, !.position = None,
                            !.closed = Append(@, trade)]

\* _fill_pending, at the open or inside the candle; an order that the free
\* capital no longer covers at its fill price is cancelled.
Enter(a, c, t) ==
    IF a.raised \/ a.order = None THEN a
    ELSE IF ~Touched(a.order, c) THEN a
    ELSE LET p == [direction |-> a.order.direction, quantity |-> a.order.quantity,
                   stop |-> a.order.stop, target |-> a.order.target,
                   placed |-> a.order.placed, entry |-> FillPrice(a.order, c), openedAt |-> t]
         IN  IF Size(p) > a.free THEN [a EXCEPT !.order = None]
             ELSE [a EXCEPT !.order = None, !.position = p, !.free = a.free - Size(p)]

OpenExits(a, c) == IF a.position = None THEN {} ELSE OpeningExit(a.position, c)

InnerExits(a, c, inside) ==
    IF a.position = None THEN {} ELSE IntrabarExit(a.position, c, inside)

Tick(a, s, known, c, t) ==
    LET marked == Mark(a, c.open)
        left == Leave(marked, s, known, OpenExits(marked, c), t)
        inside == left.order # None /\ ~AtOpen(left.order, c)
        entered == Enter(left, c, t)
        done == Leave(entered, s, known,
                      InnerExits(entered, c, inside /\ entered.position # None), t)
    IN  Mark(done, c.close)

-----------------------------------------------------------------------------
(* _simulate_symbol                                                        *)

Observe(a) == [a EXCEPT !.peak = IF a.total > @ THEN a.total ELSE @]

Commits(a, o) == o # None /\ a.order = None /\ a.position = None /\ Size(o) <= a.free

PlaceOrder(a, o, t) ==
    IF ~Commits(a, o) THEN a
    ELSE [a EXCEPT !.order = [direction |-> o.direction, entry |-> o.entry,
                              quantity |-> o.quantity, stop |-> o.stop, target |-> o.target,
                              placed |-> t]]

\* Mutation of PlayCandle: the order is placed before the candle is played.
PlayCandleSignalFirst(a, s, d, t) ==
    LET ordered == PlaceOrder(a, Decide(strategy, View(d, t), a), t)
    IN  Observe(Tick(ordered, s, d.rates, Quotes[s][t], t))

PlayCandle(a, s, d, t) ==
    LET b == Tick(a, s, d.rates, Quotes[s][t], t)
    IN  IF b.raised THEN b
        ELSE PlaceOrder(Observe(b), Decide(strategy, View(d, t), Observe(b)), t)

\* The candles of the window; end_date counts to its last moment.
InWindow(d) == {t \in d.candles : Start(window) <= t /\ t < End(window)}

LeftToPlay == {t \in InWindow(Data(job)) : t > clock}

Simulating == stage = "Simulate" /\ job <= NumPairs

Play ==
    /\ Simulating /\ LeftToPlay # {} /\ ~account.raised
    /\ clock' = Min(LeftToPlay)
    /\ account' = PlayCandle(account, job, Data(job), Min(LeftToPlay))
    /\ UNCHANGED <<dataVars, strategy, played, trades>>

\* Mutation of NextSimulation: the next symbol goes on with the account.
NextSimulationSameAccount ==
    /\ Simulating /\ LeftToPlay = {} /\ ~account.raised
    /\ trades' = trades \o account.closed
    /\ played' = played \cup {job}
    /\ job' = job + 1 /\ clock' = NotYet
    /\ account' = [account EXCEPT !.closed = <<>>, !.position = None, !.order = None]
    /\ UNCHANGED <<window, runs, stage, cursor, got, fetched, source, kept, strategy>>

\* A position that is still open leaves no trade.
NextSimulation ==
    /\ Simulating /\ LeftToPlay = {} /\ ~account.raised
    /\ trades' = trades \o account.closed
    /\ played' = played \cup {job}
    /\ job' = job + 1 /\ clock' = NotYet /\ account' = Fresh
    /\ UNCHANGED <<window, runs, stage, cursor, got, fetched, source, kept, strategy>>

ByExit(a, b) == a.exited < b.exited \/ (a.exited = b.exited /\ a.entered < b.entered)

Sorted(list) ==
    StableSort(list, {p \in (DOMAIN list) \X (DOMAIN list) : ByExit(list[p[1]], list[p[2]])})

Report ==
    /\ stage = "Simulate" /\ job > NumPairs
    /\ trades' = Sorted(trades)
    /\ stage' = "Idle" /\ job' = 1
    /\ UNCHANGED <<window, runs, cursor, got, fetched, source, kept, strategy, clock,
                   account, played>>

\* What the execution engine raises leaves run, and no trade is returned.
Abort ==
    /\ Simulating /\ account.raised
    /\ stage' = "Idle" /\ trades' = <<>>
    /\ UNCHANGED <<window, runs, source, fetching, kept, strategy, clock, account, played>>

Init ==
    /\ NoData
    /\ strategy \in Strategies
    /\ clock = NotYet /\ account = Fresh /\ played = {} /\ trades = <<>>

StartRun ==
    /\ \E w \in Windows : Run(w)
    /\ clock' = NotYet /\ account' = Fresh /\ played' = {} /\ trades' = <<>>
    /\ UNCHANGED strategy

Next ==
    \/ StartRun
    \/ Fetching /\ UNCHANGED simVars
    \/ Play \/ NextSimulation \/ Report \/ Abort

Spec == Init /\ [][Next]_btVars

-----------------------------------------------------------------------------
(* "Zero look-ahead bias": after every candle the account, with its orders *)
(* and trades, is what it would be had nothing been fetched that became    *)
(* known after that candle: later candles, higher candles that had not     *)
(* closed, later rates, context or intelligence.                           *)
Known(d, now) ==
    [candles |-> {u \in d.candles : u + Bars[1] <= now},
     higher |-> {u \in d.higher : u + Bars[2] <= now},
     rates |-> Published(d.rates, now),
     context |-> [f \in Fields |-> Published(d.context[f], now)],
     intelligence |-> Published(d.intelligence, now)]

Replay(s, d) ==
    LET after[t \in NotYet .. End(window)] ==
            IF t = NotYet THEN Fresh
            ELSE IF t \in InWindow(d) THEN PlayCandle(after[t - 1], s, d, t) ELSE after[t - 1]
    IN  after[End(window)]

NoLookAhead ==
    Simulating /\ clock # NotYet =>
        account = Replay(job, Known(Data(job), clock + Bars[1]))

NetGain(closed) == SumTo([i \in DOMAIN closed |-> Net(closed[i])], Len(closed))
Invested(a) == IF a.position = None THEN 0 ELSE Size(a.position)

(* Every symbol plays with the initial capital, and neither its exits nor  *)
(* its cancelled orders create or lose any: free cash and the cost of the  *)
(* position are the capital and the net gains of the trades reported.      *)
CapitalAccounted ==
    ~account.raised =>
        account.free + Invested(account) = InitialCapital + NetGain(account.closed)

(* The report is in the order of exits and then entries; a symbol never    *)
(* has two trades at a time; every trade is within the window, and entered *)
(* after the candle whose signal asked for it.                             *)
TradesSound ==
    stage = "Idle" =>
        \A i, j \in DOMAIN trades :
            /\ trades[i].placed < trades[i].entered /\ trades[i].entered <= trades[i].exited
            /\ Start(window) <= trades[i].placed /\ trades[i].exited < End(window)
            /\ i < j => /\ ~ByExit(trades[j], trades[i])
                        /\ trades[i].symbol = trades[j].symbol =>
                               trades[i].exited <= trades[j].placed

(* The trades reported are possible ones, of a capital that adds up.       *)
AccountsSound == TradesSound /\ CapitalAccounted
=============================================================================

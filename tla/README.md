# neon-radar: TLA+ models and proofs

neon-radar is a Python program that watches crypto markets, scores them, trades its own signals on paper and
studies its strategies on historical data. This directory holds TLA+ specifications of it, the TLC configurations
that check them on small instances, and theorems about them that TLAPS proves for every value of the constants.
Paths below are relative to the package, `src/src/neon_radar/`, unless they begin with `src/`; the grid experiment
is `src/research/experiments/futures_grid/`, shortened to `futures_grid/`.

How to run: `tlc -config X.cfg M` for the pairs in the table of runs, `tlapm M.tla` for the eight `*_proofs`
modules.

---

## 1. Inventory

### 1.1 Paper trading

| Component | State | Operations | Works with |
|---|---|---|---|
| Portfolio engine, `application/services/portfolio_engine.py`, `domain/portfolio.py`, `domain/execution_costs.py`, `domain/funding.py` | free and total capital, open positions with funding cursors, closed trades, running statistics | `open_position`, `close_position`, `update_market_prices`, `apply_funding_settlements`, `restore_state` | called by the execution engine and by the poll cycle's load |
| Risk manager, `application/services/risk/*.py`, `domain/risk.py` | the policy; `DrawdownMonitor` keeps the all-time high of the equity | `evaluate_trade`, `update` | asked twice per order: at registration and at the fill |
| Execution engine, `application/services/execution.py` | waiting limit orders, the reason of a funding halt | `execute_setup`, `process_market_batch`, `settle_funding`, `cancel_setup` | drives the portfolio engine; its equity observer is `DrawdownMonitor.update` |
| Poll cycle, `application/services/paper_trading_engine.py` | watermark of the last played candle | `poll_cycle`, `process_live_tick`, `save_state`, `load_state` | awaits the exchange, then plays a batch, evaluates signals and saves, with no await in between |
| State store, `infrastructure/storage/paper_state_store.py` | one JSON file | `save` (write, then atomic replace), `load` | a file that does not parse counts as absent |

Hard here: one account shared by all symbols; an order admitted on one candle and filled, at another price,
on a later one while equity, drawdown and the other reservations have moved; a candle that must be played in
phases because its inner order is unknown; funding that is paid before, at and inside a candle and shows up
again in the profit of the close; a step that raises with the earlier ones done; a process that dies anywhere.

What makes it correct: equity is free cash plus the marked positions, no cash appears or disappears, statistics
equal the history, a settlement is paid exactly once; one commitment per symbol, within slots, exposure and heat,
and covered by cash; no proceeds before they exist, allocation by priority, no stop survived, no optimistic target,
only traded prices; no candle played twice on the same books, every saved state consistent, a halted engine halted.

### 1.2 Requests to the exchange

| Component | State | Operations | Works with |
|---|---|---|---|
| Rate limiter, `infrastructure/exchanges/binance/rate_limiter.py` | the deque of granted weights with their times | `acquire` | called by the client before every attempt, by the transport once per call |
| Binance client, `client.py` there | per call: attempt, backoff, last error | `_get_json`, under all public methods | the chart's and the paper trader's candles |
| Binance transport, `infrastructure/exchanges/binance_transport.py` | per call: attempt | `get` | open interest, funding and the like, for the market context |

Hard here: several tasks share a limiter whose lock is given up during every sleep, so whoever wakes finds another
window than the one it computed its sleep from; a sleep is cut to milliseconds and a grant exactly one minute old
still counts; two kinds of pauses, of which one ignores the backoff; the last attempt; what a retry costs.
Correct: what is granted and sent weighs at most the cap in any minute; a call makes a bounded number of attempts,
ends, and says why when it fails.

### 1.3 The desktop program

| Component | State | Operations | Works with |
|---|---|---|---|
| Worker thread, `utils/async_bridge.py` | the event loop and its tasks | `start`, `submit`, `stop` | runs the coroutines of the service |
| Candle cache, `infrastructure/cache.py` | a file per symbol and timeframe | `get`, `put` | asked before a request, filled by its callback |
| Market data service, `application/services/market_data.py` | the futures under way | `request_klines`, `request_funding_rate`, `stop` | answers by Qt signals to the window |
| Main window, `presentation/main_window.py`, `presentation/widgets/ranking_table.py` | last candles, rates and results by symbol, the current row | refresh, arrival of an answer, selection, close | analyses what arrives |

Hard here: two threads; results in completion order; a callback that runs in one thread or the other depending on
when the future is done; a stop between the test and the scheduling of a request; a table that is sorted under the
user's selection. Correct: what is shown was computed from what arrived last, nothing older than the cache allows
is served, every request is answered and the window closes.

### 1.4 From candles to a setup

| Component | Operations | Works with |
|---|---|---|
| Indicators, `domain/indicators/*` | moving averages, RSI, MACD, ATR, ADX, Bollinger bands | arrays aligned with the candles |
| Rules and aggregation, `domain/scoring/*` | one signal or none per rule; one score | `application/services/analysis.py` puts them together |
| Regime, setup builder, sizing, `domain/trading/regime.py`, `setup.py`, `risk/sizing.py` | a verdict, a setup, a size | `application/services/trading_pipeline.py` puts them behind a score |
| Signal backtester, `application/services/backtester.py` | the score of each day judged by a later price, and statistics of it | `analyze_series` on every prefix |

Hard here: NaNs at the start of every array and in mid-series; rolled copies whose first entry is the last candle;
exceptions of rules that are swallowed and exceptions of scores and setups that are not; off-by-one at each day.
Correct: nothing out of range, nothing that repaints, symmetry between long and short, no look-ahead.

### 1.5 Backtests and their analysis

| Component | State | Operations |
|---|---|---|
| Funding provider, `infrastructure/providers/binance_funding.py` | rates and coverage by symbol | `prefetch`, `get_funding_events`, `get_funding_rate_at` |
| Market context, `application/services/market_context/*`, `infrastructure/providers/binance_context.py`, `domain/market_context.py` | histories by symbol | concurrent gathering, slices by time |
| Trade backtester, `application/services/trade_backtester.py` | fetched series kept over the runs; an account, an order and a position per symbol | `_prefetch`, `run`, `_simulate_symbol` |
| Walk-forward analysis, `walk_forward_analyzer.py`, `parameter_optimizer.py`, `trade_analyzer.py`, `bootstrap_analyzer.py` | windows and their results | roll, search, test, resample |

Hard here: requests that fail in the middle of a paging, over several runs that reuse what the earlier ones kept;
four kinds of data cut to each candle by four rules; months of different lengths; ties between results. Correct:
what was fetched is whole or known not to be, no decision depends on the future, every account adds up, the
out-of-sample tests leave out no day before the last, the best confidence is chosen.

### 1.6 Market intelligence

| Component | State | Operations |
|---|---|---|
| Service, `application/intelligence/service.py`, with noise filter, consensus and narratives in `domain/market_intelligence/` | the tasks of a report | `generate_report` |
| History, `infrastructure/storage/intelligence_store.py` and the script `src/research/experiments/rc7_mi_dvol/fetch_historical_mi.py` | one file per series | `load_series`, `append_series` |
| Features, `application/intelligence/feature_service.py`, `normalizer.py` | the series of a scan | `get_features` |

Hard here: providers that answer late or never; repetitions measured from an anchor; a merge into a file that may
be unreadable, or that is given up; the value of a day that is not over. Correct: a report neither repeats nor loses
a signal, ends, and its figures are those of its signals; the stored history never changes.

### 1.7 The futures-grid experiment

| Component | State | Operations |
|---|---|---|
| Simulator, `futures_grid/simulator.py` | resting orders per level, inventory, wallet | `process_candle`, `close` |
| Gated run, `backtest_radar_grid.py`, `metrics.py` | the session, finished sessions | one bar of the loop |
| Shared account, `portfolio.py` | wallet, inventories and margins by symbol | allocation, fills, market closes, liquidation |
| Exit variants, `exit_management_engine.py`, `backtest_exit_variants.py` | one grid per symbol, streaks, stops | decide, play, step |

Hard here: a candle that crosses many levels; stops that are looked at only where the price moves; a fill that turns
the inventory through zero; one pool for several grids; exits in several steps. Correct: no order is passed over, books close, no margin is given twice, no
inventory is left alone.

### 1.8 Everything else

The live data fetcher, configuration, logging, exporters, the other commands of the command line, the scripts and
the other research experiments are one-shot I/O, parsing and tables over data files; they keep no state.

`PROJECT.json` lists the hazards of all parts at their lines, with the properties that cover them or the reason why
none does.

---

## 2. Modules

```
Sums                      finite sums, counts, sorting          Fills   costs and prices of one candle
 └ Portfolio              the account (uses Fills)                            Ledger
    ├ PortfolioCalls      any sequence of its calls  ──────── implements ─────┘
    └ RiskPolicy          evaluate_trade, _risk_allows
       └ PaperExecution   orders and process_market_batch, step by step
          └ PaperTrading  exchange clock, poll cycle, state file, crash and restart
 └ RateLimiter            acquire, turn by turn, under any callers
    ├ BinanceClient       _get_json: a grant per attempt      ┐
    └ BinanceTransport    get: a grant per call               ┴ MCNetwork

MarketData                worker thread, cache, requests
 └ MainWindow             refresh, analysis, ranking, selection, closing        MCDesktop

Indicators └ ScoringRules └ Scoring └ Analysis └ SignalBacktest                 MCAnalysis

HistoricalData            prefetch, paging, point-in-time slices
 └ TradeBacktest          simulation of each symbol (uses Fills)      ┐
TradeReport └ WalkForward windows, search, report (uses Sums)         ┴ MCBacktest

MarketIntelligence        a report
 └ IntelligenceStore      script, file, scan                                    MCIntelligence

GridOrders ├ GridSession └ RadarGrid      sessions, gated run         ┐
           └ GridAccount └ ContinuousGrid one account, exit variants  ┴ MCGrid
             (uses Sums)

Sums_proofs <- Portfolio_proofs <- PortfolioCalls_proofs
                                <- PaperTrading_proofs   (the batch, then the poll cycle)
            <- BinanceClient_proofs      (limiter, client and transport)
            <- TradeBacktest_proofs      (fetched data, signals, accounts; windows, search and reports)
            <- Grid_proofs               (grids on a shared account, sessions and their report)
MainWindow_proofs                        (service, cache, worker and window)
```

An `MC` module gives constants their values. Where a run has two programs that share no state, its module holds
both and a variable that says of which one a behaviour is (`service` in MCNetwork, `program` in MCBacktest and
MCGrid, `view` in MCIntelligence); the other one then rests in an initial state.
`TradeBacktest_proofs` EXTENDS MCBacktest, `Grid_proofs` EXTENDS MCGrid, and each proves about both programs there.

**Ledger** is the abstract promise about money: cash is free or held, and gains and losses are booked once
(`Hold`, `Release`, `Charge`). **PortfolioCalls** implements it with `cash <- free`,
`held <- Exposure(positions)`, `realized <- NetProfit(statistics)`.

**Portfolio** has one operator per method of `PortfolioEngine`. `free` and `total` are `AccountState`;
`positions` maps each symbol to its position or `None`; `history` and `statistics` are the closed trades and
`PortfolioStatistics`. A method that can raise is two operators where it matters: `ClosePosition` and
`CloseRaises`, because `close_position` appends to the history before `AccountState` may refuse the balance.
`RestoredStatistics` is `_restored_statistics`. **PortfolioCalls** lets a caller use these methods in any order,
with the one restriction that its callers keep: no second position of a symbol. **Fills** holds what PaperExecution
and TradeBacktest share, as the code does: sizes, fees, slippage, and where in a candle an order fills and a
position leaves.

**RiskPolicy** is `evaluate_trade` with the checks that `_risk_allows` adds: slots, shorts, exposure,
tiered or legacy drawdown, heat, and the risk budget.

**PaperExecution** cuts `process_market_batch` into steps, one per symbol or funding group:

| `phase` | code in `execution.py` |
|---|---|
| `SettlePrior` | `settle_funding(open_time - 1)` |
| `MarkOpen` | `update_market_prices` with the opens |
| `SettleOpen` | `settle_funding(open_time)`, then the observer |
| `GapExits` | positions held before, past their level at the open, then the observer |
| `OpenFills` | orders whose limit is reached at the open |
| `IntrabarFills` | orders whose limit the candle touches, then the observer |
| `IntrabarExits` | stops and targets inside the candle |
| `SettleClose` | `settle_funding(close_time)` |
| `MarkClose` | `update_market_prices` with the closes, then the observer |

The batch contains no `await`, so no other coroutine interleaves with it. It is cut up because a step can
raise (`Raised`), funding can halt (`Halted`), and in PaperTrading the process can die, each with the earlier
steps done. `peak` is the all-time high of `DrawdownMonitor`, raised exactly where the code calls the observer.

**PaperTrading** adds the exchange's clock, the stages of `poll_cycle`, the watermark, the state file and a
process. `Tick` is only possible where the program sleeps or awaits, `Crash` everywhere, also between two
steps of a batch. `BatchRaises` ends the process: nothing catches an exception of the batch.

**RateLimiter** makes one turn of the loop of `acquire` a step: between taking the lock and releasing it the code
awaits nothing, so the lock is never contended and the turns of the callers interleave freely. A turn prunes the
window and then grants (`Grant`), goes to sleep (`Sleep`) or fails (`Raise`, the IndexError of an empty window).
`log` keeps every grant ever made; the deque of the code is `log[first], ..., log[Len(log)]`, and pruning only moves
`first`. Time is an integer finer than the millisecond: `Grain` units are one, `Window` is the minute, and `Wait`
rounds down to whole milliseconds before it adds the 5 ms of `Slack`. A sleep may last longer than asked for, never
shorter. **BinanceClient** and **BinanceTransport** put the request loops on top and record in `sent` what goes on
the wire. The client asks the limiter again before each attempt (`Again`), doubles a backoff and obeys Retry-After
(`RetryAfter`), also after the last attempt; the transport asks once and sends up to three requests for one grant.
`Abandon` is the cancellation of a call at any await, as the worker does when it ends.

**MarketData** has two threads: the calls of the main thread (`Submit`, `Hit`, `AnsweredAtOnce`, `Refused`, and the
steps of `stop`) and the worker's loop, one iteration a step (`Iterate`, `Answer`, `Drain`). A series is named by the
time of the market it describes, so an answer may be any time of its flight. **MainWindow** is the main thread:
`Request` walks through a refresh, `Deliver` hands over the oldest signal, `ApplyScoring` analyses, sorts and keeps
the number of the current row.

**Indicators**, **ScoringRules**, **Scoring** are operators named like the functions they translate. **Analysis**
closes one candle after the other and analyses the whole series anew each time, as the callers do;
**SignalBacktest** keeps the analysis of every prefix and evaluates each day and horizon.

**HistoricalData** is the prefetch, page by page where a failure in the middle matters (`FundingPage`,
`FundingFails`, `CandlePage`, `CandlePageFails`), over up to `MaxRuns` runs of one backtester with what it keeps
between them; candles and settlements are named by their times. **TradeBacktest** plays one candle a step
(`PlayCandle`: exits and fills, funding, peak, then the decision). The pipeline is the external operator `Decide` of
the strategy, of everything it is shown and of the account. **WalkForward** rolls the windows, tries the grid of
confidences and tests the best one; what a backtest returns is any list of `TradeLists`, and **TradeReport**
is what `analyze` and the bootstrap make of it.

**MarketIntelligence** is one report: tasks that answer, fail or time out, and on `Gather` filter, consensus and
narratives. **IntelligenceStore** puts beside it the script that asks for the history and merges it in three steps
(read and merge, write, replace; each can fail), and the scan that loads the file and later computes features.

**GridOrders** has levels, inventories (as quantity and cost) and legs of a candle; **GridSession** is the simulator,
**RadarGrid** the two loops over it; **GridAccount** is `PortfolioAccount`; **ContinuousGrid** goes through the turns
of a bar: a new bar, a decision per symbol, a play per symbol, a step of the account.

Conventions:

* Symbols of the paper trader are numbered by `PAPER_SYMBOL_PRIORITY`.
* Prices and quantities are natural numbers; cash is counted in parts of which `Unit` make one unit of price
  times quantity; so fees, slippage and funding are integers and comparisons exact. The code uses floats with
  a tolerance of 1e-8 in the comparisons of risk; neither is modelled. Quotients of indicators, scores and reports
  are rounded toward zero (`Quot`).
* `fundedUntil = openedAt` stands for a funding cursor of `None`.
* A candle, a setup, an answer or a funding history is a member of a small set given by the instance.
* An operator whose comment begins with "Mutation of" is a plausible defect of the operator it precedes. No
  action uses it; it documents what a property would catch, and the property fails when it is put in place.

---

## 3. Runs

Deadlock checking is off where the instance really stops: its candles, clock, months or history are finite
(`MaxTime`, `MaxBars`, `MaxCandles`, `MaxTrades`), an engine that raised or was halted does nothing more, a closed
window stays closed, and a dead process need not be restarted. No symmetry is used: symbols have priorities,
providers have types of signals of their own, and liveness forbids it for the callers of the limiter.

| Run | Module, cfg | Instance | Shows |
|---|---|---|---|
| `portfolio` | MCPortfolio | a long and a short on 2 symbols, 2 prices, 2 times, 2 funding groups (one debits and credits at once), 2 closes | `BooksSound`, `StatisticsMatchHistory`, `FundingPaidOnce`, and that the engine implements `Ledger` (`ImplementsLedger`) |
| `batch` | MCPaper, MCPaper.cfg | 2 symbols, long and short, every pair of 7 candles, 2 batches, settlements at opens and inside candles, one that cannot be paid | `ExecutionSound`, `CandleHonoured`, `FundingExact`, `CandleOrder`, `HonestPrices`, `BatchEnds` |
| `policy` | MCPaper, MCPolicy.cfg | 3 symbols, 2 slots, 1 short, heat, 2 drawdown tiers of which one halts | `SlotLimit`, `CommitmentsCovered` |
| `trading` | MCTrading, MCTrading.cfg | 2 symbols, 3 candles of time, failures of requests and saves, a local clock that is behind, crashes anywhere | `PlayedOnce`, `ConsistentSnapshot`, `OnlyClosedCandles`, `CycleEnds` |
| `network` | MCNetwork | 2 calls of the client and 2 of the transport, weights 2 and 5 at a cap of 5, a window of 3 | `SentWithinCap`, `RequestsAccounted`, `SleepOutlastsGrant`, `EveryRequestEnds` |
| `desktop` | MCDesktop | 1 symbol, market time up to 3, entries valid for 1, answers up to 1 late, one waiting signal | `WindowSound`, `ServedFresh`, `RequestsAnswered` |
| `analysis` | MCAnalysis | every series of up to 6 candles of 4 shapes, in 4 surroundings; all 18 rules; 2 horizons | `AnalysisSound`, `ReportHonest`, `NoRepaint` |
| `backtest` | MCBacktest | 2 symbols, 2 windows of 2 days, up to 2 runs; 8 periods of up to 30 months, 3 confidences, 5 lists of trades | `FetchedWhole`, `NoLookAhead`, `AccountsSound`, `ChoiceSound`, `EveryDayTested` |
| `intelligence` | MCIntelligence | 3 providers with two timeouts, thousands of combinations of signals; a history of up to 5 half-days | `ReportSound`, `StoreSound`, `HistoryKept`, `EveryReportEnds` |
| `grid` | MCGrid, MCGrid.cfg | 6 configurations of a session and a gated one, 6 candles, 2 funding rates; 2 symbols on one account, 4 variants, 9 rows; 5 bars | `SessionsSound`, `InventoryManaged`, `RegimeObeyed`, `AccountSound`, `PoolNeverOversold` |
| `halted_restart` | MCTrading, MCHaltedRestart.cfg | a settlement that cannot be paid | violates `HaltSurvivesRestart` |
| `phantom_profit` | MCGrid, MCPhantomProfit.cfg | as `grid` | violates `MoneyConserved` |

### 3.1 Why the bounds are enough

**Paper trading.** Two symbols are what competition for cash, priority and simultaneous debits and credits need;
slots with a short limit need a third. One batch admits an order and the next fills it; an order and its position
can also live within one candle. The seven candles of `batch` are one per case the code distinguishes: reached
inside, stop and target both touched, open past the stop of a long, open past the stop of a short, filled inside
with the close beyond the target, risen past twice the entry of a short, opened past it. A candle may be skipped
(`Bars = {1, 3}`), which gives catch-up funding. The time of `trading` covers a cycle that plays, one that is down,
and one that must not replay. `MaxTrades = 2` lets every order of two closes and a
reopened symbol happen.

**Requests.** Two callers compete for a slot, and the retries of one can take what the other wakes for. A weight
equal to the cap needs an empty window; two of the smaller fill it. `Grain = 2` makes a sleep really lose
something when it is cut to whole milliseconds. From
`MaxTime` on the clock goes on only for somebody who sleeps or waits, so no wait is cut short. One retry gives every pair of an attempt and its
successor and a last attempt; the backoff is below the window, so a retry may find its first attempt still in it.

**Desktop.** One symbol has every race of its own requests: hit against miss, two answers out of order, close at
any time. What the symbols share, the table and the loop, needs no second one for the three properties; the selection
that moves to another symbol (3.3) is a remark of the model with two.

**Analysis.** The periods are 2 and 3 candles instead of 9 to 50, so six candles give a warm-up, the first value,
its successors, and an average of an average. The shapes stand still, rise, fall hard, and stay inside the last
candle: they move every rule in both directions. The four surroundings make every rule on funding, interest and
history speak, and leave each silent once; one of them has no history, a `NaN` funding and no higher timeframe.

**Backtests.** Two symbols share the prefetched series but not their accounts. Page limits of 1 and 3 make paging
stop, go on and fail in the middle; two runs over overlapping windows make the second rely on what the first kept or
failed to get. The strategy is a number computed from everything it is shown, so whatever leaks from the future
changes its answers. The periods give no window, one, and several, and start on days that a later month does not have;
one has two tests that share the 28th and the 29th of a February, one a last day that no test reaches;
the trade lists have no loss, no gain, ties, and money of zero.

**Intelligence.** Three times within and outside a window of 2 tell a repetition of the anchor from one of its
successor; the providers have timeouts of 1 and 2, so one answers after the other has been given up. Reports begin at
time 0 in that view, since nothing compares times with the clock. The history has one series of the two, which
nothing relates, and time for two merges and a scan between and after them.

**Grids.** Each of the configurations reaches another end: neutral, long with both stops, short, eightfold leverage that
liquidates or, with a stop, is pushed past it by funding, geometric levels that a crash crosses at once. Two candles
stand still, at the reference and after a fall, for what is looked at only where the price moves. The nine rows let the symbols be refused
alone, together and alternately, with crashes in between; the symbol that is first asks for two thirds of the capital,
so the second must be refused or cut. Five bars let a session time out (3), be confirmed bad (2) and be reopened.

### 3.2 Fairness

| Property | Assumes | Because |
|---|---|---|
| `BatchEnds` | weak fairness of `BatchStep` | the batch is straight-line code that nothing suspends |
| `CycleEnds` | weak fairness of `PollStep` | the event loop resumes the cycle, every request ends (the HTTP session has a timeout), a save succeeds or fails |
| `EveryRequestEnds` | of `Tick`; per caller of resuming, of the next attempt, of an answer | time passes, the loop resumes a task whose sleep is over, the timeout of httpx ends every request |
| `RequestsAnswered` | of `MainThread` and of `Worker` | Qt's event loop and the worker's run on threads of their own; a stop puts an end to both |
| `EveryReportEnds` | of `Tick`; per provider of `TimeOut`; of gathering | `asyncio.timeout` cancels a late provider, and `gather` resumes when the last one has ended |

`Tick` of the paper trader, `Crash`, `Restart`, user actions and `Abandon` have none: nobody has to click, and
nobody has to restart a dead process. The limiter is not fair: no queue orders its sleepers, and a heavy one can be
overtaken as long as light ones keep coming. `EveryRequestEnds` therefore speaks of one call per caller
and says nothing about endless arrivals. In MCIntelligence the fairness of gathering is stated of `Gathers`, which
only changes the stage: to decide whether a whole report can be computed would compute it in every state.

### 3.3 Disagreements met while modelling

Shown by a run:

* `halted_restart`. The exception that halts the engine leaves `poll_cycle` before the save, so a restarted
  program is not halted, while the report on funding says the halt outlives a restart. It needs the settlement
  mode of funding, which the command line does not switch on today.
* `phantom_profit`. A fill that turns a grid's inventory through zero realizes its whole quantity against the old
  average and restarts the new one at its own price, so the wallet gains or loses what no trade has brought.
  `AccountsClose` and `BooksMatchTrades` hold for all sessions and accounts without such a fill.

Met, and left to prose:

* *Paper trading.* A batch marks all positions at the open before it closes those the open has carried past their
  stop; a short that opens above twice its entry makes `AccountState` refuse the mark, and the batch raises with the
  position open (`execution.py:464`; `CloseMarkBookable` says it is the only place). Funding may halt a batch between
  the mark at the open and the observer, and if the mark made a new peak the halt cannot be saved
  (`SavableWhenIdle` is true between batches only). With a local clock that is ahead, and no answer from the exchange,
  a candle still forming counts as closed; `OnlyClosedCandles` is checked with one that is behind. After an outage
  only the latest candle is played (`paper_trading_engine.py:189`). The handler of ValueError at `execution.py:235`
  cannot be reached by an order the risk manager allowed.
* *Requests.* A weight above the cap waits until the window is empty and then fails with an IndexError
  (`rate_limiter.py:95`). The transport asks the limiter once for up to three requests
  (`binance_transport.py:48-54`), so its retries are outside the cap; what remains true is in `RequestsAccounted`. A
  429 with a Retry-After pauses also after the last attempt (`client.py:222` against the comment at `client.py:235`).
* *Desktop.* An answer that re-sorts the table leaves the selection on the same row, which is then another symbol. A
  refresh may put an older series over a newer one, in the cache as well; nothing compares their times. The loop's
  stop cancels the closing of the exchange when that has to wait. A cached file is keyed without the number of candles
  asked for (`cache.py:92`).
* *Backtests.* `trade_backtester.py:207-211` swallows what `prefetch` raises, and the run goes on with what an earlier
  one left, while `binance_funding.py:20-21` has a failed fetch fail the run. `history_service.py:29` asks for at
  most 500 samples of a history, so a long window has a truncated one. End dates are played, so the first day of an
  out-of-sample test is also the last of its search, and two tests share a day, or two where a leap day moves the seam;
  the last day of the history may be in none, when a window would begin on it (`walk_forward_analyzer.py:92`). "As good"
  within a tolerance is not transitive (`parameter_optimizer.py:99`): from one confidence to the next the expectancy may
  lose just under the tolerance each time. Of two confidences that never lose, the optimizer keeps the lower one: the
  profit factors are both infinite. Trades that entered and ended together are reported in the order of the symbols
  asked for, and streaks and drawdown depend on it. The signal backtester's day begins at local midnight.
* *Analysis.* The gathered history is handed on as `context`, where the rules of context flow do not look for it, so
  they stay silent in the whole chain; they are checked on the state they are written for (`Informed`).
* *Intelligence.* `_merge_live` calls the constructor without two fields it needs, so a series extended by live
  evidence raises a TypeError (`feature_service.py:104`), and of several pieces of evidence of a type it takes the first,
  which is the oldest (`feature_service.py:56`). The key of a repetition lacks the symbol (`noise_filter.py:65`). A
  file that cannot be read counts as empty, and the next merge replaces it (`intelligence_store.py:95`, `119`);
  `HistoryKept` exempts this one step.
* *Grids.* `_traverse_leg` looks at liquidation and stop loss only on a leg that moves (`simulator.py:308`, `326`), and
  `process_candle` after funding only at liquidation: on a candle that stands still, funding takes a session past its
  stop loss and leaves it active until the price moves (`StoppedInTime` states exactly this exception). A liquidation
  of the shared account does not count in its drawdown (`portfolio.py:229`). Margin too small for a grid stays allotted
  until the symbol is closed the next time. A trailing stop passed by a gap is filled at the stop, not at the open, and
  is compared with the low of the bar whose high moved it.

---

## 4. Proofs

All theorems hold for any number of symbols, callers, windows and retries, any capital and fee rates, histories of any
length, and whatever the assumptions named in the modules leave open. TLC evaluates each of these on the instances:

| Assumption | Says | Because |
|---|---|---|
| `PolicyAssumption`, `ExecutionAssumption` | limits and rates are numbers, candles have a low under a high | the dataclasses check them; an exchange's candle does |
| `TradingAssumption`, `NoneIsNoTime` | clocks are numbers, `None` is not a time | |
| `LimiterAssumption`, `ClientAssumption`, `TransportAssumption` | limits and retries are positive, `Slack >= Grain` | 5 ms against the millisecond of the clock |
| `MarketAssumption` | finitely many symbols, a time to live | the watch list of the configuration |
| `WalkForwardAssumption` | months have days, periods are dates of the calendar, which reaches as far as their windows; the grid is not empty; trades are in numbers | `date` objects, the options' defaults; the calendar of the code does not end |
| `DataAssumption`, `BacktestAssumption` | what the exchange has is sets of times and prices in numbers; pages hold at least one record | |
| `AccountAssumption`, `GridAssumption`, `NoneIsNoGrid` | the symbols are a finite list without repetition; rates, periods and prices are numbers, and a grid spans less than the price it is centred on | `ExitEngineConfig` and the data; of a bar not even that its low is under its high |
| `SessionAssumption` | rates are numbers, a candle's open and close lie between its low and high, margins, prices, grids and stops are positive; the levels of a grid are at least a unit apart, and a geometric grid has a whole ratio | `GridConfig` and the data; the last two because prices are whole numbers here, where the code has floats |
| `PipelineDecides` (of `AccountsAreSound` only) | the external pipeline returns an order or nothing, whatever it is shown | `process` returns `TradeSetup \| None`; a theorem's hypothesis, for it is about infinitely many accounts |

| Theorem | Module | Statement |
|---|---|---|
| `CallsInvariant` | PortfolioCalls_proofs | the inductive invariant of the account under any calls |
| `BooksTypeCorrect`, `EquityIsIdentified`, `CashIsConserved`, `BooksStaySound` | same | the parts of `BooksSound`, and the whole |
| `StatisticsNeverDrift` | same | `StatisticsMatchHistory` |
| `EngineImplementsLedger` | same | `ImplementsLedger`, that is `Spec => L!Spec` |
| `NoFundingTwice` | same | the action property `FundingPaidOnce` |
| `RestoreIsExact` | Portfolio_proofs | restoring a snapshot without statistics leaves those that were running |
| `PaperInvariant` | PaperTrading_proofs | the inductive invariant of the execution engine at every step of every batch |
| `ExecutionStaysSound`, `SlotsSuffice`, `SavableBetweenBatches` | same | `ExecutionSound`, `SlotLimit`, `SavableWhenIdle` |
| `CommitmentsAreCovered` | same | the action property `CommitmentsCovered` |
| `CandleInvariant` | same | the inductive invariant of a candle |
| `CandleIsHonoured`, `CandleInOrder`, `PricesAreHonest` | same | `CandleHonoured`; the action properties `CandleOrder` and `HonestPrices` |
| `FundingIsExact` | same | `FundingExact` |
| `TradingInvariant` | same | the inductive invariant of the poll cycle with its crashes |
| `CandlesArePlayedOnce`, `SnapshotsAreConsistent`, `NoHaltIsSaved` | same | `PlayedOnce`, `ConsistentSnapshot`, and that no file holds a funding halt |
| `PlayedWithinDrift`, `ClosedCandlesOnly` | same | a played candle has closed, up to the drift of the local clock; `OnlyClosedCandles` if there is none |
| `LimiterInvariant`, `NeverOversubscribed` | BinanceClient_proofs | the inductive invariant of the limiter under any callers; no window is exceeded |
| `SleepsOncePerGrant` | same | the action property `SleepOutlastsGrant` |
| `ClientInvariant`, `WireWithinCap`, `AttemptsAreBounded`, `FailuresAreExplained` | same | the inductive invariant of concurrent calls of the client, `SentWithinCap`, and the client's parts of `RequestsAccounted` |
| `RequestsAreAccounted` | same | `RequestsAccounted`, the transport included |
| `WindowInvariant` | MainWindow_proofs | the inductive invariant of window, service, worker and cache |
| `WindowIsSound`, `ServedIsFresh` | same | `WindowSound`; the action property `ServedFresh` |
| `DataInvariant`, `DataIsWhole` | TradeBacktest_proofs | the inductive invariant of the prefetch; `FetchedWhole` |
| `NothingIsSeenEarly` | same | `NoLookAhead`, for any pipeline |
| `AccountsAreSound` | same | `AccountsSound`, for any pipeline with `PipelineDecides` |
| `DaysTestedAlways` | same | `EveryDayTested`, for any calendar, periods and lengths of windows |
| `ChoiceSoundAlways` | same | `ChoiceSound`, for any grid, tolerance and lists of trades |
| `ResearchIsBoth` | same | what the run explores are behaviours of `TradeBacktest` and of `WalkForward` |
| `StableSortIsInOrder`, `SortForgetsOrder` | Sums_proofs | a sort is an ordered permutation; lists of the same elements, none equal, have the same sorted list |
| `GridsAreManaged` | Grid_proofs | the inductive invariant of grids on a shared account |
| `InventoryIsManaged`, `RegimeIsObeyed`, `AccountIsSound` | same | `InventoryManaged`, `RegimeObeyed`, `AccountSound` |
| `PoolIsNeverOversold` | same | the action property `PoolNeverOversold` |
| `SessionsAreSound` | same | `SessionsSound`, for any configurations, candles, rates and number of sessions |
| `GridsAreBoth` | same | what the run explores are behaviours of `ContinuousGrid` and of `RadarGrid` |

**Sums.** `SumTo` is a recursive function. `Sums_proofs` shows that its defining function exists and is unique,
and with it the equations for 0 and n + 1, replacement of one summand, pointwise addition, agreement and
monotonicity. The induction is by least counterexample (`WFMin` on the naturals), because the induction rules of
the library take an operator that no installed prover can instantiate. `StableSort` gives every element the number of
those sorted before it as its place. `PlacesFill` is that the places are distinct and hence, as there are as many as
elements, all taken; so a sort is an ordered permutation. The places of two lists of the same elements agree if no
two are equal, since a shuffle takes those before an element to those before its image (`SortForgetsOrder`).

**The account.** `Sound` is `BooksOK /\ EquityIdentity /\ CashConservation`. The four parts need one another:
`free >= 0` after a close follows from the check of `AccountState` on an equity that is only right when the
identity holds, and conservation after a close needs the position's `fundingPaid`, typed by `BooksOK`. Each
operation has two theorems, used by both specifications: `<Operation>Sound`, and `<Operation>Accounted` for
`StatisticsMatchHistory`. The latter is part of the inductive
invariant because restoring a snapshot without statistics replaces the statistics by the rebuilt ones, which
conserves cash only if they agree (`RestoreIsExact`).

**The engine.** `PaperInv` is `EngineOK /\ Accounts /\ Commitments`. `EngineOK` adds to the types that the
candles of a batch exist as long as one is played; otherwise no fill price has a type. `OneCommitmentPerSymbol`
makes a fill find its symbol free, without which neither the replacement of one summand nor conservation holds.
`SlotLimit` is inductive only for positions and orders together: a fill moves a slot, an exit or cancellation
frees one, and only registration takes one, after `evaluate_trade` counted both. One `...Keeps` lemma per
operation, one step per action. `SavableWhenIdle` needs, beside it, which phases follow the last observer.

**Coverage of commitments.** `RiskWithin` derives the three limits from an accepted risk. The heat limit needs
the budget to be a number, and so the strictest reached drawdown tier to exist: `StrictestExists` gets it from
the fact that a drawdown is at most the whole peak, with no assumption on the tiers. For every other action the
proof shows that it opens nothing and registers nothing.

**A candle.** A batch goes through the symbols once per phase, so `CandleInv` says what holds already of the symbols
before the turn, and of all of them in later phases: the orders still waiting were not reached at the open, then not
inside the candle; the positions still open were not stopped; a position entered inside has the levels of its order and
an entry within the candle; what left so far left at the open. `CandleHonoured` is this at the end of the batch, with
the mark at the close: a position whose stop was not touched is worth more than nothing there (for a short, its stop is
below twice its entry). `CandleOrder` and `HonestPrices` follow step by step. For `FundingExact` the invariant says per
position that it has paid the sum over the settlements between its entry and its cursor, and per phase up to when
nothing is due. A trade closes with nothing due, so its sum runs up to its exit.

**The poll cycle.** `TradingInv` speaks of the books in memory, the watermark beside them and the file at once. While a
batch is played its candle is above the watermark and covers the books, so that moving the watermark afterwards covers
them too. The file must itself satisfy what `PaperInv` demands of an engine (`Resumable`), otherwise nothing is known of
the books after a restart. It is never halted (`NoHaltIsSaved`): the save that would record a halt is not reached, which
is why `HaltSurvivesRestart` fails (section 3.3). `OnlyClosedCandles` fails there too, and `PlayedWithinDrift` shows
that the clock of the program is the only cause and bounds the damage: a candle is played before its close by no more
than that clock is ahead.

**The limiter.** `WindowNeverExceeded` speaks of all grants, the code only looks at those it kept. The invariant
bridges the two: the log is ordered by time, and every entry before `first` has expired, for good, since the clock
does not run backwards. A new grant then closes no overweight span: if the span begins before `first`, it is longer
than the window, otherwise its weight is at most what `Fits` compared with the cap. For `SleepOutlastsGrant`, the
invariant says that a sleeper wakes strictly after the grant it waits for has expired; the proof is that cutting to
milliseconds loses less than `Grain`, and `Slack >= Grain` (5 ms against 1) makes up for it. When the sleeper looks
again, pruning passes that grant.

**The client.** Each request is paired with the grant it was paid with: `sent` and `log` have the same length,
times and weights, so the limiter's theorem becomes one about the wire. (The transport breaks exactly this.) The
bound on attempts needs, per call, that the requests made are at most the number of the attempt, and one more once
the attempt itself has been sent.

**The transport.** It sends several requests for one grant. The invariant pairs grants with the calls that own them: a
call that has made requests owns exactly one grant, of its own weight, and has made no more requests than the number of
its attempt. What was sent is then the sum, over the grants, of weight times requests of the owner, and so at most
`Attempts` times what was granted.

**The window.** `WindowSound` is inductive beside the invariant of the service, one lemma per call and per step of the
worker. `ServedFresh` is about worker and cache alone, but needs the age of the requests under way: an answer is at
most a flight old when it is written, and so is the file. That the time of the file is the time of writing, whichever
answer came first, makes the bound the time to live and a flight, not more.

**What the backtester fetched.** Pages are prefixes (settlements, forward) or suffixes (candles, backward) of what the
exchange has in a range. `DataInvariant` says that what has come so far is everything on this side of the cursor. A full
page moves the cursor to its end, a page that is not full leaves nothing out, and a failure keeps nothing of the
series. The cardinalities of prefixes are the lemmas under it.

**No look-ahead.** The invariant (`PlayedSoFar`) is that a table of accounts, one per instant, exists in which each
follows from the one before by a candle or stays, and that the account is its entry at the clock. `Replay` is such a
table for the data known at that moment, and tables for both agree: up to then every candle of one is one of the other,
and `View` is the same, for every slice takes only what was known. Of the pipeline nothing is assumed.

**The accounts of a backtest.** `AccountOk` has the types, the order in time of trades, position and order of a
symbol, and the balance of capital and net gains; exits, fills, placing, cancelling and raising each keep it. The
report sorts the trades of all symbols, and a sort is an ordered permutation. So the report lacks and repeats none.
Of two trades of a symbol the later one exits later, so they are in the report in the order in which they were made.

**The windows.** `RollInv` says of every window so far and of the next one that it begins a step after the one before,
in the month that the count of steps names, and of which dates it consists. `LaterMonth` makes months an order of days
(a date in a later month is later, however `add_months` clamped it). Under `Contiguous` a test ends where the next one
begins, up to a day (`WindowsMeet`: both are the day of its start, clamped by months of nearly the same lengths),
so two neighbours share two days at most. `DaysAreTested` takes, for a day, the last window that begins no later: the next one begins after it, or
there is none and the test was cut at the end of the history. `Contiguous` is what this needs of windows and months: a
step as long as a test, and months `InSample` apart that differ by a day at most. The defaults, twelve and three, have
both. Seven in-sample months have not: from the 31st of July on, a test ends on the 28th of May, three months after the
28th of February, and the next begins on the 31st.

**The search.** `SearchInv` says that no report so far is above the best one by more than a tolerance, less one, for
each of the others, and, where there is no tolerance, that none comes before the best in the order of expectancy,
factor and confidence. Two infinite factors are not equally good, for their difference is not a number.

**The report.** That the figures forget the order of trades rests on `SortForgetsOrder`; `analyze` begins with the sort.
Won and lost add up to the result (`GainsAddUp`), and rounding a ratio toward zero does not take it across one
(`RatioAboveOne`), which is `FactorAgrees`. The loop over the curve compares each balance with the highest until then;
`HigherFallsFurther` is that among earlier balances the highest gives the largest fall, also after rounding, so it is
the maximum over all pairs, as long as every balance is positive. In a resampled list the quotient and the remainder of
the place by the block size say which trade stands there, and a place that is no multiple of it has its successor in the
same block (`WithinABlock`).

**The grid account.** An operation on the account changes one symbol, so a sum over the symbols changes by one summand
(`TotalReplace`). The books of `AccountSound` need that the cost of an inventory has the sign of its quantity
(`Signed`): a fill that closes an inventory exactly must leave no cost behind, and this is true because a fill takes
out its share of the cost, unless it turns the inventory. As long as the account lives, no
snapshot has a drawdown deeper than the account's, and one has exactly that (`Deepest`).

**The turns of a grid.** A turn composes operators on a world of account, grids and records. Each keeps the types, what
the account promises, the other symbols (`Only`) and that the symbol in turn has a grid if it has an inventory
(`Managed`); legs over levels and the final closing over symbols are inductions over the tables that define them. For
`RegimeObeyed` the invariant counts: a streak is at least the number of refusals at the end of the verdicts, less one
while the symbol has not decided about the latest. A session's bars stay below their maximum because a decision that
reaches it ends the session in the same turn. `PoolNeverOversold` follows from what is left over when a grid is
started: the allotment is cut to it, and it is the only margin that changes.

**The sessions.** `SessionsInvariant` says what every session, live or finished, promises (`GoodSession`). Its orders are
a ladder: buys below a gap of at most one level, sells above it, the price seen last between them. Levels rise strictly
(`SpacedRises`; of a grid `Around` the reference, `AroundRises`), so what a falling leg meets are the highest buys, and
each fill moves the gap one level down: the ladder is now around the end of the leg (`FallKeepsLadder`,
`RiseKeepsLadder`). The books close event by event (`BooksMove`): a fill, a payment of funding and an exit move the wallet
by what the event they append says, and the wallet is margin, cash moved and inventory at cost until a fill
turns the inventory. A live session is valued at the end of every leg that moves; if none of the three does, only
funding can have changed it, and the invariant keeps the place in the events from which there is nothing else, which is
what `OnlyFundingSince` asks for. `DrawdownFound` is that the loop of the report, which keeps the highest equity until
then, finds the deepest of all falls from it.

**Only model-checked.**
* Liveness (`BatchEnds`, `CycleEnds`, `EveryRequestEnds`, `RequestsAnswered`, `EveryReportEnds`): its fairness needs
  ENABLED.
* What indicators, scores and the reports on signals and intelligence compute for every input (`AnalysisSound`,
  `ReportHonest`, `NoRepaint`, `ReportSound`): induction over data, with folds whose operators the provers cannot
  instantiate.
* The files of the intelligence (`StoreSound`, `HistoryKept`), which are sorted and filtered sequences.

---

## 5. Not modelled, and abstractions

*Parts.* Live data fetcher, configuration, logging, exporters, most commands of the command line, and the research
scripts that repeat runs and print tables: one-shot I/O and parsing with no state to say anything about. Of modelled
parts: `process_live_tick`, which only tests call (`paper_trading_engine.py:323`); callbacks and notifications of
the paper trader, of which the command line passes none; a state file that does not parse; the live providers of the
context and their cache; the feature analyzer; the chaining in `pipeline.py`; the disk cache of the backtester; the
Monte-Carlo p-values and the percentiles of the bootstrap.

*Numbers.* Floating point and its tolerances. Indicators, scores and reports are integers rounded toward zero, with
periods of two or three candles; thresholds are the defaults of the constructors. A Sharpe ratio is reduced to its
sign, a correlation to its square with a sign. Grid inventories are quantity and cost. The drawdown figures inside the
paper trader's statistics are copied through by its operations.

*Files and threads.* A torn write of a cache file is a failed write or a missed read. The exchange is closed in the
first step of its coroutine. The result panel and the chart are reduced to the symbol they show.

*Inputs.* Signals of the paper trader are any setup of a small set, built the way `build_setup` orders its levels. The
backtester's pipeline is an external operator, and the gathering of a context one step. Candles and regime verdicts of
the grids are rows of input; `PostBars` stands for the horizon of 12 bars. An isolated run of the exit variants is a
shared run with one symbol. The answers of the intelligence providers are external; a feature that is all None counts
as None. The second part of `EveryDayTested` is about windows that are `Contiguous`, as by default.
Positions open at the end of a backtest leave no trade, as in the code.

*Time.* A clock that is set back, timers that fire early, several limiters at once, and the delay of a request inside
the HTTP client.

---

## 6. Plan

Written: all modules of section 2 and the eight proof modules. Next, most important first:

1. **The history of the intelligence**: `HistoryKept` and `StoreSound`, with the sort of `Sums`.
2. **An abstract poll cycle**, in which a crash keeps or undoes a whole cycle, implemented by PaperTrading; and a
   register that never shows anything older than it showed, as what the candle cache ought to be.
3. **Live ticks**: batches of one symbol inside a candle.
4. **The live context service** with its cache and partial failures.

------------------------------ MODULE RadarGrid ------------------------------
(***************************************************************************)
(* The two drivers of a grid session: simulate_grid_run (simulator.py)     *)
(* plays one session of a given range over all candles, and                *)
(* run_radar_grid_backtest (backtest_radar_grid.py) opens a session around *)
(* the next open whenever the regime allows and the last one is over, and  *)
(* closes it when the regime turns or the session is too old.  The         *)
(* finished sessions are reported by calculate_grid_metrics (metrics.py).  *)
(***************************************************************************)
EXTENDS GridSession

CONSTANTS
    Configs,           \* configurations played by simulate_grid_run
    RadarConfigs,      \* parameters of run_radar_grid_backtest; range in thousandths
    Candles,
    FundingRates,      \* thousandths; 0 where no funding is due
    MaxSessionBars,
    MaxBars,           \* bound on the candles of a run
    InitialCapital,
    None

Candle == [open : Nat \ {0}, high : Nat \ {0}, low : Nat \ {0}, close : Nat \ {0}]

RadarConfig ==
    [range : 0 .. Thousand - 1, grids : Nat \ {0}, margin : Nat \ {0}, leverage : Nat,
     stopLoss : SUBSET (Nat \ {0}), takeProfit : SUBSET (Nat \ {0})]

SessionAssumption ==
    /\ {MakerFee, TakerFee, Slippage, MaintenanceRate, LiquidationFee} \subseteq Nat
    /\ InitialCapital \in Nat \ {0} /\ FundingRates \subseteq Int
    /\ Candles \subseteq Candle
    /\ \A c \in Candles : {c.open, c.close} \subseteq c.low .. c.high
    /\ Configs \subseteq GridConfig /\ \A cfg \in Configs : Spaced(cfg)
    /\ RadarConfigs \subseteq RadarConfig
    /\ \A cfg \in RadarConfigs, c \in Candles : cfg.grids <= 2 * Rated(c.open, cfg.range)

VARIABLES
    driver,      \* "PLAIN" or "RADAR"
    config,
    session,     \* active_session, or None
    sessions,    \* results so far
    current,     \* the candle of the loop, or None before the first
    bars,
    held,        \* session_bars_count
    ended

vars == <<driver, config, session, sessions, current, bars, held, ended>>

Init ==
    /\ \/ driver = "PLAIN" /\ config \in Configs
       \/ driver = "RADAR" /\ config \in RadarConfigs
    /\ session = None /\ current = None
    /\ sessions = <<>>
    /\ bars = 0 /\ held = 0 /\ ended = FALSE

-----------------------------------------------------------------------------
(* simulate_grid_run                                                       *)

PlainBar(c, rate) ==
    /\ driver = "PLAIN" /\ ~ended /\ bars < MaxBars
    /\ session # None => session.status = "ACTIVE"
    /\ session' = ProcessCandle(IF session = None THEN NewSession(config, c.open) ELSE session,
                                c, rate)
    /\ current' = c
    /\ bars' = bars + 1
    /\ UNCHANGED <<driver, config, sessions, held, ended>>

PlainEnd ==
    /\ driver = "PLAIN" /\ ~ended /\ session # None
    /\ session' = Close(session, current.close, "TIMEOUT")
    /\ sessions' = <<session'>>
    /\ ended' = TRUE
    /\ UNCHANGED <<driver, config, current, bars, held>>

-----------------------------------------------------------------------------
(* run_radar_grid_backtest                                                 *)

\* A neutral grid around the reference price; its mode is the default one.
Around(price) ==
    [lower |-> price - Rated(price, config.range), upper |-> price + Rated(price, config.range),
     grids |-> config.grids, margin |-> config.margin, leverage |-> config.leverage,
     type |-> "NEUTRAL", mode |-> "ARITHMETIC",
     stopLoss |-> config.stopLoss, takeProfit |-> config.takeProfit]

\* The session has played candle i; the decision is executed at the open of the
\* next one.
AfterGate(s, count, allowed, next) ==
    IF s.status # "ACTIVE" THEN s
    ELSE IF ~allowed THEN Close(s, next.open, "GATE")
    ELSE IF count >= MaxSessionBars THEN Close(s, next.open, "TIMEOUT")
    ELSE s

RadarStart(c) ==
    /\ driver = "RADAR" /\ current = None
    /\ current' = c
    /\ UNCHANGED <<driver, config, session, sessions, bars, held, ended>>

RadarBar(next, allowed, rate) ==
    /\ driver = "RADAR" /\ current # None /\ ~ended /\ bars < MaxBars
    /\ \E played \in {IF session = None THEN None
                      ELSE AfterGate(ProcessCandle(session, current, rate), held + 1,
                                     allowed, next)} :
       LET over == played # None /\ played.status # "ACTIVE"
           kept == IF over THEN None ELSE played
       IN  /\ sessions' = IF over THEN Append(sessions, played) ELSE sessions
           /\ session' = IF kept = None /\ allowed
                         THEN NewSession(Around(next.open), next.open) ELSE kept
           /\ held' = IF kept = None THEN 0 ELSE held + 1
    /\ current' = next
    /\ bars' = bars + 1
    /\ UNCHANGED <<driver, config, ended>>

RadarEnd ==
    /\ driver = "RADAR" /\ current # None /\ ~ended
    /\ session' = None
    /\ sessions' = IF session = None THEN sessions
                   ELSE Append(sessions, Close(session, current.close, "TIMEOUT"))
    /\ ended' = TRUE
    /\ UNCHANGED <<driver, config, current, bars, held>>

Next ==
    \/ \E c \in Candles, rate \in FundingRates : PlainBar(c, rate)
    \/ PlainEnd
    \/ \E c \in Candles : RadarStart(c)
    \/ \E c \in Candles, rate \in FundingRates, allowed \in BOOLEAN :
          RadarBar(c, allowed, rate)
    \/ RadarEnd

Spec == Init /\ [][Next]_vars

-----------------------------------------------------------------------------
(* calculate_grid_metrics                                                  *)

Total(seq) == SumTo(seq, Len(seq))

\* Capital after the first i sessions.
Equity(pnls, i) == InitialCapital + SumTo(pnls, i)

\* Mutation of MaxDrawdown: the peak is the starting capital.
MaxDrawdownFromStart(pnls) ==
    Max({0} \union {(Thousand * (InitialCapital - Equity(pnls, i))) \div InitialCapital :
                       i \in 0 .. Len(pnls)})

\* The loop keeps the running equity, its peak, and the deepest fall from it.
Fallen(a, pnl) ==
    LET equity == a.equity + pnl
        peak == Larger(a.peak, equity)
    IN  [equity |-> equity, peak |-> peak,
         deepest |-> Larger(a.deepest, (Thousand * (peak - equity)) \div peak)]

MaxDrawdown(pnls) ==
    LET after[i \in 0 .. Len(pnls)] ==
            IF i = 0 THEN [equity |-> InitialCapital, peak |-> InitialCapital, deepest |-> 0]
            ELSE Fallen(after[i - 1], pnls[i])
    IN  after[Len(pnls)].deepest

Metrics(results) ==
    LET pnls == [i \in DOMAIN results |-> NetPnl(results[i])]
        wins == {i \in DOMAIN pnls : pnls[i] > 0}
        losses == {i \in DOMAIN pnls : pnls[i] < 0}
        Over(is) == Total([i \in DOMAIN pnls |-> IF i \in is THEN pnls[i] ELSE 0])
    IN  [sessions |-> Len(results),
         wins |-> Cardinality(wins),
         losses |-> Cardinality(losses),
         net |-> Total(pnls),
         grossProfit |-> Over(wins),
         grossLoss |-> -Over(losses),
         maxDrawdown |-> MaxDrawdown(pnls),
         liquidations |-> Cardinality({i \in DOMAIN results : results[i].status = "LIQUIDATED"}),
         profit |-> Total([i \in DOMAIN results |-> results[i].profit]),
         fees |-> Total([i \in DOMAIN results |-> results[i].fees]),
         funding |-> Total([i \in DOMAIN results |-> results[i].funding])]

-----------------------------------------------------------------------------
(* Properties                                                              *)

Sessions == Range(sessions) \union (IF session = None THEN {} ELSE {session})

\* Between candles no order of a live grid has been passed over: all buys rest
\* at or below the price seen last and all sells at or above it, no level has
\* both, at most one level has none, and none above a sell has a buy.
OrdersBracketPrice ==
    \A s \in Sessions : s.status = "ACTIVE" =>
        LET level == Levels(s.config)
            buys == s.orders.buys
            sells == s.orders.sells
        IN  /\ \A i \in buys : level[i] <= s.lastPrice
            /\ \A i \in sells : s.lastPrice <= level[i]
            /\ \A i \in buys, j \in sells : i < j
            /\ Cardinality(DOMAIN level \ (buys \union sells)) <= 1

\* Cash of one event: what was sold less what was bought and less its fee.
Cash(e) ==
    (CASE e.type = "BUY_FILL" -> -e.value
       [] e.type = "SELL_FILL" -> e.value
       [] e.type = "FUNDING" -> 0
       [] OTHER -> e.value) - e.fee

\* A fill that turned a long inventory short, or a short one long.
TurnedAt(s, k) ==
    LET before == IF k = 1 THEN 0 ELSE s.events[k - 1].inventory
    IN  before * s.events[k].inventory < 0

Turned(s) == \E k \in DOMAIN s.events : TurnedAt(s, k)

FeeOf(e) == IF e.type = "FUNDING" THEN 0 ELSE e.fee
ExitOf(e) == IF e.type \in {"BUY_FILL", "SELL_FILL", "FUNDING"} THEN 0 ELSE e.pnl

CashMoved(s) == Total([k \in DOMAIN s.events |-> Cash(s.events[k])])
FeesCharged(s) == Total([k \in DOMAIN s.events |-> FeeOf(s.events[k])])
ExitProfit(s) == Total([k \in DOMAIN s.events |-> ExitOf(s.events[k])])

\* Money that came in without a trade bringing it: the wallet of a closed session
\* less what its trades, fees and funding explain.
Unexplained(s) == NetPnl(s) - CashMoved(s)

\* The books of a session close: what it ends with follows from the reported
\* profit, fees and funding together with the exit, the reported fees are those
\* of the events, and, unless a fill turned the inventory through zero, the
\* result is exactly the cash its trades moved.
AccountsClose ==
    \A s \in Sessions :
        /\ NetPnl(s) = s.profit - s.fees - s.funding + ExitProfit(s)
        /\ s.fees = FeesCharged(s)
        /\ s.status # "ACTIVE" /\ ~Turned(s) => Unexplained(s) = 0

\* What simulator.py promises without that exception: "Realized grid profit vs
\* unrealized mark-to-market PnL" of the trades that were made.
MoneyConserved == \A s \in Sessions : s.status # "ACTIVE" => Unexplained(s) = 0

\* The last events are funding payments, and before the first of them, the k-th
\* event, the session was within its stop loss at this price.
OnlyFundingSince(s, k, price) ==
    /\ \A j \in k .. Len(s.events) : s.events[j].type = "FUNDING"
    /\ ~StopLossDue([s EXCEPT !.wallet = s.events[k].wallet + s.events[k].fee], price)

\* A grid that is still live after a candle is solvent and short of its take profit
\* at the close, and within its stop loss but for what funding has cost since the
\* price last moved: the stop loss is looked at only where the price moves.  A
\* session that has ended holds nothing.
StoppedInTime ==
    \A s \in Sessions :
        /\ s.status = "ACTIVE" =>
              /\ ~IsLiquidatable(s, s.lastPrice)
              /\ ~TakeProfitDue(s, s.lastPrice)
              /\ StopLossDue(s, s.lastPrice) =>
                    \E k \in DOMAIN s.events : OnlyFundingSince(s, k, s.lastPrice)
        /\ s.status # "ACTIVE" => s.inv = Flat /\ s.orders = NoOrders

\* The report agrees with a definition of its own: the deepest fall from the
\* highest equity until then, and totals that split into wins and losses.
MetricsFaithful ==
    ended =>
        LET m == Metrics(sessions)
            pnls == [i \in DOMAIN sessions |-> NetPnl(sessions[i])]
        IN  /\ m.net = m.grossProfit - m.grossLoss
            /\ m.wins + m.losses <= m.sessions
            /\ m.maxDrawdown =
                  Max({LET peak == Max({Equity(pnls, i) : i \in 0 .. j})
                       IN  (Thousand * (peak - Equity(pnls, j))) \div peak :
                          j \in 0 .. Len(pnls)})
=============================================================================

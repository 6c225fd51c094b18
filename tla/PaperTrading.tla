---------------------------- MODULE PaperTrading ----------------------------
(***************************************************************************)
(* ForwardPaperTradingEngine (application/services/paper_trading_engine.py) *)
(* as the command line runs it: poll the exchange, play the latest closed  *)
(* candle of every symbol, evaluate the signals, save, sleep.  Composes    *)
(* PaperExecution with the exchange, the JSON state store and a process    *)
(* that may die at any point and be started again.                         *)
(*                                                                         *)
(* The cycle awaits the exchange while it fetches and gathers; from there  *)
(* to the save it runs without an await.  Whatever ends the process, an    *)
(* exception of the batch included, loses what is in memory: the values    *)
(* that memory had when the process died are kept until the restart, where *)
(* nothing reads them.                                                     *)
(***************************************************************************)
EXTENDS PaperExecution

CONSTANTS
    MaxTime,       \* bound on the exchange's clock
    MaxStale,      \* max_stale_tolerance_ms
    ClockDrifts    \* by how much the local clock may be ahead of the exchange

ASSUME TradingAssumption ==
    /\ MaxTime \in Nat
    /\ MaxStale \in Nat
    /\ ClockDrifts \subseteq Int

ASSUME NoneIsNoTime == None \notin Nat

VARIABLES
    now,           \* the exchange's clock
    cycle,         \* where the poll cycle is
    asked,         \* number of symbols asked for, or evaluated, so far
    serverTime,    \* the time this cycle goes by
    fetched,       \* open time of each symbol's last closed candle, or None
    watermark,     \* last_processed_candles: the latest candle played
    disk           \* the saved state, or None

poll == <<cycle, asked, serverTime, fetched>>
tvars == <<vars, now, poll, watermark, disk>>

Cycles == {"Asleep", "Fetching", "Gathering", "Trading", "Analysing", "Saving", "Down"}

Unfetched == [s \in Symbols |-> None]

NextStage(stage) ==
    /\ cycle' = stage
    /\ asked' = 0
    /\ UNCHANGED <<serverTime, fetched>>

-----------------------------------------------------------------------------
(* The exchange                                                            *)

\* Time is only read while the program sleeps or awaits.
Tick ==
    /\ now < MaxTime
    /\ cycle \in {"Asleep", "Fetching", "Gathering", "Down"}
    /\ now' = now + 1
    /\ UNCHANGED <<vars, poll, watermark, disk>>

CloseOf(t) == t + BarLength - 1

\* Open times of the candles that have begun
Begun == {n * BarLength : n \in 1 .. (now \div BarLength)}

\* Mutation of ClosedBy: a candle counts as closed in its last instant.
ClosedByInclusive(time) == {t \in Begun : time >= CloseOf(t)}

\* is_candle_closed and is_candle_stale, by the time the cycle goes by
ClosedBy(time) == {t \in Begun : time > CloseOf(t)}
Stale(t, time) == time - CloseOf(t) > MaxStale

Latest(times) == CHOOSE t \in times : \A u \in times : t >= u

-----------------------------------------------------------------------------
(* poll_cycle                                                              *)

\* get_server_time; when it fails the local clock is used instead.
BeginCycle ==
    /\ cycle = "Asleep"
    /\ cycle' = "Fetching"
    /\ asked' = 0
    /\ serverTime' \in {now} \cup {now + drift : drift \in ClockDrifts}
    /\ fetched' = Unfetched
    /\ UNCHANGED <<vars, now, watermark, disk>>

\* Mutation of FetchKlines: a symbol that fails is asked for again.
FetchKlinesStuck ==
    /\ cycle = "Fetching"
    /\ asked < NumSymbols
    /\ \E t \in {u \in ClosedBy(serverTime) : ~Stale(u, serverTime)} :
             fetched' = [fetched EXCEPT ![asked + 1] = t]
    /\ asked' = asked + 1
    /\ UNCHANGED <<vars, now, cycle, serverTime, watermark, disk>>

\* get_klines of the next symbol.  Its last closed candle may be one behind,
\* and there may be none: an error, no candles, or stale ones.
FetchKlines ==
    /\ cycle = "Fetching"
    /\ asked < NumSymbols
    /\ asked' = asked + 1
    /\ \/ \E t \in {u \in ClosedBy(serverTime) :
                       /\ u >= Latest(ClosedBy(serverTime)) - BarLength
                       /\ ~Stale(u, serverTime)} :
             fetched' = [fetched EXCEPT ![asked + 1] = t]
       \/ UNCHANGED fetched
    /\ UNCHANGED <<vars, now, cycle, serverTime, watermark, disk>>

\* Every symbol has the same last closed candle, and it has not been played.
Ready ==
    \E t \in {n * BarLength : n \in Bars} :
        t > watermark /\ \A s \in Symbols : fetched[s] = t

AllFetched == cycle = "Fetching" /\ asked = NumSymbols

Defer ==
    /\ AllFetched
    /\ ~Ready
    /\ NextStage("Saving")
    /\ UNCHANGED <<vars, now, watermark, disk>>

Proceed ==
    /\ AllFetched
    /\ Ready
    /\ NextStage("Gathering")
    /\ UNCHANGED <<vars, now, watermark, disk>>

\* The optional inputs have been awaited, whatever came of them.
Trade ==
    /\ cycle = "Gathering"
    /\ \E c \in [Symbols -> Candles] : StartBatch(fetched[1], c)
    /\ NextStage("Trading")
    /\ UNCHANGED <<now, watermark, disk>>

TradingStep ==
    /\ cycle = "Trading"
    /\ BatchStep
    /\ UNCHANGED <<now, poll, watermark, disk>>

\* Mutation of Commit: the watermark is forgotten.
CommitUnmarked ==
    /\ cycle = "Trading"
    /\ phase = "Idle"
    /\ NextStage("Analysing")
    /\ UNCHANGED <<vars, now, watermark, disk>>

\* The watermark is committed before the signals are evaluated.
Commit ==
    /\ cycle = "Trading"
    /\ phase = "Idle"
    /\ watermark' = openTime
    /\ NextStage("Analysing")
    /\ UNCHANGED <<vars, now, disk>>

\* The signal of the next symbol, if it has one that the risk policy admits;
\* a failed evaluation is skipped.
Analyse ==
    /\ cycle = "Analysing"
    /\ asked < NumSymbols
    /\ asked' = asked + 1
    /\ \/ \E setup \in Setups : ExecuteSetup(asked + 1, setup)
       \/ UNCHANGED vars
    /\ UNCHANGED <<now, cycle, serverTime, fetched, watermark, disk>>

Analysed ==
    /\ cycle = "Analysing"
    /\ asked = NumSymbols
    /\ NextStage("Saving")
    /\ UNCHANGED <<vars, now, watermark, disk>>

Snapshot ==
    [free |-> free, total |-> total, positions |-> positions, pending |-> pending,
     history |-> history, statistics |-> statistics, peak |-> peak,
     watermark |-> watermark, halted |-> phase = "Halted"]

\* The file is replaced atomically.
Save ==
    /\ cycle = "Saving"
    /\ peak >= total
    /\ disk' = Snapshot
    /\ NextStage("Asleep")
    /\ UNCHANGED <<vars, now, watermark>>

\* The error becomes a warning, and the program goes on with what it has.
SaveFails ==
    /\ cycle = "Saving"
    /\ NextStage("Asleep")
    /\ UNCHANGED <<vars, now, watermark, disk>>

-----------------------------------------------------------------------------
(* The process                                                             *)

\* Nothing catches an exception of process_market_batch.
BatchRaises ==
    /\ cycle = "Trading"
    /\ phase \in {"Halted", "Raised"}
    /\ NextStage("Down")
    /\ UNCHANGED <<vars, now, watermark, disk>>

Crash ==
    /\ cycle # "Down"
    /\ NextStage("Down")
    /\ UNCHANGED <<vars, now, watermark, disk>>

FreshStart ==
    /\ disk = None
    /\ free' = InitialCapital
    /\ total' = InitialCapital
    /\ positions' = [s \in Symbols |-> None]
    /\ history' = <<>>
    /\ statistics' = NoTrades
    /\ pending' = NoOrders
    /\ peak' = InitialCapital
    /\ watermark' = 0
    /\ phase' = "Idle"

\* Mutation of Resume: the watermark is not restored.
ResumeUnmarked ==
    /\ disk # None
    /\ free' = disk.free
    /\ total' = disk.total
    /\ positions' = disk.positions
    /\ history' = disk.history
    /\ statistics' = disk.statistics
    /\ pending' = disk.pending
    /\ peak' = disk.peak
    /\ watermark' = 0
    /\ phase' = "Idle"

\* load_state.  No state of a halted engine is ever saved here, because the
\* exception that halts it ends the process before the save.
Resume ==
    /\ disk # None
    /\ free' = disk.free
    /\ total' = disk.total
    /\ positions' = disk.positions
    /\ history' = disk.history
    /\ statistics' = disk.statistics
    /\ pending' = disk.pending
    /\ peak' = disk.peak
    /\ watermark' = disk.watermark
    /\ phase' = IF disk.halted THEN "Halted" ELSE "Idle"

Restart ==
    /\ cycle = "Down"
    /\ NextStage("Asleep")
    /\ FreshStart \/ Resume
    /\ turn' = 1
    /\ candles' = NoCandles
    /\ openTime' = 0
    /\ enteredIntrabar' = {}
    /\ closeRaised' = FALSE
    /\ UNCHANGED <<settlements, now, disk>>

TradingInit ==
    /\ Init
    /\ now = 0
    /\ cycle = "Asleep"
    /\ asked = 0
    /\ serverTime = 0
    /\ fetched = Unfetched
    /\ watermark = 0
    /\ disk = None

PollStep ==
    \/ BeginCycle \/ FetchKlines \/ Defer \/ Proceed \/ Trade \/ TradingStep \/ Commit
    \/ Analyse \/ Analysed \/ Save \/ SaveFails \/ BatchRaises

TradingNext == Tick \/ PollStep \/ Crash \/ Restart

TradingSpec == TradingInit /\ [][TradingNext]_tvars

\* The event loop runs the cycle on; nobody has to restart a dead process.
FairTradingSpec == TradingSpec /\ WF_tvars(PollStep)

-----------------------------------------------------------------------------
(* Types of the poller's own state.                                        *)
TradingOK ==
    /\ cycle \in Cycles
    /\ asked \in 0 .. NumSymbols
    /\ now \in Nat /\ watermark \in Nat
    /\ fetched \in [Symbols -> Nat \cup {None}]

(* Signals only trade the future, across crashes, lost saves and restarts: *)
(* an order is never filled by the candle whose close it was computed      *)
(* from, because no candle is played a second time on books that have      *)
(* already seen it.                                                        *)
NoLookAhead ==
    /\ \A s \in Symbols : positions[s] # None => positions[s].signalTime < positions[s].openedAt
    /\ \A i \in 1 .. Len(history) : history[i].signalTime < history[i].entryTime

\* Nothing in these books is later than this candle.
CoveredBy(mark, book, orders, trades) ==
    /\ \A s \in Symbols : book[s] # None => book[s].openedAt <= mark
    /\ \A s \in Symbols : orders[s] # None => orders[s].signalTime <= mark
    /\ \A i \in 1 .. Len(trades) : trades[i].exitTime <= mark

(* The watermark, in memory and on disk, covers everything that the books  *)
(* beside it contain, so a candle that left a trace is never played again. *)
WatermarkCoversBooks ==
    /\ cycle \notin {"Trading", "Down"} => CoveredBy(watermark, positions, pending, history)
    /\ disk # None => CoveredBy(disk.watermark, disk.positions, disk.pending, disk.history)

(* However cycles fail and the program dies and restarts, a candle is      *)
(* never played twice on the same books.                                   *)
PlayedOnce == TradingOK /\ NoLookAhead /\ WatermarkCoversBooks

(* Every saved state is one that a running engine may continue from: its   *)
(* cash, positions, statistics, orders and peak fit together, whatever     *)
(* step of whatever cycle failed before it was written.                    *)
ConsistentSnapshot ==
    disk # None =>
        /\ disk.total = Equity(disk.free, disk.positions)
        /\ disk.free + Exposure(disk.positions) = InitialCapital + NetProfit(disk.statistics)
        /\ disk.statistics.trades = Len(disk.history)
        /\ \A s \in Symbols : disk.positions[s] = None \/ disk.pending[s] = None
        /\ disk.total <= disk.peak

(* "Strictly executes signal pipeline only on closed candles": a candle is *)
(* played only after the exchange has closed it.                           *)
OnlyClosedCandles ==
    [][cycle = "Gathering" /\ cycle' = "Trading" => CloseOf(openTime') < now]_tvars

(* A cycle that has begun ends, if the process lives: no answer of the     *)
(* exchange, refused batch or failed save leaves it stuck.                 *)
CycleEnds == cycle = "Fetching" ~> cycle \in {"Asleep", "Down"}

(* A funding halt blocks every later fill, order and payment "including    *)
(* after a restart": an engine that was halted stays halted.               *)
HaltSurvivesRestart == [][phase = "Halted" => phase' = "Halted"]_tvars
=============================================================================

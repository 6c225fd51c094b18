--------------------------- MODULE PaperExecution ---------------------------
(***************************************************************************)
(* PaperExecutionEngine (application/services/execution.py): limit orders  *)
(* that wait for the next candles, and process_market_batch, which plays   *)
(* one synchronized candle of every symbol against the shared portfolio:   *)
(*                                                                         *)
(*   catch-up funding - common open - funding at the open - gap exits -    *)
(*   opening fills - intrabar fills - intrabar exits - funding within the  *)
(*   candle - common close                                                 *)
(*                                                                         *)
(* The batch runs without an await; it is cut into steps, one per symbol   *)
(* or funding group, because a step may fail (or the program die) with the *)
(* earlier ones done.  The equity observer of the batch is                 *)
(* DrawdownMonitor.update; peak is its all-time high.                      *)
(*                                                                         *)
(* settlements is the funding history the provider returns.  With the      *)
(* legacy model and no provider, the configuration of the command line,    *)
(* the history is empty.                                                   *)
(***************************************************************************)
EXTENDS RiskPolicy

CONSTANTS
    Setups,       \* what signals may ask for: orders without a signal time
    Candles,      \* candles a symbol may have
    Histories,    \* funding histories
    BarLength,    \* time from the open of a candle to the open of the next
    Bars          \* bound: the candles that may be played, numbered

Setup == [direction : Directions, entry : Positive, quantity : Positive,
          stop : Positive, target : Positive]

Order == [direction : Directions, entry : Positive, quantity : Positive,
          stop : Positive, target : Positive, signalTime : Nat]

Candle == [open : Positive, high : Positive, low : Positive, close : Positive]

\* build_setup puts the levels of a setup this way around, and refuses a risk
\* as large as the entry.
WellFormed(o) ==
    IF o.direction = "BULLISH"
    THEN o.stop < o.entry /\ o.entry < o.target
    ELSE o.target < o.entry /\ o.entry < o.stop /\ o.stop < 2 * o.entry

ASSUME ExecutionAssumption ==
    /\ Setups \subseteq Setup
    /\ \A o \in Setups : WellFormed(o)
    /\ Candles \subseteq Candle
    /\ \A c \in Candles : {c.open, c.close} \subseteq c.low .. c.high
    /\ \A h \in Histories : \A s \in Symbols :
          DOMAIN h[s] \subseteq Nat /\ \A t \in DOMAIN h[s] : h[s][t] \in Int
    /\ BarLength \in Nat \ {0}
    /\ Bars \subseteq Nat

ASSUME NoneIsNoOrder == None \notin Order

VARIABLES
    pending,       \* pending_setups with their timestamps: an order or None
    phase,         \* where process_market_batch is
    turn,          \* the symbol whose turn it is in that phase
    candles,       \* the candles of the batch
    openTime,      \* their open_time; the last batch's between batches
    enteredIntrabar, \* symbols whose order filled inside the candle
    peak,          \* all-time high of the observed equity
    settlements    \* the funding history: symbol -> time -> cash per unit

batch == <<phase, turn, candles, openTime, enteredIntrabar, settlements>>
vars == <<books, pending, batch, peak>>

Phases == {"Idle", "SettlePrior", "MarkOpen", "SettleOpen", "GapExits", "OpenFills",
           "IntrabarFills", "IntrabarExits", "SettleClose", "MarkClose",
           "Halted",     \* funding_halt_reason is set
           "Raised"}     \* an exception left the batch half done

NoOrders == [s \in Symbols |-> None]
NoCandles == [s \in {} |-> None]

closeTime == openTime + BarLength - 1

-----------------------------------------------------------------------------
(* Orders                                                                  *)

NewOrder(setup) ==
    [direction |-> setup.direction, entry |-> setup.entry, quantity |-> setup.quantity,
     stop |-> setup.stop, target |-> setup.target, signalTime |-> openTime]

\* The order as it would fill: same quantity, at the fill price.
Filled(s) == [pending[s] EXCEPT !.entry = FillPrice(pending[s], candles[s])]

FilledPosition(s) ==
    [direction |-> pending[s].direction, entry |-> Filled(s).entry,
     quantity |-> pending[s].quantity, stop |-> pending[s].stop,
     target |-> pending[s].target, openedAt |-> openTime,
     signalTime |-> pending[s].signalTime, unrealized |-> 0, fundingPaid |-> 0,
     fundedUntil |-> openTime]

OtherOrders(s) == [pending EXCEPT ![s] = None]

CancelSetup(s) == pending' = OtherOrders(s)

\* execute_setup, called with the open time of the last candle
ExecuteSetup(s, setup) ==
    /\ phase = "Idle"
    /\ pending[s] = None
    /\ RiskAllows(s, NewOrder(setup), pending, peak)
    /\ pending' = [pending EXCEPT ![s] = NewOrder(setup)]
    /\ UNCHANGED <<books, batch, peak>>

-----------------------------------------------------------------------------
(* Funding                                                                 *)

Due(horizon) ==
    {t \in UNION {DOMAIN settlements[s] : s \in Symbols} :
        /\ t <= horizon
        /\ \E s \in Symbols : /\ positions[s] # None
                              /\ t \in DOMAIN settlements[s]
                              /\ positions[s].fundedUntil < t}

Group(t) ==
    [s \in {r \in Symbols : /\ positions[r] # None
                            /\ t \in DOMAIN settlements[r]
                            /\ positions[r].fundedUntil < t} |-> settlements[s][t]]

Earliest(times) == CHOOSE t \in times : \A u \in times : t <= u

\* Mutation of Observed: the equity observer is not called.
ObservedNever == UNCHANGED peak

Observed == peak' = IF total' > peak THEN total' ELSE peak

GoTo(next) ==
    /\ phase' = next
    /\ turn' = 1
    /\ UNCHANGED <<candles, openTime, enteredIntrabar, settlements>>

\* One group of settle_funding(horizon)
SettleGroup(horizon) ==
    /\ Due(horizon) # {}
    /\ ApplyFunding(Earliest(Due(horizon)), Group(Earliest(Due(horizon))))
    /\ Observed
    /\ UNCHANGED <<pending, batch>>

\* A group that would overdraw the account halts the engine; the groups
\* before it stay paid.
SettleFails(horizon) ==
    /\ Due(horizon) # {}
    /\ ~FundingPayable(Earliest(Due(horizon)), Group(Earliest(Due(horizon))))
    /\ GoTo("Halted")
    /\ UNCHANGED <<books, pending, peak>>

Settle(horizon) == SettleGroup(horizon) \/ SettleFails(horizon)

-----------------------------------------------------------------------------
(* process_market_batch                                                    *)

\* A batch that starts before funding already booked is refused.
StartBatch(t, c) ==
    /\ phase = "Idle"
    /\ \A s \in Symbols : positions[s] # None => positions[s].fundedUntil <= t
    /\ phase' = "SettlePrior"
    /\ turn' = 1
    /\ candles' = c
    /\ openTime' = t
    /\ enteredIntrabar' = {}
    /\ UNCHANGED <<books, pending, peak, settlements>>

SettlePrior ==
    /\ phase = "SettlePrior"
    /\ \/ Settle(openTime - 1)
       \/ Due(openTime - 1) = {} /\ GoTo("MarkOpen") /\ UNCHANGED <<books, pending, peak>>

Raise == GoTo("Raised") /\ UNCHANGED <<pending, peak>>

OpenPrices == [s \in Symbols |-> candles[s].open]
ClosePrices == [s \in Symbols |-> candles[s].close]

MarkOpen ==
    /\ phase = "MarkOpen"
    /\ \/ UpdateMarketPrices(OpenPrices) /\ GoTo("SettleOpen") /\ UNCHANGED <<pending, peak>>
       \/ ~MarkBookable(OpenPrices) /\ Raise /\ UNCHANGED books

\* Mutation of SettleOpen: the settlement at the open is left to the end.
SettleOpenSkipped ==
    /\ phase = "SettleOpen"
    /\ UNCHANGED <<books, pending>>
    /\ Observed
    /\ GoTo("GapExits")

SettleOpen ==
    /\ phase = "SettleOpen"
    /\ \/ Settle(openTime)
       \/ Due(openTime) = {} /\ UNCHANGED <<books, pending>> /\ Observed /\ GoTo("GapExits")

\* Mutation of Advance: the loop does not go on to the next symbol.
AdvanceStuck(next, observe) == UNCHANGED <<turn, phase, peak, candles, openTime, settlements>>

\* After the last symbol the next phase begins, after observing the equity
\* if the code does so there.
Advance(next, observe) ==
    /\ turn' = IF turn < NumSymbols THEN turn + 1 ELSE 1
    /\ phase' = IF turn < NumSymbols THEN phase ELSE next
    /\ IF turn = NumSymbols /\ observe THEN Observed ELSE UNCHANGED peak
    /\ UNCHANGED <<candles, openTime, settlements>>

\* _close_at; its own settle_funding call finds nothing due, see FundingComplete
CloseAt(s, x) ==
    ClosePosition(s, x.price, x.reason, openTime, positions[s].fundingPaid)

CloseAtRaises(s, x) ==
    CloseRaises(s, x.price, x.reason, openTime, positions[s].fundingPaid)

\* The turn of one symbol in a loop over the positions; exits is how its
\* position may leave.
ExitTurn(exits, next, observe) ==
    /\ UNCHANGED <<pending, enteredIntrabar>>
    /\ \/ /\ positions[turn] # None
          /\ \E x \in exits : CloseAt(turn, x)
          /\ Advance(next, observe)
       \/ /\ positions[turn] # None
          /\ \E x \in exits : CloseAtRaises(turn, x)
          /\ Raise
       \/ /\ positions[turn] # None => exits = {}
          /\ UNCHANGED books
          /\ Advance(next, observe)

\* Mutation of GapExits: positions leave at any price of the candle before
\* the orders are filled.
GapExitsWholeBar ==
    /\ phase = "GapExits"
    /\ ExitTurn(IntrabarExit(positions[turn], candles[turn], FALSE), "OpenFills", TRUE)

GapExits ==
    /\ phase = "GapExits"
    /\ ExitTurn(OpeningExit(positions[turn], candles[turn]), "OpenFills", TRUE)

\* Mutation of Fill: the order stays registered.
FillKeepsOrder(s) ==
    /\ RiskAllows(s, Filled(s), OtherOrders(s), peak)
    /\ OpenPosition(s, FilledPosition(s))
    /\ UNCHANGED pending
    /\ enteredIntrabar' =
          IF AtOpen(pending[s], candles[s]) THEN enteredIntrabar ELSE enteredIntrabar \cup {s}

\* _fill_pending: the risk of the order is checked again, at its fill price
Fill(s) ==
    /\ RiskAllows(s, Filled(s), OtherOrders(s), peak)
    /\ OpenPosition(s, FilledPosition(s))
    /\ CancelSetup(s)
    /\ enteredIntrabar' =
          IF AtOpen(pending[s], candles[s]) THEN enteredIntrabar ELSE enteredIntrabar \cup {s}

CancelAtFill(s) ==
    /\ ~RiskAllows(s, Filled(s), OtherOrders(s), peak)
    /\ CancelSetup(s)
    /\ UNCHANGED <<books, enteredIntrabar>>

PassOver == UNCHANGED <<books, pending, enteredIntrabar>>

\* The turn of one symbol in a loop over the waiting orders
FillTurn(eligible, next, observe) ==
    /\ \/ pending[turn] # None /\ eligible /\ Fill(turn)
       \/ pending[turn] # None /\ eligible /\ CancelAtFill(turn)
       \/ (pending[turn] # None => ~eligible) /\ PassOver
    /\ Advance(next, observe)

FillsAtOpen(s) == AtOpen(pending[s], candles[s])

\* Mutation of FillsInside: a limit that the candle only just reached is not filled.
FillsStrictlyInside(s) ==
    /\ ~FillsAtOpen(s) /\ Touched(pending[s], candles[s])
    /\ Worst(pending[s].direction, candles[s]) # pending[s].entry

FillsInside(s) == ~FillsAtOpen(s) /\ Touched(pending[s], candles[s])

\* Mutation of OpenFills: orders touched later compete with those at the open.
OpenFillsWholeBar ==
    /\ phase = "OpenFills"
    /\ FillTurn(Touched(pending[turn], candles[turn]), "IntrabarFills", FALSE)

OpenFills ==
    /\ phase = "OpenFills"
    /\ FillTurn(FillsAtOpen(turn), "IntrabarFills", FALSE)

IntrabarFills ==
    /\ phase = "IntrabarFills"
    /\ FillTurn(FillsInside(turn), "IntrabarExits", TRUE)

\* Mutation of IntrabarExits: levels are only compared with the open.
IntrabarExitsAtOpen ==
    /\ phase = "IntrabarExits"
    /\ ExitTurn(OpeningExit(positions[turn], candles[turn]), "SettleClose", FALSE)

IntrabarExits ==
    /\ phase = "IntrabarExits"
    /\ ExitTurn(IntrabarExit(positions[turn], candles[turn], turn \in enteredIntrabar),
                "SettleClose", FALSE)

SettleClose ==
    /\ phase = "SettleClose"
    /\ \/ Settle(closeTime)
       \/ Due(closeTime) = {} /\ GoTo("MarkClose") /\ UNCHANGED <<books, pending, peak>>

\* update_market_prices cannot raise here, see CloseMarkBookable.
MarkClose ==
    /\ phase = "MarkClose"
    /\ UpdateMarketPrices(ClosePrices)
    /\ Observed
    /\ phase' = "Idle"
    /\ turn' = 1
    /\ candles' = NoCandles
    /\ enteredIntrabar' = {}
    /\ UNCHANGED <<pending, openTime, settlements>>

\* One step of a batch that has begun.
BatchStep ==
    \/ SettlePrior \/ MarkOpen \/ SettleOpen \/ GapExits \/ OpenFills
    \/ IntrabarFills \/ IntrabarExits \/ SettleClose \/ MarkClose

-----------------------------------------------------------------------------
(* A fresh engine; the first candle opens at BarLength or later.           *)
Init ==
    /\ NewBooks
    /\ pending = NoOrders
    /\ phase = "Idle"
    /\ turn = 1
    /\ candles = NoCandles
    /\ openTime = 0
    /\ enteredIntrabar = {}
    /\ peak = InitialCapital
    /\ settlements \in Histories

\* Later candles only; candles may have been missed in between.
NextBatch ==
    \E n \in Bars, c \in [Symbols -> Candles] :
        n * BarLength > openTime /\ StartBatch(n * BarLength, c)

Next ==
    \/ \E s \in Symbols, setup \in Setups : ExecuteSetup(s, setup)
    \/ NextBatch
    \/ BatchStep

Spec == Init /\ [][Next]_vars

FairSpec == Spec /\ WF_vars(BatchStep)

-----------------------------------------------------------------------------
(* Types of the execution engine's own state.                              *)
ExecutionOK ==
    /\ BooksOK
    /\ pending \in [Symbols -> Order \cup {None}]
    /\ phase \in Phases
    /\ turn \in Symbols
    /\ openTime \in Nat
    /\ peak \in Nat
    /\ enteredIntrabar \subseteq Symbols

(* A symbol is committed at most once: it never has both an open position  *)
(* and a waiting order.  close_position relies on this, because it drops   *)
(* every position of the symbol and pays back one.                         *)
OneCommitmentPerSymbol == \A s \in Symbols : positions[s] = None \/ pending[s] = None

(* Waiting orders take up slots: fills, cancellations and exits in any     *)
(* order never take open positions and orders together past the policy's   *)
(* maximum of concurrent trades, or of shorts where those are limited.     *)
SlotLimit ==
    /\ Trades(positions) + Trades(pending) <= Policy.maxTrades
    /\ Policy.shorts.enabled =>
          Shorts(positions) + Shorts(pending) <= Policy.shorts.maximum

Opens(s) == positions[s] = None /\ positions'[s] # None
Registers(s) == pending[s] = None /\ pending'[s] # None

(* Whenever an order is registered or filled, the orders that still wait   *)
(* are covered by free cash, and the exposure and (with the heat guard)    *)
(* the risk of positions and orders together are within the policy, at the *)
(* prices of that moment.                                                  *)
CommitmentsCovered ==
    [][(\E s \in Symbols : Opens(s) \/ Registers(s)) =>
          /\ (Exposure(pending) <= free)'
          /\ (ViewExposure(pending) * Whole <= total * Policy.maxExposure)'
          /\ Policy.heat => (ViewRisk(pending) * Whole <= total * Policy.maxHeat)']_vars

(* "Intrabar proceeds never finance earlier fills": when an order fills,   *)
(* the only positions closed so far in this candle left at its open price. *)
ProceedsComeLate ==
    [][(\E s \in Symbols : Opens(s)) =>
          \A i \in 1 .. Len(history) :
              history[i].exitTime = openTime =>
                  history[i].exit = candles[history[i].symbol].open]_vars

\* Order r is entitled to the capital before order s.
Precedes(r, s) ==
    \/ FillsAtOpen(r) /\ (~FillsAtOpen(s) \/ r < s)
    \/ FillsInside(r) /\ FillsInside(s) /\ r < s

(* Orders compete for capital in the fixed allocation order: those that    *)
(* fill at the open before those touched inside the candle, and by symbol  *)
(* priority among equals.                                                  *)
AllocationOrder ==
    [][\A s \in Symbols : Opens(s) =>
          \A r \in Symbols : pending[r] # None => ~Precedes(r, s)]_vars

(* No order that the candle reached is left waiting when the exits begin:  *)
(* it was filled, or cancelled because the risk had changed.               *)
ReachedOrdersDecided ==
    phase \in {"IntrabarExits", "SettleClose", "MarkClose"} =>
        \A s \in Symbols : pending[s] # None => ~Touched(pending[s], candles[s])

(* No position survives a candle that touched its stop, whether it was     *)
(* held before, filled at the open or filled inside the candle.            *)
StopsTaken ==
    phase \in {"SettleClose", "MarkClose"} =>
        \A s \in Symbols : positions[s] # None =>
            ~NoBetter(positions[s].direction,
                      Worst(positions[s].direction, candles[s]), positions[s].stop)

(* The stops protect the account: once they were taken, the close of the   *)
(* candle can be marked, whatever it is (an AccountState cannot represent  *)
(* positions that are worth less than nothing).                            *)
CloseMarkBookable == phase = "MarkClose" => MarkBookable(ClosePrices)

Within(price, c) == price \in c.low .. c.high

(* Every fill and every exit happens at a price the candle traded.         *)
TradedPrices ==
    [][/\ \A s \in Symbols : Opens(s) => Within(positions'[s].entry, candles[s])
       /\ Len(history') > Len(history) =>
             LET trade == history'[Len(history')]
             IN  Within(trade.exit, candles[trade.symbol])]_vars

(* A position never leaves with a profit that the candle does not prove:   *)
(* not at its target when the stop was touched too (unless the open was    *)
(* already beyond the target), nor, when it was entered inside the candle, *)
(* at a target that may have been reached before the entry.                *)
NoOptimisticExit ==
    [][\A s \in Symbols :
          /\ positions[s] # None /\ positions'[s] = None
          /\ history'[Len(history')].reason = "TAKE_PROFIT"
          => LET d == positions[s].direction
                 c == candles[s]
                 atOpen == s \notin enteredIntrabar /\ NoWorse(d, c.open, positions[s].target)
             IN  \/ atOpen
                 \/ /\ ~NoBetter(d, Worst(d, c), positions[s].stop)
                    /\ s \in enteredIntrabar => NoWorse(d, c.close, positions[s].target)]_vars

(* Between batches the drawdown monitor has seen the present equity, so    *)
(* that save_state can build a DrawdownState (which requires the peak to   *)
(* be no less than the equity).                                            *)
SavableWhenIdle == phase = "Idle" => total <= peak

(* At every step of every batch the books add up and no symbol is          *)
(* committed twice, and between the batches the state can be saved.        *)
ExecutionSound ==
    /\ ExecutionOK
    /\ EquityIdentity
    /\ CashConservation
    /\ OneCommitmentPerSymbol
    /\ SavableWhenIdle

(* A candle is not left before it has had its effect on every order it     *)
(* reached and on every stop it touched, and the account that is left can  *)
(* be marked at its close.                                                 *)
CandleHonoured == ReachedOrdersDecided /\ StopsTaken /\ CloseMarkBookable

(* Fills happen in the fixed order of allocation, from capital that was    *)
(* free before the intrabar exits of the candle.                           *)
CandleOrder == ProceedsComeLate /\ AllocationOrder

(* The simulation takes no price that the candle does not prove.           *)
HonestPrices == TradedPrices /\ NoOptimisticExit

\* Cash that a position pays for the settlements in (from, to].
FundingBetween(s, direction, quantity, from, to) ==
    Sign(direction) *
        (quantity * SumTo([t \in 1 .. to |->
                              IF t > from /\ t \in DOMAIN settlements[s]
                              THEN settlements[s][t] ELSE 0], to))

(* Funding is exact: a position has paid every settlement after its entry  *)
(* up to its cursor once, a closed trade every one up to its exit, and     *)
(* nothing is due when the engine decides about exits and entries or ends  *)
(* the batch.                                                              *)
FundingExact ==
    /\ \A s \in Symbols : positions[s] # None =>
          positions[s].fundingPaid =
              FundingBetween(s, positions[s].direction, positions[s].quantity,
                             positions[s].openedAt, positions[s].fundedUntil)
    /\ \A i \in 1 .. Len(history) :
          history[i].funding =
              FundingBetween(history[i].symbol, history[i].direction, history[i].quantity,
                             history[i].entryTime, history[i].exitTime)
    /\ phase \in {"GapExits", "OpenFills", "IntrabarFills", "IntrabarExits"} =>
          Due(openTime) = {}
    /\ phase \in {"MarkClose", "Idle"} => Due(closeTime) = {}

(* A batch that has begun ends: every phase gives every symbol its turn    *)
(* and every settlement loop runs out of groups.                           *)
BatchEnds == phase = "SettlePrior" ~> phase \in {"Idle", "Halted", "Raised"}
=============================================================================

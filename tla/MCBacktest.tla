----------------------------- MODULE MCBacktest -----------------------------
(***************************************************************************)
(* The backtester and the walk-forward analysis that runs it over windows. *)
(* They are checked apart: a behaviour is of one of them, and program says *)
(* of which.                                                               *)
(*                                                                         *)
(* Backtests: two symbols, two candles a day and one higher candle,        *)
(* windows of two days.  A strategy reduces all it is shown to one number, *)
(* so that it answers differently whenever it is shown something else.     *)
(*                                                                         *)
(* Walk-forward: the default windows of twelve, three and three months     *)
(* over five years, the first and the last of them leap years, a grid of   *)
(* three confidences and a handful of trade lists.                         *)
(***************************************************************************)
EXTENDS TradeBacktest

Bar(open, high, low, close) == [open |-> open, high |-> high, low |-> low, close |-> close]
Ask(direction, quantity, entry, stop, target) ==
    [direction |-> direction, entry |-> entry, quantity |-> quantity,
     stop |-> stop, target |-> target]

Dip == Bar(5, 5, 3, 4)           \* fills a long inside
Wild == Bar(4, 8, 2, 4)          \* touches stops and targets alike
GapDown == Bar(1, 2, 1, 2)       \* opens past every long stop
GapUp == Bar(7, 8, 6, 7)         \* opens past every short stop
Recover == Bar(6, 7, 4, 7)       \* fills a long inside, closes at its target
Leap == Bar(11, 11, 9, 9)        \* rises past twice the entry of a short
Hold == Bar(5, 6, 4, 5)          \* fills both, touches no exit

MCBars == <<2, 4>>
MCCandleTimes == <<<<{0, 2, 4, 6, 8, 10, 12, 14, 16}, {0, 4, 8, 12, 16}>>,
                   <<{4, 6, 8, 10, 12, 14}, {4, 8, 12}>>>>
MCSettlements == <<{4, 8, 11, 12, 15}, {4, 8, 10, 14}>>
MCRates == <<[t \in 0 .. 20 |-> 1], [t \in 0 .. 20 |-> -1]>>
MCSamples == <<[oi |-> {4, 5, 7, 11}, ls |-> {3, 6, 9}], [oi |-> {}, ls |-> {8, 10}]>>
MCSampleLimit == [oi |-> 2, ls |-> 2]
MCWindows == {[first |-> 1, last |-> 2], [first |-> 2, last |-> 3]}

Quote(bars) == [t \in {2 * (i - 1) : i \in DOMAIN bars} |-> bars[t \div 2 + 1]]
MCQuotes == <<Quote(<<Hold, Hold, Dip, Hold, GapUp, Recover, Wild, GapDown, Hold>>),
              Quote(<<Hold, Hold, Recover, Hold, Leap, Dip, Hold, GapDown>>)>>

Shown(view) ==
    Cardinality(view.candles) + 2 * Cardinality(view.higher) + view.rate
    + MapThenSumSet(LAMBDA f : MapThenSumSet(LAMBDA t : t, view.context[f]), DOMAIN view.context)
    + Cardinality(view.intelligence)

Asks == <<Ask("BULLISH", 1, 4, 2, 7), Ask("BEARISH", 1, 5, 7, 2), None,
          Ask("BULLISH", 2, 6, 3, 7), Ask("BEARISH", 2, 5, 8, 3)>>

MCDecide(strategy_, view, a) == Asks[((Shown(view) + strategy_) % Len(Asks)) + 1]

-----------------------------------------------------------------------------
Months == <<31, 29, 31, 30, 31, 30, 31, 31, 30, 31, 30, 31,
            31, 28, 31, 30, 31, 30, 31, 31, 30, 31, 30, 31,
            31, 28, 31, 30, 31, 30, 31, 31, 30, 31, 30, 31,
            31, 28, 31, 30, 31, 30, 31, 31, 30, 31, 30, 31,
            31, 29, 31, 30, 31, 30, 31, 31, 30, 31, 30, 31>>

MCGrid == <<30, 50, 70>>
\* From no window to three; starts that the short months clamp; tests that share
\* the 28th and 29th of a February; a last day that no test reaches.
MCPeriods ==
  { <<<<1, 15>>, <<12, 10>>>>, <<<<1, 15>>, <<14, 1>>>>, <<<<1, 31>>, <<20, 29>>>>,
    <<<<2, 29>>, <<19, 31>>>>, <<<<11, 30>>, <<28, 1>>>>, <<<<2, 28>>, <<17, 28>>>>,
    <<<<35, 30>>, <<51, 10>>>>, <<<<2, 29>>, <<17, 29>>>> }

Trade(entered, exited, net, risk) ==
  [entered |-> entered, exited |-> exited, quantity |-> 1, net |-> net, pct |-> net * 2,
   risk |-> risk, r |-> IF risk = 0 THEN 0 ELSE net, capital |-> 1000, costs |-> 1]
Won == Trade(3, 5, 300, 1)
WonLater == Trade(4, 9, 150, 1)
Lost == Trade(1, 2, -200, 1)
LostLater == Trade(5, 6, -100, 1)
Even == Trade(6, 7, 0, 0)
Old(t) == [t EXCEPT !.quantity = 0, !.net = 0, !.capital = 0]

MCTradeLists ==
  { <<>>, <<Won>>, <<WonLater, Won, Even>>, <<Won, Lost, LostLater>>,
    <<Old(LostLater), Old(Lost), Old(Won)>> }

-----------------------------------------------------------------------------
CONSTANTS InitialBalance, MonthLengths, Periods, InSample, OutSample, Step, Grid, TradeLists,
          Tolerance                                 \* of the walk-forward analysis

VARIABLES
    program,                                        \* "BACKTEST" or "WALK"
    first, end, start, tests, best, cycles, done    \* likewise

W == INSTANCE WalkForward

ASSUME WalkForwardAssumption == W!WalkAssumption

walkVars == <<first, end, start, tests, best, cycles, done>>
researchVars == <<btVars, walkVars, program>>

\* Only the program that a behaviour is of chooses where to start.
ResearchInit ==
    \/ /\ program = "BACKTEST" /\ Init
       /\ W!Init /\ <<first, end>> = CHOOSE period \in Periods : TRUE
    \/ /\ program = "WALK" /\ W!Init
       /\ Init /\ source = "Client" /\ strategy = CHOOSE s \in Strategies : TRUE

ResearchNext ==
    \/ program = "BACKTEST" /\ Next /\ UNCHANGED <<walkVars, program>>
    \/ program = "WALK" /\ W!Next /\ UNCHANGED <<btVars, program>>

ResearchSpec == ResearchInit /\ [][ResearchNext]_researchVars

-----------------------------------------------------------------------------
(* The walk-forward analysis chooses the best of sound reports             *)
(* (parameter_optimizer.py:51, trade_analyzer.py:22).                      *)
ChoiceSound == W!ChoiceSound

(* When it ends, every day from the first test to the last but one has been *)
(* tested, once but for the seams (walk_forward_analyzer.py:92).           *)
EveryDayTested == W!EveryDayTested
=============================================================================

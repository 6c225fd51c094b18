----------------------------- MODULE WalkForward -----------------------------
(***************************************************************************)
(* Walk-forward analysis (application/services/walk_forward_analyzer.py)   *)
(* with the grid search of parameter_optimizer.py: windows of whole months *)
(* roll over the history; in each the confidence that did best in-sample   *)
(* is tested on the months that follow.  What a backtest of a window       *)
(* returns is left open: any list of TradeLists.                           *)
(***************************************************************************)
EXTENDS TradeReport

CONSTANTS
  MonthLengths,    \* days of the months of the calendar, in order
  Periods,         \* the pairs of first and last date that are analysed
  InSample, OutSample, Step,   \* lengths of the windows and of the step, in months
  Grid,            \* min_confidence_grid
  TradeLists,      \* what a backtest may return
  Tolerance        \* expectancies and factors nearer than this are equal

VARIABLES
  first, end,      \* start_date and end_date
  start,           \* current_is_start
  tests,           \* what the confidences tried in this window traded, in order
  best,            \* the best of them so far
  cycles,          \* what the finished windows gave
  done

vars == <<first, end, start, tests, best, cycles, done>>

(***************************************************************************)
(* Dates are <<month, day>>, months counted from the first of the calendar. *)
(***************************************************************************)
add_months(date, n) ==
  <<date[1] + n, Min({date[2], MonthLengths[date[1] + n]})>>

DayNumber(date) == SumTo(MonthLengths, date[1] - 1) + date[2]
NotBefore(a, b) == DayNumber(a) >= DayNumber(b)
Earlier(a, b) == IF NotBefore(a, b) THEN b ELSE a

Dates == {d \in (DOMAIN MonthLengths) \X Nat : d[2] \in 1 .. MonthLengths[d[1]]}

\* The calendar reaches as far as the windows do.
WalkAssumption ==
  /\ MonthLengths \in Seq(Nat \ {0}) /\ {InSample, OutSample, Step} \subseteq Nat \ {0}
  /\ \A period \in Periods :
       /\ period[1] \in Dates /\ period[2] \in Dates
       /\ period[1][1] + InSample + OutSample <= Len(MonthLengths)
       /\ period[2][1] + OutSample + Step <= Len(MonthLengths)
  /\ Grid \in Seq(Nat) /\ Grid # <<>>
  /\ TradeLists \subseteq Seq(ClosedTrade)
  /\ Tolerance \in Nat \ {0} /\ InitialBalance \in Int

\* Mutation of Window: the test may go past the last day.
WindowUncut(s) ==
  LET oos == add_months(s, InSample)
  IN [isStart |-> s, isEnd |-> oos, oosStart |-> oos, oosEnd |-> add_months(oos, OutSample)]

Window(s) ==
  LET oos == add_months(s, InSample)
  IN [isStart |-> s, isEnd |-> oos, oosStart |-> oos,
      oosEnd |-> Earlier(add_months(oos, OutSample), end)]

\* Days whose candles TradeBacktester.run plays: the last one is included.
PlayedDays(from, to) == DayNumber(from) .. DayNumber(to)

(***************************************************************************)
(* optimize: a later confidence wins if it is better, or as good with a    *)
(* better factor, or as good in both and higher.  Infinity is not as near  *)
(* to infinity as it looks: their difference is not a number.              *)
(***************************************************************************)
Near(a, b) == a - b < Tolerance /\ b - a < Tolerance
NearFactors(a, b) == Infinite \notin {a, b} /\ Near(a, b)

Better(report, conf, old) ==
  \/ report.expectancy > old.report.expectancy
  \/ /\ Near(report.expectancy, old.report.expectancy)
     /\ \/ report.profitFactor > old.report.profitFactor
        \/ /\ NearFactors(report.profitFactor, old.report.profitFactor)
           /\ conf > old.confidence

NoBest == [confidence |-> -1, report |-> NoReport]
Candidate(conf, report) == [confidence |-> conf, report |-> report]

\* Mutation of Pick: every confidence that is not worse is taken.
PickLast(conf, report, old) ==
  IF old = NoBest \/ report.expectancy >= old.report.expectancy
  THEN Candidate(conf, report) ELSE old

Pick(conf, report, old) ==
  IF old = NoBest \/ Better(report, conf, old) THEN Candidate(conf, report) ELSE old

(***************************************************************************)
(* WalkForwardReport                                                       *)
(***************************************************************************)
AvgOos(f) == IF cycles = <<>> THEN 0 ELSE Mean([i \in DOMAIN cycles |-> cycles[i][f]])
total_oos_trades == Sum([i \in DOMAIN cycles |-> cycles[i].total])
OosExpectancies == {cycles[i].expectancy : i \in DOMAIN cycles}
best_cycle == IF cycles = <<>> THEN 0 ELSE Max(OosExpectancies)
worst_cycle == IF cycles = <<>> THEN 0 ELSE Min(OosExpectancies)
profitable_cycles == Cardinality({i \in DOMAIN cycles : cycles[i].expectancy > 0})

(***************************************************************************)
(* The analysis                                                            *)
(***************************************************************************)
Init ==
  /\ \E period \in Periods : first = period[1] /\ end = period[2]
  /\ start = first
  /\ tests = <<>> /\ best = NoBest /\ cycles = <<>> /\ done = FALSE

WindowLeft == ~NotBefore(Window(start).oosStart, end)

Cycle(window, confidence, report) ==
  [window |-> window, confidence |-> confidence, expectancy |-> report.expectancy,
   profitFactor |-> report.profitFactor, drawdown |-> report.drawdown, total |-> report.total]

\* one tester of the grid, on the in-sample window
Try ==
  /\ ~done /\ WindowLeft /\ Len(tests) < Len(Grid)
  /\ \E trades \in TradeLists :
       /\ tests' = Append(tests, trades)
       /\ \E report \in {analyze(trades)} : best' = Pick(Grid[Len(tests) + 1], report, best)
  /\ UNCHANGED <<first, end, start, cycles, done>>

\* Mutation of TestOutOfSample: the windows move on by their own length.
TestOutOfSampleStepping ==
  /\ ~done /\ Len(tests) = Len(Grid)
  /\ \E trades \in TradeLists :
       cycles' = Append(cycles, Cycle(Window(start), best.confidence, analyze(trades)))
  /\ start' = add_months(start, InSample)
  /\ tests' = <<>> /\ best' = NoBest
  /\ UNCHANGED <<first, end, done>>

\* the out-of-sample test with the chosen confidence, and the step forward
TestOutOfSample ==
  /\ ~done /\ Len(tests) = Len(Grid)
  /\ \E trades \in TradeLists :
       cycles' = Append(cycles, Cycle(Window(start), best.confidence, analyze(trades)))
  /\ start' = add_months(start, Step)
  /\ tests' = <<>> /\ best' = NoBest
  /\ UNCHANGED <<first, end, done>>

Finish ==
  /\ ~done /\ ~WindowLeft
  /\ done' = TRUE
  /\ UNCHANGED <<first, end, start, tests, best, cycles>>

Next == Try \/ TestOutOfSample \/ Finish

Spec == Init /\ [][Next]_vars

-----------------------------------------------------------------------------
(***************************************************************************)
(* "Max Expectancy -> Max Profit Factor -> Max min_confidence (most        *)
(* conservative)": no confidence of the grid comes before the chosen one,  *)
(* whatever the order they were tried in.  Infinite factors are left out.  *)
(* What is nearer than the tolerance counts as equal, and such steps add   *)
(* up: the chosen expectancy may be less than the best by as many of them  *)
(* as there are other confidences.                                         *)
(***************************************************************************)
BestChosen ==
  Len(tests) = Len(Grid) =>
    \A k \in DOMAIN Grid :
         LET r == analyze(tests[k])
         IN /\ r.expectancy <= best.report.expectancy + (Len(Grid) - 1) * (Tolerance - 1)
            /\ Tolerance = 1 /\ r.expectancy = best.report.expectancy =>
                 /\ r.profitFactor <= best.report.profitFactor
                 /\ r.profitFactor = best.report.profitFactor
                      => Infinite = r.profitFactor \/ Grid[k] <= best.confidence

(***************************************************************************)
(* A test has days, all of them between the first out-of-sample day and    *)
(* the last of the history; only its first day was seen in-sample.  Where  *)
(* the windows are as long as the step and months of different years are   *)
(* alike up to a leap day: no day is tested three times, two at most are   *)
(* tested twice where windows meet, and when the analysis ends every day   *)
(* before the last has been tested; clamping a date to the end of a short  *)
(* month leaves no gap.  The last day itself may be left out.              *)
(***************************************************************************)
Contiguous ==
  /\ Step = OutSample
  /\ \A m \in 1 .. Len(MonthLengths) - InSample :
       MonthLengths[m + InSample] - MonthLengths[m] \in {-1, 0, 1}

TestedDays(i) == PlayedDays(cycles[i].window.oosStart, cycles[i].window.oosEnd)

WindowSound(i) ==
  LET seen == PlayedDays(cycles[i].window.isStart, cycles[i].window.isEnd)
      firstTested == DayNumber(cycles[i].window.oosStart)
  IN /\ seen \cap TestedDays(i) = {firstTested}
     /\ TestedDays(i) \subseteq DayNumber(cycles[1].window.oosStart) .. DayNumber(end)

EveryDayTested ==
  /\ \A i \in DOMAIN cycles : WindowSound(i)
  /\ Contiguous =>
       /\ \A i, j \in DOMAIN cycles :
            i < j => Cardinality(TestedDays(i) \cap TestedDays(j)) <= IF j = i + 1 THEN 2 ELSE 0
       /\ done /\ cycles # <<>> =>
            \A day \in DayNumber(cycles[1].window.oosStart) .. DayNumber(end) - 1 :
              \E i \in DOMAIN cycles : day \in TestedDays(i)

(***************************************************************************)
(* A report depends on what was traded and not on the order in which it is *)
(* handed over, symbol after symbol or by time, unless two trades entered  *)
(* and ended together.  Its figures agree: its drawdown is the largest     *)
(* fall from any earlier balance, the starting capital among them, as long *)
(* as the account is not used up, and its factor is below one just when    *)
(* money was lost, whichever of money and percentages it goes by.          *)
(***************************************************************************)
Untied(list) ==
  \A i, j \in DOMAIN list :
    i # j => EndsBefore(list[i], list[j]) \/ EndsBefore(list[j], list[i])

Balance(trades, i) == StartingCapital(trades) + SumTo([j \in DOMAIN trades |-> trades[j].net], i)
Fall(trades, i, j) ==
  Quot((Balance(trades, i) - Balance(trades, j)) * Full, Balance(trades, i))

OrderIsNothing(list) ==
  Untied(list) =>
    \A p \in Bijection(DOMAIN list, DOMAIN list) :
      analyze([i \in DOMAIN list |-> list[p[i]]]) = analyze(list)

DrawdownIsLargestFall(list) ==
  LET trades == Chronological(list) n == Len(list)
  IN RealEconomics(trades) /\ (\A i \in 0 .. n : Balance(trades, i) > 0) =>
       analyze(list).drawdown =
         Max({Fall(trades, q[1], q[2]) : q \in {q \in (0 .. n) \X (0 .. n) : q[1] <= q[2]}})

FactorAgrees(list) ==
  LET r == analyze(list)
  IN r.wins + r.losses > 0 => (r.profitFactor >= Full <=> Sum(Nets(Chronological(list))) >= 0)

ReportSound ==
  tests # <<>> /\ Last(tests) # <<>> =>
    /\ OrderIsNothing(Last(tests))
    /\ DrawdownIsLargestFall(Last(tests))
    /\ FactorAgrees(Last(tests))

(***************************************************************************)
(* Resampling keeps the size of the list and what followed what in it: the *)
(* next trade of a resampled list is the next one of the list, except      *)
(* where two blocks meet.                                                  *)
(***************************************************************************)
KeepsBlocks(list, size, starts) ==
  LET ordered == Chronological(list) sample == Resampled(list, size, starts)
  IN \A i \in 1 .. Len(list) - 1 :
       i % size # 0 =>
         \E j \in 1 .. Len(list) - 1 : sample[i] = ordered[j] /\ sample[i + 1] = ordered[j + 1]

ResamplingKeepsBlocks ==
  tests # <<>> /\ Last(tests) # <<>> =>
    \A size \in 1 .. Len(Last(tests)) + 1 :
      \A starts \in [1 .. Blocks(Len(Last(tests)), size) -> BlockStarts(Len(Last(tests)), size)] :
        KeepsBlocks(Last(tests), size, starts)

(* What a choice rests on: the reports are sound, resampling draws what    *)
(* the list holds, and the best of the reports is chosen.                  *)
ChoiceSound == BestChosen /\ ReportSound /\ ResamplingKeepsBlocks
=============================================================================

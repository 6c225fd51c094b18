----------------------------- MODULE TradeReport -----------------------------
(***************************************************************************)
(* The statistics of a list of closed trades: TradeAnalyzer.analyze        *)
(* (application/services/trade_analyzer.py) and the resampling of          *)
(* BootstrapAnalyzer.  Ratios are scaled by Full and rounded toward zero;  *)
(* the square root in the Sharpe ratio is left out, its sign is kept.      *)
(***************************************************************************)
EXTENDS Sums, SequencesExt, FiniteSetsExt

CONSTANTS InitialBalance   \* what an account of the backtester starts with

Full == 10000
Infinite == 1000000000     \* float("inf")
StillOpen == -1            \* exit_time of a trade that has none

ClosedTrade == [entered : Int, exited : Int, quantity : Int, net : Int, pct : Int, risk : Int,
                r : Int, capital : Int, costs : Int]

Quot(a, b) == IF a >= 0 THEN a \div b ELSE -((-a) \div b)
SignOf(n) == IF n > 0 THEN 1 ELSE IF n < 0 THEN -1 ELSE 0
Sum(xs) == SumTo(xs, Len(xs))
Greatest(xs) == Max(Range(xs) \cup {0})

\* time a trade counts for, and the order of the list
EndOf(t) == IF t.exited # StillOpen THEN t.exited ELSE t.entered
EndsBefore(a, b) == EndOf(a) < EndOf(b) \/ (EndOf(a) = EndOf(b) /\ a.entered < b.entered)
Chronological(trades) ==
  StableSort(trades,
             {p \in (DOMAIN trades) \X (DOMAIN trades) : EndsBefore(trades[p[1]], trades[p[2]])})

\* Trades that know their size are judged by money, old ones by percentages.
RealEconomics(trades) == \E i \in DOMAIN trades : trades[i].quantity > 0 \/ trades[i].net # 0
NetOf(t, real) == IF real THEN t.net ELSE t.pct
Nets(trades) == [i \in DOMAIN trades |-> NetOf(trades[i], RealEconomics(trades))]

Of(xs, sign) == {i \in DOMAIN xs : SignOf(xs[i]) = sign}
Gain(xs, sign) == Sum([i \in DOMAIN xs |-> IF i \in Of(xs, sign) THEN xs[i] ELSE 0])

ProfitFactor(xs) ==
  LET won == Gain(xs, 1) lost == -Gain(xs, -1)
  IN IF lost > 0 THEN Quot(won * Full, lost) ELSE IF won > 0 THEN Infinite ELSE 0

Mean(xs) == Quot(Sum(xs), Len(xs))

\* a trade's share in the mean of percentages: it loses what it loses net of costs
Share(t, real) ==
  LET size == IF t.pct >= 0 THEN t.pct ELSE -t.pct
  IN IF NetOf(t, real) > 0 THEN t.pct ELSE IF NetOf(t, real) < 0 THEN -size ELSE 0

\* in units of risk, where the trades know theirs
Expectancy(trades) ==
  IF RealEconomics(trades) /\ \E i \in DOMAIN trades : trades[i].r # 0 \/ trades[i].risk > 0
  THEN Mean([i \in DOMAIN trades |-> trades[i].r])
  ELSE Mean([i \in DOMAIN trades |-> Share(trades[i], RealEconomics(trades))])

\* longest run of trades of one sign: a break-even trade ends every run
Longest(xs, sign) ==
  LET run[i \in 0 .. Len(xs)] ==
        IF i = 0 THEN 0 ELSE IF SignOf(xs[i]) = sign THEN run[i - 1] + 1 ELSE 0
  IN Max({run[i] : i \in 0 .. Len(xs)})

StartingCapital(trades) == IF trades[1].capital > 0 THEN trades[1].capital ELSE InitialBalance

\* Mutation of EquityCurve: the capital that the account started with is left out.
EquityCurveAfterFirst(trades) ==
  LET nets == [i \in DOMAIN trades |-> trades[i].net]
  IN [i \in DOMAIN trades |-> StartingCapital(trades) + SumTo(nets, i)]

EquityCurve(trades) ==
  LET nets == [i \in DOMAIN trades |-> trades[i].net]
  IN [i \in 1 .. Len(trades) + 1 |-> StartingCapital(trades) + SumTo(nets, i - 1)]

\* Percentages are only summed up; their curve begins with the first trade.
PercentCurve(trades) ==
  LET curve[i \in DOMAIN trades] == trades[i].pct + IF i = 1 THEN 0 ELSE curve[i - 1] IN curve

PeakTo(curve, i) == Max({curve[j] : j \in 1 .. i})
Falls(trades) ==
  IF RealEconomics(trades)
  THEN LET curve == EquityCurve(trades)
       IN [i \in DOMAIN curve |->
             Quot((PeakTo(curve, i) - curve[i]) * Full, Max({PeakTo(curve, i), 1}))]
  ELSE LET curve == PercentCurve(trades) IN [i \in DOMAIN curve |-> PeakTo(curve, i) - curve[i]]
MaxDrawdown(trades) == Greatest(Falls(trades))

\* Returns of the days from the first entry to the last exit, sign of their
\* mean over their deviation.  Trades of one day are compared by percentages.
Closed(trades) == SelectSeq(trades, LAMBDA t : t.exited # StillOpen)
DayResult(trades, capital, real, d) ==
  Sum([i \in DOMAIN trades |->
         IF trades[i].exited # d THEN 0
         ELSE IF real THEN trades[i].net
         ELSE Quot(trades[i].pct * capital, Full)])
DailyReturns(trades, capital, real) ==
  LET closed == Closed(trades)
      first == Min({closed[i].entered : i \in DOMAIN closed})
      last == Max({closed[i].exited : i \in DOMAIN closed})
      equity[d \in first .. last + 1] ==
        IF d = first THEN capital
        ELSE equity[d - 1] + DayResult(closed, capital, real, d - 1)
  IN [k \in 1 .. last - first + 1 |->
        LET d == first + k - 1
        IN IF equity[d] > 0
           THEN Quot(DayResult(closed, capital, real, d) * Full, equity[d]) ELSE 0]
Deviates(xs) == \E i \in DOMAIN xs : xs[i] # xs[1]
SharpeSign(trades) ==
  LET closed == Closed(trades)
      daily == DailyReturns(trades, StartingCapital(trades), RealEconomics(trades))
      pcts == [i \in DOMAIN closed |-> closed[i].pct]
      returns == IF closed = <<>> THEN <<>> ELSE IF Len(daily) > 1 THEN daily ELSE pcts
  IN IF returns # <<>> /\ Deviates(returns) THEN SignOf(Sum(returns)) ELSE 0

HoldingTime(trades) ==
  LET closed == Closed(trades)
  IN IF closed = <<>> THEN 0 ELSE Mean([i \in DOMAIN closed |-> closed[i].exited - closed[i].entered])

NoReport ==
  [total |-> 0, wins |-> 0, losses |-> 0, profitFactor |-> 0, expectancy |-> 0, profit |-> 0,
   streakWon |-> 0, streakLost |-> 0, drawdown |-> 0, sharpe |-> 0, holding |-> 0, costs |-> 0,
   valid |-> FALSE]

analyze(listed) ==
  IF listed = <<>> THEN NoReport
  ELSE LET trades == Chronological(listed)
           nets == Nets(trades)
           profit == IF RealEconomics(trades)
                     THEN Quot(Sum(nets) * Full, StartingCapital(trades)) ELSE Sum(nets)
       IN [total |-> Len(trades), wins |-> Cardinality(Of(nets, 1)), losses |-> Cardinality(Of(nets, -1)),
           profitFactor |-> ProfitFactor(nets), expectancy |-> Expectancy(trades),
           profit |-> profit,
           streakWon |-> Longest(nets, 1), streakLost |-> Longest(nets, -1),
           drawdown |-> MaxDrawdown(trades), sharpe |-> SharpeSign(trades),
           holding |-> HoldingTime(trades),
           costs |-> Mean([i \in DOMAIN trades |-> trades[i].costs]),
           valid |-> Len(trades) >= 2]

(***************************************************************************)
(* BootstrapAnalyzer.run: blocks of consecutive trades, from the places    *)
(* that the random generator names, put together and cut to the length of  *)
(* the list.                                                               *)
(***************************************************************************)
Blocks(n, size) == (n + size - 1) \div size
BlockStarts(n, size) == 0 .. Max({0, n - size})
\* Mutation of Resampled: a block begins one trade later than drawn.
ResampledLate(trades, size, starts) ==
  [i \in DOMAIN trades |->
     Chronological(trades)[Min({starts[((i - 1) \div size) + 1] + ((i - 1) % size) + 2, Len(trades)})]]

Resampled(trades, size, starts) ==
  LET ordered == Chronological(trades)
  IN [i \in DOMAIN trades |-> ordered[starts[((i - 1) \div size) + 1] + ((i - 1) % size) + 1]]
=============================================================================

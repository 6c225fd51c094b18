--------------------------- MODULE SignalBacktest ---------------------------
(***************************************************************************)
(* WalkForwardBacktester (application/services/backtester.py): every day   *)
(* of a window the signals are scored on the candles before it and judged  *)
(* by the price some days later, all from one series fetched beforehand.   *)
(* It scores with analyze_series, so the scores are those of Analysis on   *)
(* the series so far; the statistics are those of domain/scoring.          *)
(***************************************************************************)
EXTENDS Analysis

CONSTANTS Horizons,        \* in days
          MinHistory,      \* min_history_candles
          DayLength, BarLength,  \* of a day and of a candle
          ZoneOffset       \* how much earlier than in UTC a day begins here

VARIABLE scored   \* the analysis of every prefix of the series

bvars == <<vars, scored>>

(***************************************************************************)
(* _evaluate_all.  Candle i opens at OpenTime(i); a day is named by its    *)
(* number, and begins at local midnight.                                   *)
(***************************************************************************)
OpenTime(i) == (i - 1) * BarLength
DayStart(day) == day * DayLength - ZoneOffset
Days == 1 .. (Len(series) * BarLength) \div DayLength

\* Mutation of History: the candle that opens with the day is taken too.
HistoryInclusive(day) == Cardinality({i \in DOMAIN series : OpenTime(i) <= DayStart(day)})

\* number of candles that the score of a day is computed from
History(day) == Cardinality({i \in DOMAIN series : OpenTime(i) < DayStart(day)})

\* the last candle if the series ends earlier
FindCandle(target) == Min({i \in DOMAIN series : OpenTime(i) >= target} \cup {Len(series)})

RuleValues(signals) == {<<signals[i].name, signals[i].value>> :
                          i \in {j \in DOMAIN signals : signals[j].value # 0}}

Evaluation(day, horizon) ==
  LET n == History(day) found == FindCandle(DayStart(day) + horizon * DayLength)
  IN [day |-> day, horizon |-> horizon,
      value |-> scored[n].score.value, confidence |-> scored[n].score.confidence,
      rules |-> RuleValues(scored[n].signals),
      seen |-> n, found |-> found, at |-> series[n].close, after |-> series[found].close]

Evaluations ==
  {Evaluation(day, horizon) : day \in {d \in Days : History(d) >= MinHistory}, horizon \in Horizons}

(***************************************************************************)
(* EvaluationResult                                                        *)
(***************************************************************************)
actual_return(e) == IF e.at = 0 THEN 0 ELSE Quot((e.after - e.at) * Full, e.at)

\* Mutation of direction: the dead zone has an edge on one side.
direction_edged(e) == IF e.value >= 500 THEN 1 ELSE IF e.value < -500 THEN -1 ELSE 0

direction(e) == IF e.value > 500 THEN 1 ELSE IF e.value < -500 THEN -1 ELSE 0

Hit(e) == direction(e) # 0 /\ direction(e) * actual_return(e) > 0
Missed(e) == direction(e) # 0 /\ ~Hit(e)

(***************************************************************************)
(* _aggregate and the metrics it puts together                             *)
(***************************************************************************)
HitRate(es) ==
  LET hits == Cardinality({e \in es : Hit(e)}) misses == Cardinality({e \in es : Missed(e)})
  IN IF hits + misses = 0 THEN 0 ELSE Quot(hits * Full, hits + misses)

At(es, horizon) == {e \in es : e.horizon = horizon}
Going(es, dir) == {e \in es : direction(e) = dir}
AvgReturn(es) ==
  IF es = {} THEN 0 ELSE Quot(MapThenSumSet(actual_return, es), Cardinality(es))

RuleNames(es) == {v[1] : v \in UNION {e.rules : e \in es}}
ValueOf(e, name) ==
  IF \E v \in e.rules : v[1] = name THEN (CHOOSE v \in e.rules : v[1] = name)[2] ELSE 0
AbsValue(e, name) == Abs(ValueOf(e, name))

rule_metrics(es) ==
  [name \in RuleNames(es) |->
     LET votes == {e \in es : ValueOf(e, name) # 0}
     IN [n_votes |-> Cardinality(votes),
         hit_rate |-> [h \in Horizons |-> HitRate(At(votes, h))],
         avg_abs |-> Quot(MapThenSumSet(LAMBDA e : AbsValue(e, name), votes),
                          Cardinality(votes))]]

\* The votes of a rule over the days, in steps of 0.05; a rule that said
\* nothing counts as zero.  The square of the correlation, with its sign.
Votes(es, name) ==
  [d \in {e.day : e \in es} |-> Quot(ValueOf(CHOOSE e \in es : e.day = d, name), 500)]
Centered(votes) ==
  LET total == MapThenSumSet(LAMBDA d : votes[d], DOMAIN votes)
  IN [d \in DOMAIN votes |-> votes[d] - Quot(total, Cardinality(DOMAIN votes))]
Product(u, v) == MapThenSumSet(LAMBDA d : u[d] * v[d], DOMAIN u)
pearson(xs, ys) ==
  LET u == Centered(xs) v == Centered(ys)
      spread == Product(u, u) * Product(v, v)
  IN IF Cardinality(DOMAIN xs) < 2 \/ spread = 0 THEN 0
     ELSE Max({-100, Min({100, Quot(Product(u, v) * Abs(Product(u, v)) * 100, spread)})})
correlation(es) ==
  [pair \in RuleNames(es) \X RuleNames(es) |->
     IF pair[1] = pair[2] THEN 100 ELSE pearson(Votes(es, pair[1]), Votes(es, pair[2]))]

Buckets == <<<<0, 3000>>, <<3000, 5000>>, <<5000, 7000>>, <<7000, 10000>>>>
InBucket(es, b) ==
  {e \in es : Buckets[b][1] <= e.confidence /\ e.confidence < Buckets[b][2] /\ direction(e) # 0}
calibration(es) == [b \in DOMAIN Buckets |-> HitRate(InBucket(es, b))]

Aggregate(es) ==
  LET primary == At(es, 1)
  IN [n_evaluations |-> Cardinality(es),
      hit_rate |-> [h \in Horizons |-> HitRate(At(es, h))],
      avg_long |-> AvgReturn(Going(primary, 1)), n_long |-> Cardinality(Going(primary, 1)),
      avg_short |-> AvgReturn(Going(primary, -1)), n_short |-> Cardinality(Going(primary, -1)),
      avg_neutral |-> AvgReturn(Going(primary, 0)), n_neutral |-> Cardinality(Going(primary, 0)),
      rules |-> rule_metrics(es), correlation |-> correlation(es),
      calibration |-> calibration(primary)]

\* _build_recommendations: what the report advises
Advice(report) ==
  (IF 1 \in Horizons /\ report.hit_rate[1] >= 5200 THEN {} ELSE {<<"close to random">>})
  \cup {<<"combine", pair>> : pair \in {p \in DOMAIN report.correlation :
                                p[1] # p[2] /\ Abs(report.correlation[p]) > 49}}
  \cup {<<"informative", report.calibration[Len(Buckets)] > report.calibration[1] + 300>>}
  \cup {<<"remove", name>> : name \in {n \in DOMAIN report.rules :
          /\ report.rules[n].n_votes >= 20
          /\ 1 \notin Horizons \/ report.rules[n].hit_rate[1] < 4800}}

-----------------------------------------------------------------------------
BacktestInit == Init /\ scored = <<result>>
BacktestNext == CandleCloses /\ scored' = Append(scored, result')
BacktestSpec == BacktestInit /\ [][BacktestNext]_bvars

(***************************************************************************)
(* "We are scoring at the open of day": no candle that a score is computed *)
(* from closes later than the day begins, and its outcome is the price of  *)
(* a later candle, the first one that is old enough or, at the end of the  *)
(* series, the last.                                                       *)
(***************************************************************************)
EvaluationsSound ==
  \A e \in Evaluations :
    /\ OpenTime(e.seen) + BarLength <= DayStart(e.day)
    /\ e.seen <= e.found
    /\ OpenTime(e.found) >= DayStart(e.day) + e.horizon * DayLength \/ e.found = Len(series)
    /\ OpenTime(e.found) < DayStart(e.day) + e.horizon * DayLength + BarLength

MirroredEvaluation(e) ==
  [e EXCEPT !.value = -@, !.after = 2 * e.at - e.after, !.rules = {<<v[1], -v[2]>> : v \in @}]

(***************************************************************************)
(* The report has no side: in a market turned upside down, with every rule *)
(* saying the opposite, the hit rates, the calibration, the correlations   *)
(* and what is known of each rule are the same, and longs and shorts have  *)
(* changed places.  Every evaluation that took a side and is not certain   *)
(* of it counts in exactly one bucket of the calibration.                  *)
(***************************************************************************)
MetricsSound ==
  \A report \in {Aggregate(Evaluations)} :
    /\ Aggregate({MirroredEvaluation(e) : e \in Evaluations})
         = [report EXCEPT !.avg_long = -report.avg_short, !.avg_short = -report.avg_long,
                          !.n_long = report.n_short, !.n_short = report.n_long,
                          !.avg_neutral = -@]
    /\ \A e \in At(Evaluations, 1) :
         direction(e) # 0 /\ e.confidence < Full =>
           Cardinality({b \in DOMAIN Buckets : e \in InBucket(At(Evaluations, 1), b)}) = 1

(***************************************************************************)
(* What is reported was measured on candles of the past against candles of *)
(* the future, and without a preference for a side.                        *)
(***************************************************************************)
ReportHonest == EvaluationsSound /\ MetricsSound
=============================================================================

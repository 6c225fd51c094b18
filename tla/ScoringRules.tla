---------------------------- MODULE ScoringRules ----------------------------
(***************************************************************************)
(* The rules of domain/scoring/rules: each looks at a market state and     *)
(* returns one signal or none.  A rule is a record of its kind, its weight *)
(* and its periods; its thresholds are the defaults of its constructor.    *)
(*                                                                         *)
(* A weight, a value and a confidence are in thousandths (Unit), a gap or  *)
(* a change in hundredths of a per cent (Full is 100%).                    *)
(*                                                                         *)
(* A market state st has                                                   *)
(*   series, higher  the candles of the two timeframes (higher may be <<>>)*)
(*   lines           the computed indicators, by <<target, name, period>>  *)
(*   funding         the rate in millionths, or NaN                        *)
(*   interest        the open interest in base units, or NaN               *)
(*   history         the series of the historical context, oldest first    *)
(***************************************************************************)
EXTENDS Indicators

Unit == 1000
NoHistory == [funding |-> <<>>, interest |-> <<>>, ratio |-> <<>>,
              taker |-> <<>>, liquidations |-> <<>>]

\* get_indicator_value: the last entry of an indicator that was computed
Value(st, target, name, p) ==
  LET key == <<target, name, p>>
  IN IF key \notin DOMAIN st.lines \/ st.lines[key] = <<>> THEN NaN
     ELSE st.lines[key][Len(st.lines[key])]
Latest(st) == st.series[Len(st.series)]
Before(st) == st.series[Len(st.series) - 1]
Window(s, n) == SubSeq(s, Max({1, Len(s) - n + 1}), Len(s))

Capped(num, den) == Min({Unit, Quot(num * Unit, den)})
Change(from, to) == Quot((to - from) * Full, from)
Silent == {}
Says(r, category, value, confidence) ==
  {[name |-> r.kind, weight |-> r.weight, value |-> value,
    confidence |-> confidence, category |-> category]}

\* Mutation of Trend: the magnitude is not capped.
TrendUncapped(r, fast, slow) ==
  IF NaN \in {fast, slow} \/ slow = 0 \/ Abs(Change(slow, fast)) < 50 THEN Silent
  ELSE LET gap == Change(slow, fast)
       IN Says(r, "technical", Sgn(gap) * Quot(Abs(gap) * Unit, 500), Capped(Abs(gap), 200))

\* the body of the three trend rules
Trend(r, fast, slow) ==
  IF NaN \in {fast, slow} \/ slow = 0 \/ Abs(Change(slow, fast)) < 50 THEN Silent
  ELSE LET gap == Change(slow, fast)
       IN Says(r, "technical", Sgn(gap) * Capped(Abs(gap), 500), Capped(Abs(gap), 200))

ema_trend(r, st) ==
  Trend(r, Value(st, "primary", "ema", r.fast), Value(st, "primary", "ema", r.slow))
sma_trend(r, st) ==
  Trend(r, Value(st, "primary", "sma", r.fast), Value(st, "primary", "sma", r.slow))
higher_tf_trend(r, st) ==
  IF st.higher = <<>> THEN Silent
  ELSE Trend(r, Value(st, "higher", "ema", r.fast), Value(st, "higher", "ema", r.slow))

rsi_momentum(r, st) ==
  LET rsi == Value(st, "primary", "rsi", r.period)
  IN CASE rsi = NaN -> Silent
       [] rsi # NaN /\ (rsi > 7000 \/ rsi <= 3000) -> Says(r, "technical", 0, 400)
       [] rsi \in 5100 .. 7000 -> Says(r, "technical", Capped(rsi - 5100, 1900), 700)
       [] rsi \in 3001 .. 4900 -> Says(r, "technical", -Capped(4900 - rsi, 1900), 700)
       [] rsi \in 4901 .. 5099 -> Says(r, "technical", 0, 300)

macd_momentum(r, st) ==
  LET key == <<"primary", "histogram", r.period>>
      line == IF key \in DOMAIN st.lines THEN st.lines[key] ELSE <<>>
      n == Len(line)
  IN IF n < 2 \/ NaN \in {line[i] : i \in n - 1 .. n} \/ line[n] = 0 THEN Silent
     ELSE Says(r, "technical", Sgn(line[n]) * Unit,
               IF Sgn(line[n]) * (line[n] - line[n - 1]) > 0 THEN 800 ELSE 500)

bollinger_bands(r, st) ==
  LET middle == Value(st, "primary", "sma", r.period)
      std == Value(st, "primary", "band", r.period)
  IN IF NaN \in {middle, std} THEN Silent
     ELSE IF Abs(Latest(st).close - middle) <= 2 * std THEN Silent
     ELSE Says(r, "technical", Sgn(Latest(st).close - middle) * Unit, 800)

candle_breakout(r, st) ==
  IF Len(st.series) < 2 THEN Silent
  ELSE CASE Latest(st).close > Before(st).high -> Says(r, "technical", Unit, 800)
         [] Latest(st).close < Before(st).low -> Says(r, "technical", -Unit, 800)
         [] OTHER -> Silent

volatility_filter(r, st) ==
  LET atr == Value(st, "primary", "atr", r.period)
  IN IF atr = NaN THEN Silent
     ELSE Says(r, "technical", 0,
               IF 1000 * atr >= 3 * Latest(st).close /\ 20 * atr <= Latest(st).close
               THEN 900 ELSE 300)

\* the last candle but one, against the average that ends with it
volume_confirmation(r, st) ==
  LET key == <<"primary", "volume_ma", r.period>>
      line == IF key \in DOMAIN st.lines THEN st.lines[key] ELSE <<>>
      ma == line[Len(line) - 1]
      c == Before(st)
      ratio == Quot(c.volume * Unit, ma)
  IN IF Len(line) < 2 THEN Silent
     ELSE CASE ma = NaN \/ ma <= 0 -> Silent
            [] ma > 0 /\ ratio >= 1500 ->
                 Says(r, "technical",
                      (IF c.close >= c.open THEN 1 ELSE -1) * Min({Unit, ratio - Unit}), 800)
            [] ma > 0 /\ ratio <= 500 -> Says(r, "technical", 0, 500)
            [] ma > 0 /\ ratio \in 501 .. 1499 -> Silent

funding_rate(r, st) ==
  IF st.funding = NaN \/ Abs(st.funding) < 50 THEN Silent
  ELSE Says(r, "technical", -Sgn(st.funding) * Capped(Abs(st.funding), 500),
            Capped(Abs(st.funding), 250))

open_interest_confirmation(r, st) ==
  LET recent == Window(st.series, r.period)
      volume == SumFunction([i \in DOMAIN recent |-> recent[i].volume * recent[i].close])
      average == Quot(volume, Len(recent))
      ratio == Quot(st.interest * Latest(st).close * 100, average)
      moved == Latest(st).close # Before(st).close
  IN IF st.interest = NaN \/ Len(st.series) < 2 THEN Silent
     ELSE IF average <= 0 THEN Silent
     ELSE Says(r, "technical", 0,
               CASE ratio < 50 -> 250
                 [] ratio >= 300 -> IF moved THEN 900 ELSE 700
                 [] ratio \in 50 .. 299 -> IF moved /\ ratio < 100 THEN 450 ELSE 600)

(***************************************************************************)
(* The rules on the historical context: funding (hundred-thousandths),     *)
(* interest, the long/short ratio (hundredths), taker volumes and          *)
(* liquidations (in hundred thousand dollars).                             *)
(***************************************************************************)
funding_trend(r, st) ==
  LET s == Window(st.history.funding, 5)
      delta == s[Len(s)] - s[1]
  IN IF Len(s) < 2 THEN Silent
     ELSE IF Abs(delta) < 10 THEN Silent
     ELSE Says(r, "microstructure", -Sgn(delta) * Capped(Abs(delta), 30), Capped(Abs(delta), 30))

funding_extreme(r, st) ==
  LET s == st.history.funding
      rate == s[Len(s)]
  IN IF s = <<>> THEN Silent
     ELSE IF Abs(rate) < 50 THEN Silent
     ELSE Says(r, "microstructure", -Sgn(rate) * Capped(Abs(rate), 100),
               Min({Unit, Quot(Capped(Abs(rate), 100) * 12, 10)}))

\* how the interest and the price moved over the last six entries of each
InterestMove(st) ==
  LET s == Window(st.history.interest, 6)
  IN IF Len(s) < 2 THEN NaN ELSE IF s[1] <= 0 THEN NaN ELSE Change(s[1], s[Len(s)])
PriceMove(st) == Change(Window(st.series, 6)[1].open, Latest(st).close)

oi_expansion(r, st) ==
  LET move == InterestMove(st)
  IN IF move = NaN \/ move < 200 \/ Len(st.series) < 2 \/ Abs(PriceMove(st)) < 50 THEN Silent
     ELSE Says(r, "microstructure", Sgn(PriceMove(st)) * Capped(move, 600), Capped(move, 600))

oi_divergence(r, st) ==
  LET move == InterestMove(st)
  IN IF move = NaN \/ move > -150 \/ Len(st.series) < 2 \/ Abs(PriceMove(st)) < 50 THEN Silent
     ELSE Says(r, "microstructure", -Sgn(PriceMove(st)) * Capped(-move, 300), Capped(-move, 300))

ls_crowded(r, st) ==
  LET s == st.history.ratio
      ratio == s[Len(s)]
      strength == IF ratio > 250 THEN Capped(ratio - 250, 150) ELSE Capped(60 - ratio, 40)
  IN IF s = <<>> THEN Silent
     ELSE IF ratio \in 60 .. 250 THEN Silent
     ELSE Says(r, "microstructure", IF ratio > 250 THEN -strength ELSE strength,
               Min({Unit, strength + 200}))

taker_flow_imbalance(r, st) ==
  LET s == Window(st.history.taker, 12)
      buys == SumFunction([i \in DOMAIN s |-> s[i].buy])
      sells == SumFunction([i \in DOMAIN s |-> s[i].sell])
      imbalance == Quot((buys - sells) * Unit, buys + sells)
  IN IF Len(s) < 2 \/ buys + sells <= 0 THEN Silent
     ELSE IF Abs(imbalance) < 150 THEN Silent
     ELSE Says(r, "microstructure", Sgn(imbalance) * Capped(Abs(imbalance), 375),
               Capped(Abs(imbalance), 375))

liquidation_cascade(r, st) ==
  LET s == Window(st.history.liquidations, 3)
      longs == SumFunction([i \in DOMAIN s |-> s[i].long])
      shorts == SumFunction([i \in DOMAIN s |-> s[i].short])
      larger == Max({longs, shorts})
      strength == Capped(larger, 150)
  IN IF larger <= 50 \/ larger <= 3 * Min({longs, shorts}) THEN Silent
     ELSE Says(r, "microstructure", Sgn(longs - shorts) * strength, Min({Unit, strength + 300}))

ContextKinds == {"funding_trend", "funding_extreme", "oi_expansion", "oi_divergence",
                 "ls_crowded", "taker_flow_imbalance", "liquidation_cascade"}

evaluate(r, st) ==
  CASE r.kind = "ema_trend" -> ema_trend(r, st)
    [] r.kind = "sma_trend" -> sma_trend(r, st)
    [] r.kind = "higher_tf_trend" -> higher_tf_trend(r, st)
    [] r.kind = "rsi_momentum" -> rsi_momentum(r, st)
    [] r.kind = "macd_momentum" -> macd_momentum(r, st)
    [] r.kind = "bollinger_bands" -> bollinger_bands(r, st)
    [] r.kind = "candle_breakout" -> candle_breakout(r, st)
    [] r.kind = "volatility_filter" -> volatility_filter(r, st)
    [] r.kind = "volume_confirmation" -> volume_confirmation(r, st)
    [] r.kind = "funding_rate" -> funding_rate(r, st)
    [] r.kind = "open_interest_confirmation" -> open_interest_confirmation(r, st)
    [] r.kind = "funding_trend" -> funding_trend(r, st)
    [] r.kind = "funding_extreme" -> funding_extreme(r, st)
    [] r.kind = "oi_expansion" -> oi_expansion(r, st)
    [] r.kind = "oi_divergence" -> oi_divergence(r, st)
    [] r.kind = "ls_crowded" -> ls_crowded(r, st)
    [] r.kind = "taker_flow_imbalance" -> taker_flow_imbalance(r, st)
    [] r.kind = "liquidation_cascade" -> liquidation_cascade(r, st)

\* what a rule asks to be computed; the rule on the Bollinger bands asks nothing
required_indicators(r) ==
  CASE r.kind \in {"ema_trend", "sma_trend"} ->
         {<<"primary", IF r.kind = "ema_trend" THEN "ema" ELSE "sma", p>> : p \in {r.fast, r.slow}}
    [] r.kind = "higher_tf_trend" -> {<<"higher", "ema", p>> : p \in {r.fast, r.slow}}
    [] r.kind = "rsi_momentum" -> {<<"primary", "rsi", r.period>>}
    [] r.kind = "macd_momentum" -> {<<"primary", "histogram", r.period>>}
    [] r.kind = "volatility_filter" -> {<<"primary", "atr", r.period>>}
    [] r.kind = "volume_confirmation" -> {<<"primary", "volume_ma", r.period>>}
    [] OTHER -> {}
=============================================================================

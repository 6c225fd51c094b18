----------------------------- MODULE Indicators -----------------------------
(***************************************************************************)
(* The technical indicators of domain/indicators: a price series goes in,  *)
(* one array per output comes out, aligned candle by candle.  An entry is  *)
(* NaN where the indicator has no value.                                   *)
(*                                                                         *)
(* A price is a number of ticks.  Floats become integers: a quotient is    *)
(* rounded towards zero (Quot), an oscillator is in hundredths (RSI and    *)
(* ADX go from 0 to Full).                                                 *)
(***************************************************************************)
EXTENDS Integers, Sequences, FiniteSetsExt

NaN == -1000000000
Full == 10000

Abs(x) == IF x < 0 THEN -x ELSE x
Sgn(x) == IF x > 0 THEN 1 ELSE IF x < 0 THEN -1 ELSE 0
Quot(a, b) == Sgn(a) * (Abs(a) \div b)
Mean(s, i, j) == Quot(SumFunctionOnSet(s, i .. j), j - i + 1)

Closes(series) == [i \in DOMAIN series |-> series[i].close]

\* a - b, entry by entry; NaN is contagious
Minus(a, b) ==
  [i \in DOMAIN a |-> IF NaN \in {a[i], b[i]} THEN NaN ELSE a[i] - b[i]]

\* the entries from first on that are the seed of an average over p of them
Seed(s, p) == Min({i \in DOMAIN s : s[i] # NaN} \cup {Len(s) + 1}) + p - 1

sma_array(s, p) ==
  LET seed == Seed(s, p)
  IN [i \in DOMAIN s |-> IF i < seed \/ \E j \in seed .. i : s[j] = NaN
                         THEN NaN ELSE Mean(s, i - p + 1, i)]

(***************************************************************************)
(* The recursion of ema_array (num / den = 2 / (p + 1)) and wilder_array   *)
(* (1 / p): leading NaNs are skipped, the mean of the next p entries is    *)
(* the seed, and a NaN further on makes the recursion start again.         *)
(***************************************************************************)
Smoothed(s, p, num, den) ==
  LET seed == Seed(s, p)
      out[i \in DOMAIN s] ==
        IF i < seed \/ s[i] = NaN THEN NaN
        ELSE IF i = seed THEN IF \E j \in i - p + 1 .. i : s[j] = NaN
                              THEN NaN ELSE Mean(s, i - p + 1, i)
        ELSE LET last == out[i - 1]
             IN IF last = NaN THEN s[i] ELSE last + Quot(num * (s[i] - last), den)
  IN [i \in DOMAIN s |-> out[i]]

ema_array(s, p) == Smoothed(s, p, 2, p + 1)
wilder_array(s, p) == Smoothed(s, p, 1, p)

\* the integer square root, among numbers up to top
Root(n, top) == Max({r \in 0 .. top : r * r <= n})

rolling_std(s, p) ==
  [i \in DOMAIN s |->
     IF i < p THEN NaN
     ELSE LET window == i - p + 1 .. i
              squares == SumFunctionOnSet([j \in window |-> s[j] * s[j]], window)
              sum == SumFunctionOnSet(s, window)
          IN Quot(Root(p * squares - sum * sum, Max({s[j] : j \in window}) * p), p)]

roc_array(s, p) ==
  [i \in DOMAIN s |-> IF i <= p THEN NaN ELSE Quot((s[i] - s[i - p]) * Full, s[i - p])]

macd_line(s, fast, slow) == Minus(ema_array(s, fast), ema_array(s, slow))
macd_histogram(s, fast, slow, signal) ==
  LET line == macd_line(s, fast, slow) IN Minus(line, ema_array(line, signal))

(***************************************************************************)
(* RSI.  The first close has no delta, hence no value: delta i goes from   *)
(* close i to close i + 1 and its result belongs to candle i + 1.          *)
(***************************************************************************)
\* Mutation of Strength: a price that stands still has no strength at all.
StrengthUndefinedWhenFlat(gain, loss) ==
  IF NaN \in {gain, loss} \/ gain + loss = 0 THEN NaN
  ELSE Quot(Full * gain, gain + loss)

Strength(gain, loss) ==
  IF NaN \in {gain, loss} THEN NaN
  ELSE IF gain = 0 /\ loss = 0 THEN Full \div 2
  ELSE Quot(Full * gain, gain + loss)

rsi_array(s, p) ==
  LET deltas == [i \in 1 .. Len(s) - 1 |-> s[i + 1] - s[i]]
      gains == wilder_array([i \in DOMAIN deltas |-> Max({deltas[i], 0})], p)
      losses == wilder_array([i \in DOMAIN deltas |-> Max({-deltas[i], 0})], p)
  IN [i \in DOMAIN s |-> IF i = 1 THEN NaN ELSE Strength(gains[i - 1], losses[i - 1])]

\* np.roll(s, 1): the last entry comes round to the front
Previous(s, i) == s[IF i = 1 THEN Len(s) ELSE i - 1]

TrueRange(series, i) ==
  LET c == series[i] last == Previous(series, i).close
  IN IF i = 1 THEN c.high - c.low
     ELSE Max({c.high - c.low, Abs(c.high - last), Abs(c.low - last)})

atr_array(series, p) == wilder_array([i \in DOMAIN series |-> TrueRange(series, i)], p)

UpMove(series, i) == series[i].high - Previous(series, i).high
DownMove(series, i) == Previous(series, i).low - series[i].low

\* Mutation of Moves: the entry that np.roll brought round stays in place.
MovesRolled(series) ==
  [i \in DOMAIN series |->
     LET up == UpMove(series, i) down == DownMove(series, i)
     IN [range |-> TrueRange(series, i),
         up |-> IF up > down /\ up > 0 THEN up ELSE 0,
         down |-> IF down > up /\ down > 0 THEN down ELSE 0]]

\* the directional movement of every candle but the first
Moves(series) ==
  [i \in DOMAIN series |->
     LET up == UpMove(series, i) down == DownMove(series, i)
     IN IF i = 1 THEN [range |-> NaN, up |-> NaN, down |-> NaN]
        ELSE [range |-> TrueRange(series, i),
              up |-> IF up > down /\ up > 0 THEN up ELSE 0,
              down |-> IF down > up /\ down > 0 THEN down ELSE 0]]

\* 100 * |+DI - -DI| / (+DI + -DI), where both quotients exist
Directional(range, up, down) ==
  IF NaN \in {range, up, down} \/ range = 0 \/ up + down = 0 THEN NaN
  ELSE Quot(Full * Abs(up - down), up + down)

adx_array(series, p) ==
  LET moves == Moves(series)
      range == wilder_array([i \in DOMAIN moves |-> moves[i].range], p)
      up == wilder_array([i \in DOMAIN moves |-> moves[i].up], p)
      down == wilder_array([i \in DOMAIN moves |-> moves[i].down], p)
  IN wilder_array([i \in DOMAIN moves |-> Directional(range[i], up[i], down[i])], p)

(***************************************************************************)
(* compute_indicators: the output of an indicator, by name.                *)
(* compute_indicators builds each from the registry under the name of its  *)
(* specification; a specification here is <<name, period>>, and the ones   *)
(* with several outputs are one per output.                                *)
(***************************************************************************)
compute(series, name, p) ==
  LET s == Closes(series)
  IN CASE name = "sma" -> sma_array(s, p)
       [] name = "ema" -> ema_array(s, p)
       [] name = "rsi" -> rsi_array(s, p)
       [] name = "roc" -> roc_array(s, p)
       [] name = "atr" -> atr_array(series, p)
       [] name = "adx" -> adx_array(series, p)
       [] name = "histogram" -> macd_histogram(s, p, p + 1, p)
       [] name = "volume_ma" -> sma_array([i \in DOMAIN series |-> series[i].volume], p)
       [] name = "band" -> rolling_std(s, p)
=============================================================================

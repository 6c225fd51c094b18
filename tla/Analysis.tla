------------------------------ MODULE Analysis ------------------------------
(***************************************************************************)
(* The analysis of one symbol while its candles close: analyze_series      *)
(* (application/services/analysis.py), the regime filter, the trade setup  *)
(* builder and the sizing that TradingPipeline.evaluate strings together.  *)
(* A candle closes in every step and the whole series is analysed anew, as *)
(* the backtesters and the paper trader do.                                *)
(***************************************************************************)
EXTENDS Scoring

CONSTANTS Rules,        \* the configured rules, in order
          Regime,       \* the regime filter: its periods, thresholds and allowed regimes
          Setups,       \* the setup builder: atr period, stop multiple in halves, confidence
          Markets,      \* what is known beside the candles: funding, interest, history, ...
          Shapes,       \* the candles that may come next, relative to the last close
          FirstClose, MaxCandles

VARIABLES series,  \* the closed candles
          market,  \* an element of Markets
          result   \* what the last analysis returned

vars == <<series, market, result>>

Bar(last, shape) ==
  [open |-> last, close |-> last + shape.move, volume |-> shape.volume,
   high |-> Max({last, last + shape.move}) + shape.wick,
   low |-> Min({last, last + shape.move}) - shape.wick]

(***************************************************************************)
(* analyze_series.  Every declared indicator is computed once; those of    *)
(* the higher timeframe only if its candles are there.                     *)
(***************************************************************************)
Specs ==
  UNION {required_indicators(Rules[i]) : i \in DOMAIN Rules}
  \cup {<<"primary", "atr", Setups.atr>>}
  \cup (IF Regime.enabled
        THEN {<<"primary", "adx", Regime.adx>>, <<"primary", "atr", Regime.atr>>,
              <<"primary", "ema", Regime.fast>>, <<"primary", "ema", Regime.slow>>}
        ELSE {})

Lines(candles, higher) ==
  [spec \in {sp \in Specs : sp[1] = "primary" \/ higher # <<>>} |->
     compute(IF spec[1] = "primary" THEN candles ELSE higher, spec[2], spec[3])]

\* The gathered history is handed over as context, where no rule looks for it.
MarketState(candles, m) ==
  [series |-> candles, higher |-> m.higher, lines |-> Lines(candles, m.higher),
   funding |-> m.funding, interest |-> m.interest, history |-> NoHistory]

\* the state that a rule on the historical context is written for
Informed(st, m) == [st EXCEPT !.history = m.history]

(***************************************************************************)
(* classify: a comparison with a NaN is false, whichever way it goes.      *)
(***************************************************************************)
classify(st) ==
  LET atr == Value(st, "primary", "atr", Regime.atr)
      adx == Value(st, "primary", "adx", Regime.adx)
      fast == Value(st, "primary", "ema", Regime.fast)
      slow == Value(st, "primary", "ema", Regime.slow)
  IN IF ~Regime.enabled THEN "UNKNOWN"
     ELSE IF atr # NaN /\ Quot(atr * Full, Latest(st).close) > Regime.crash THEN "VOLATILE_CRASH"
     ELSE IF adx # NaN /\ adx < Regime.chop THEN "CHOP"
     ELSE IF NaN \notin {fast, slow} /\ fast > slow THEN "BULL_TREND"
     ELSE "BEAR_TREND"

AllowedRegime(bias, regime) ==
  ~Regime.enabled \/ regime \in (IF bias = "BULLISH" THEN Regime.long ELSE Regime.short)

\* a long in a bull trend needs the higher timeframe not to point down
VetoedByHigher(bias, regime, signals) ==
  /\ bias = "BULLISH" /\ regime = "BULL_TREND" /\ Regime.htf
  /\ \E i \in DOMAIN signals : signals[i].name = "higher_tf_trend" /\ signals[i].value < 0

None == <<>>

\* Mutation of build_setup: the target of a short may lie below zero.
build_setup_unbounded(st, score, signals) ==
  LET bias == Bias(score)
      side == IF bias = "BULLISH" THEN 1 ELSE -1
      atr == Value(st, "primary", "atr", Setups.atr)
      entry == Latest(st).close
      risk == Quot(Setups.multiple * atr, 2)
  IN IF \/ bias = "NEUTRAL" \/ score.confidence < Setups.confidence
        \/ ~AllowedRegime(bias, classify(st)) \/ VetoedByHigher(bias, classify(st), signals)
        \/ atr = NaN \/ atr <= 0 \/ risk >= entry
     THEN None
     ELSE [direction |-> bias, entry |-> entry, stop |-> entry - side * risk,
           target |-> entry + side * Quot(3 * risk, 2), second |-> entry + side * 3 * risk,
           atr |-> atr]

build_setup(st, score, signals) ==
  LET bias == Bias(score)
      side == IF bias = "BULLISH" THEN 1 ELSE -1
      atr == Value(st, "primary", "atr", Setups.atr)
      entry == Latest(st).close
      risk == Quot(Setups.multiple * atr, 2)
  IN IF \/ bias = "NEUTRAL" \/ score.confidence < Setups.confidence
        \/ ~AllowedRegime(bias, classify(st)) \/ VetoedByHigher(bias, classify(st), signals)
        \/ atr = NaN \/ atr <= 0 \/ risk >= entry \/ entry + side * 3 * risk <= 0
     THEN None
     ELSE [direction |-> bias, entry |-> entry, stop |-> entry - side * risk,
           target |-> entry + side * Quot(3 * risk, 2), second |-> entry + side * 3 * risk,
           atr |-> atr]

\* the three sizing strategies: the quote amount for a setup
calculate_size(setup, decision) ==
  LET distance == IF decision.strategy = "atr" THEN setup.atr ELSE Abs(setup.entry - setup.stop)
      wanted == IF decision.strategy = "fixed" THEN decision.amount
                ELSE IF decision.budget <= 0 \/ distance = 0 THEN 0
                ELSE Quot(decision.budget * setup.entry, distance)
  IN IF decision.cap > 0 THEN Min({wanted, decision.cap}) ELSE wanted

\* TradingPipeline.evaluate, after the risk manager allowed the trade: the
\* state is scored, a setup is built from the score, and its size computed.
Sized(setup, decision) == IF setup = None THEN 0 ELSE calculate_size(setup, decision)
Proposed(st, signals, score, decision) ==
  LET setup == build_setup(st, score, signals)
  IN [signals |-> signals, score |-> score, regime |-> classify(st), setup |-> setup,
      size |-> Sized(setup, decision)]
ScoredState(st, signals, decision) ==
  Proposed(st, signals, aggregate(signals, MinConfidence), decision)
AnalysedState(st, decision) == ScoredState(st, evaluate_signals(Rules, st), decision)
Evaluated(candles, m) == AnalysedState(MarketState(candles, m), m.decision)

Init ==
  /\ market \in Markets
  /\ \E shape \in Shapes : series = <<Bar(FirstClose, shape)>>
  /\ result = Evaluated(series, market)

CandleCloses ==
  /\ Len(series) < MaxCandles
  /\ \E shape \in Shapes :
       LET bar == Bar(series[Len(series)].close, shape)
       IN bar.low > 0 /\ series' = Append(series, bar)
  /\ result' = Evaluated(series', market)
  /\ UNCHANGED market

Next == CandleCloses
Spec == Init /\ [][Next]_vars

-----------------------------------------------------------------------------
(***************************************************************************)
(* No repainting: what an indicator says of a closed candle stays the same *)
(* when later candles arrive.  The arrays are built with rolled copies,    *)
(* whose first entry is the last candle of the series.                     *)
(***************************************************************************)
NoRepaint ==
  [][\A old \in {Lines(series, <<>>)} : \A new \in {Lines(series', <<>>)} :
       \A spec \in DOMAIN old : SubSeq(new[spec], 1, Len(series)) = old[spec]]_vars

\* the first candle that an indicator has a value for
WarmUp(spec) ==
  CASE spec[2] = "rsi" -> spec[3] + 1
    [] spec[2] = "histogram" -> 2 * spec[3]
    [] OTHER -> spec[3]

(***************************************************************************)
(* On every price path, the flat one too, an indicator has a value from    *)
(* the end of its warm-up on; the ADX, which needs some movement, keeps    *)
(* having one, so that no NaN restarts its smoothing in mid-series.  The   *)
(* values stay in their range: averages of closes between the extreme      *)
(* closes, oscillators between 0 and 100, true ranges not negative.        *)
(***************************************************************************)
LinesSound ==
  LET closes == {series[i].close : i \in DOMAIN series}
  IN \A lines \in {Lines(series, <<>>)} : \A spec \in DOMAIN lines : \A i \in DOMAIN series :
       /\ IF spec[2] = "adx" THEN i > 1 /\ lines[spec][i - 1] # NaN => lines[spec][i] # NaN
          ELSE lines[spec][i] # NaN <=> i >= WarmUp(spec)
       /\ lines[spec][i] # NaN =>
            CASE spec[2] \in {"sma", "ema"} -> lines[spec][i] \in Min(closes) .. Max(closes)
              [] spec[2] \in {"rsi", "adx"} -> lines[spec][i] \in 0 .. Full
              [] spec[2] \in {"atr", "volume_ma"} -> lines[spec][i] >= 0
              [] OTHER -> TRUE

(***************************************************************************)
(* The engine swallows the exception of a rule, so a signal out of its     *)
(* range would make the rule fall silent unnoticed, and most of all when   *)
(* it has most to say: no rule ever builds one, on the state that is       *)
(* analysed and on the one that the context rules are written for.         *)
(***************************************************************************)
SignalsSound ==
  \A st \in {MarketState(series, market)} : \A known \in {st, Informed(st, market)} :
    \A i \in DOMAIN Rules : \A sig \in evaluate(Rules[i], known) : Representable(sig)

Mirrored(signals) == [i \in DOMAIN signals |-> [signals[i] EXCEPT !.value = -@]]

(***************************************************************************)
(* The aggregation has no side: turning every signal round turns the score *)
(* round and leaves confidence and confluence alone, and the score is one  *)
(* that can be built (the exception of Score is not caught).               *)
(***************************************************************************)
ScoreSound ==
  \A st \in {MarketState(series, market)} : \A known \in {st, Informed(st, market)} :
    \A signals \in {evaluate_signals(Rules, known)} :
      \A score \in {aggregate(signals, MinConfidence)} :
        /\ ScoreRepresentable(score)
        /\ aggregate(Mirrored(signals), MinConfidence)
             = [score EXCEPT !.value = -@, !.long = score.short, !.short = score.long]

(***************************************************************************)
(* A setup can be built (TradeSetup raises when its prices are not in      *)
(* order or not positive, outside any handler), and its size risks no more *)
(* than the budget and spends no more than the cap of the risk decision.   *)
(***************************************************************************)
SetupSound ==
  LET s == result.setup d == market.decision
  IN s # None =>
       /\ IF s.direction = "BULLISH"
          THEN 0 < s.stop /\ s.stop < s.entry /\ s.entry < s.target /\ s.target < s.second
          ELSE s.stop > s.entry /\ s.entry > s.target /\ s.target > s.second /\ s.second > 0
       /\ d.cap > 0 => result.size <= d.cap
       /\ d.strategy = "risk" => result.size * Abs(s.entry - s.stop) <= d.budget * s.entry

(***************************************************************************)
(* Whatever is analysed, nothing that the rules are built on or build is   *)
(* out of its range: neither the lines they read nor the signals they      *)
(* give.                                                                   *)
(***************************************************************************)
RulesSound == LinesSound /\ SignalsSound

(***************************************************************************)
(* Neither the score nor the setup raises outside of a handler, whatever   *)
(* the signals, the context and the decision about risk.                   *)
(***************************************************************************)
OutcomeSound == ScoreSound /\ SetupSound

(* The chain from candles to a set-up, rule by rule and as a whole         *)
(* (scoring/engine.py:39, trade_setup_builder.py:52).                      *)
AnalysisSound == RulesSound /\ OutcomeSound
=============================================================================

----------------------------- MODULE MCAnalysis -----------------------------
(* The analysis with periods of two or three candles in the place of 9 to  *)
(* 50, on all price paths of a few shapes.                                 *)
EXTENDS SignalBacktest

Rule(kind, weight) == [kind |-> kind, weight |-> weight, fast |-> 2, slow |-> 3, period |-> 2]

TheRules ==
  << Rule("ema_trend", 250), Rule("higher_tf_trend", 300), Rule("rsi_momentum", 200),
     Rule("volume_confirmation", 200), Rule("volatility_filter", 200), Rule("funding_rate", 150),
     Rule("sma_trend", 100), Rule("macd_momentum", 250), Rule("bollinger_bands", 100),
     Rule("candle_breakout", 200), Rule("open_interest_confirmation", 100),
     Rule("funding_trend", 150), Rule("funding_extreme", 200), Rule("oi_expansion", 200),
     Rule("oi_divergence", 150), Rule("ls_crowded", 150), Rule("taker_flow_imbalance", 200),
     Rule("liquidation_cascade", 250) >>

TheRegime ==
  [enabled |-> TRUE, adx |-> 2, atr |-> 2, fast |-> 2, slow |-> 3, crash |-> 6000, chop |-> 3500,
   long |-> {"BULL_TREND", "UNKNOWN"}, short |-> {"BEAR_TREND", "UNKNOWN"}, htf |-> TRUE]

TheSetups == [atr |-> 2, multiple |-> 3, confidence |-> 500]

\* stand still, rise, fall a lot, an inside bar after a wide one
TheShapes ==
  { [move |-> 0, wick |-> 0, volume |-> 10], [move |-> 2400, wick |-> 100, volume |-> 30],
    [move |-> -3000, wick |-> 400, volume |-> 40], [move |-> -40, wick |-> 10, volume |-> 1] }

Day(close) == [open |-> close, close |-> close, high |-> close, low |-> close, volume |-> 1]
Up == [funding |-> <<10, 60, 200>>, interest |-> <<100, 101, 130>>, ratio |-> <<300>>,
       taker |-> <<[buy |-> 9, sell |-> 1], [buy |-> 9, sell |-> 2]>>,
       liquidations |-> <<[long |-> 10, short |-> 400]>>]
Down == [funding |-> <<10, -60>>, interest |-> <<100, 80>>, ratio |-> <<100, 20>>,
         taker |-> <<[buy |-> 1, sell |-> 3], [buy |-> 5, sell |-> 6]>>,
         liquidations |-> <<[long |-> 60, short |-> 0], [long |-> 70, short |-> 0]>>]

Knowing(funding, interest, history, higher, decision) ==
  [funding |-> funding, interest |-> interest, history |-> history, higher |-> higher,
   decision |-> decision]
Decision(strategy, budget, cap) ==
  [strategy |-> strategy, budget |-> budget, cap |-> cap, amount |-> 500]

TheMarkets ==
  { Knowing(NaN, NaN, NoHistory, <<>>, Decision("risk", 100, 0)),
    Knowing(600, 40, Up, <<Day(9000), Day(9500), Day(9900)>>, Decision("risk", 100, 400)),
    Knowing(-70, 5, Down, <<Day(9900), Day(9500), Day(9000)>>, Decision("atr", 100, 200)),
    Knowing(20, 100, [Down EXCEPT !.ratio = <<>>, !.interest = <<0, 10>>], <<Day(9000)>>,
            Decision("fixed", 0, 300)) }
=============================================================================

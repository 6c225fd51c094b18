----------------------------- MODULE MCTrading ------------------------------
(***************************************************************************)
(* Small instances of PaperTrading: two symbols, two or three candles of   *)
(* time, one kind of signal, and every failure the poller meets.           *)
(***************************************************************************)
EXTENDS PaperTrading

Bar(open, high, low, close) == [open |-> open, high |-> high, low |-> low, close |-> close]
Ask(direction, entry, stop, target) ==
    [direction |-> direction, entry |-> entry, quantity |-> 1, stop |-> stop, target |-> target]

Long == Ask("BULLISH", 4, 2, 7)
MCSetups == {Long}
MCCandles == {Bar(5, 5, 3, 4), Bar(1, 2, 1, 2), Bar(6, 7, 4, 7)}

TradingPolicy ==
    [maxTrades |-> 3, baseRisk |-> 3, maxExposure |-> 10, circuitBreaker |-> FALSE,
     tiers |-> {}, legacyThreshold |-> 1, legacyPenalty |-> 5, heat |-> FALSE,
     maxHeat |-> 10, minBudget |-> 0,
     shorts |-> [enabled |-> FALSE, maximum |-> 1, inDrawdown |-> TRUE, multiplier |-> 10]]

NoHistory == {[s \in Symbols |-> [t \in {} |-> 0]]}
RuinousHistory == {[s \in Symbols |-> [t \in {5} |-> 70]]}
MCHistories == NoHistory \cup RuinousHistory

Behind == {-1}
=============================================================================

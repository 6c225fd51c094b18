------------------------------ MODULE MCPaper -------------------------------
(***************************************************************************)
(* Small instances of PaperExecution.  Prices run from 1 to 11; one candle *)
(* per case that the batch tells apart.                                    *)
(***************************************************************************)
EXTENDS PaperExecution

Bar(open, high, low, close) == [open |-> open, high |-> high, low |-> low, close |-> close]
Ask(direction, entry, stop, target) ==
    [direction |-> direction, entry |-> entry, quantity |-> 1, stop |-> stop, target |-> target]

Dip == Bar(5, 5, 3, 4)           \* fills a long inside
Wild == Bar(4, 8, 2, 4)          \* touches stops and targets alike
GapDown == Bar(1, 2, 1, 2)       \* opens past every long stop
GapUp == Bar(7, 8, 6, 7)         \* opens past every short stop
Recover == Bar(6, 7, 4, 7)       \* fills a long inside, closes at its target
Spike == Bar(5, 11, 5, 11)       \* rises past twice the entry of a short
Leap == Bar(11, 11, 9, 9)        \* opens past it

Long == Ask("BULLISH", 4, 2, 7)
Short == Ask("BEARISH", 5, 7, 2)

MCSetups == {Long, Short}
MCCandles == {Dip, Wild, GapDown, GapUp, Recover, Spike, Leap}

NoShortLimit == [enabled |-> FALSE, maximum |-> 1, inDrawdown |-> TRUE, multiplier |-> 10]

\* The command line's policy: no breaker, no heat guard, no short limits.
DefaultPolicy ==
    [maxTrades |-> 3, baseRisk |-> 3, maxExposure |-> 10, circuitBreaker |-> FALSE,
     tiers |-> {}, legacyThreshold |-> 1, legacyPenalty |-> 5, heat |-> FALSE,
     maxHeat |-> 10, minBudget |-> 0, shorts |-> NoShortLimit]

NoHistory == {[s \in Symbols |-> [t \in {} |-> 0]]}

\* Settlements at the opens (2, 4) and inside the candles (3, 5), debits and
\* credits at once, and one that no account can pay.
Mixed == [s \in Symbols |-> IF s = 1 THEN [t \in {3, 5} |-> 6] ELSE [t \in {4, 5, 6} |-> -4]]
Ruinous == [s \in Symbols |-> IF s = 1 THEN [t \in {4, 7} |-> 35] ELSE [t \in {4} |-> 3]]
MCHistories == NoHistory \cup {Mixed, Ruinous}

-----------------------------------------------------------------------------
\* MCPolicy: three symbols, two slots, one short, a drawdown breaker with two
\* tiers and the heat guard.
StrictPolicy ==
    [maxTrades |-> 2, baseRisk |-> 3, maxExposure |-> 10, circuitBreaker |-> TRUE,
     tiers |-> {[threshold |-> 1, multiplier |-> 7, halt |-> FALSE],
                [threshold |-> 3, multiplier |-> 5, halt |-> TRUE]},
     legacyThreshold |-> 1, legacyPenalty |-> 5, heat |-> TRUE, maxHeat |-> 4,
     minBudget |-> 10,
     shorts |-> [enabled |-> TRUE, maximum |-> 1, inDrawdown |-> FALSE, multiplier |-> 8]]

\* Three of the smaller orders fit the capital, two of the larger do not.
MCPolicySetups == {Long, Short, [Long EXCEPT !.quantity = 2]}
MCPolicyCandles == {Dip, GapDown, GapUp}
=============================================================================

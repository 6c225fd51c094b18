------------------------------ MODULE Scoring -------------------------------
(***************************************************************************)
(* The scoring engine of domain/scoring: every rule is asked for a signal, *)
(* and the signals are aggregated into one score.                          *)
(***************************************************************************)
EXTENDS ScoringRules

\* The settings of the aggregation: MinConfidence, and the confluence terms.
CONSTANT MinConfidence

Bonus == 200
Penalty == 150
MaxBoost == 400

\* what Signal.__post_init__ accepts
Representable(sig) ==
  /\ sig.weight \in 0 .. Unit
  /\ sig.value \in -Unit .. Unit
  /\ sig.confidence \in 0 .. Unit

\* evaluate_signals: a rule whose evaluation raises is skipped
evaluate_signals(rules, st) ==
  LET said == [i \in DOMAIN rules |-> {sig \in evaluate(rules[i], st) : Representable(sig)}]
  IN [i \in {j \in DOMAIN rules : said[j] # {}} |-> CHOOSE sig \in said[i] : TRUE]

Products(signals, I) == SumFunctionOnSet([i \in I |-> signals[i].value * signals[i].weight], I)
Weights(signals, I) == SumFunctionOnSet([i \in I |-> signals[i].weight], I)

NoScore(n) == [value |-> 0, confidence |-> 0, long |-> 0, short |-> 0,
               signals |-> n, confluence |-> "neutral"]

\* Mutation of DirectionalWeight: the weight of the bullish signals only.
DirectionalBullish(signals) ==
  Weights(signals, {i \in DOMAIN signals : signals[i].value > 0})

\* the weight of the signals that point somewhere
DirectionalWeight(signals) ==
  Weights(signals, {i \in DOMAIN signals : signals[i].value # 0})

\* cat_dirs: where the signals of a category point together
CategoryDirection(signals, category) ==
  LET value == Products(signals, {i \in DOMAIN signals : signals[i].category = category})
  IN IF Abs(value) > Unit THEN Sgn(value) ELSE 0

\* the confluence of the categories, dirs, with the direction of the score
Confluence(dirs, dir) ==
  LET active == {c \in DOMAIN dirs : dirs[c] # 0}
      for == Cardinality({c \in active : dirs[c] = dir})
      against == Cardinality({c \in active : dirs[c] = -dir})
  IN [for |-> for, against |-> against,
      state |-> IF dir = 0 \/ Cardinality(active) < 2 THEN "unaligned"
                ELSE IF against > 0 THEN "conflicting"
                ELSE IF for > 1 THEN "confirmed" ELSE "unaligned"]

ScoreOf(n, base, long, short, confluence) ==
  [value |-> long - short, long |-> long, short |-> short,
   signals |-> n, confluence |-> confluence.state,
   confidence |->
     CASE confluence.state = "conflicting" -> Max({0, base - Penalty * confluence.against})
       [] confluence.state = "confirmed" ->
            Min({Unit, base + Min({MaxBoost, Bonus * (confluence.for - 1)})})
       [] confluence.state = "unaligned" -> base]

\* the score of the signals that are confident enough
Combined(kept, directional) ==
  LET used == DOMAIN kept
      total == Weights(kept, used)
      base == Quot(SumFunctionOnSet([i \in used |-> kept[i].weight * kept[i].confidence], used),
                   total)
      Side(s) == IF directional = 0 THEN 0
                 ELSE Quot(s * Products(kept, {i \in used : s * kept[i].value > 0}), directional)
      dirs == [c \in {kept[i].category : i \in used} |-> CategoryDirection(kept, c)]
  IN IF used = {} \/ total = 0 THEN NoScore(Cardinality(used))
     ELSE ScoreOf(Cardinality(used), base, Side(1), Side(-1),
                  Confluence(dirs, Sgn(Side(1) - Side(-1))))

\* aggregate, for signals given as a function
aggregate(signals, min) ==
  LET kept == [i \in {j \in DOMAIN signals : signals[j].confidence >= min} |-> signals[i]]
  IN Combined(kept, DirectionalWeight(kept))

\* Score.bias
Bias(score) ==
  IF score.value > 200 THEN "BULLISH" ELSE IF score.value < -200 THEN "BEARISH" ELSE "NEUTRAL"

\* what Score.__post_init__ accepts
ScoreRepresentable(score) ==
  /\ score.value \in -Unit .. Unit
  /\ score.confidence \in 0 .. Unit
  /\ score.long >= 0 /\ score.short >= 0 /\ score.signals >= 0
=============================================================================

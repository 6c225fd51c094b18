----------------------------- MODULE RiskPolicy -----------------------------
(***************************************************************************)
(* RiskManager.evaluate_trade (application/services/risk/manager.py) under *)
(* a PortfolioRiskPolicy (domain/risk.py), and the check the paper trader  *)
(* makes with it, PaperExecutionEngine._risk_allows.                       *)
(*                                                                         *)
(* The risk view of the portfolio is its open positions followed by one    *)
(* placeholder per reserved order; it is kept here as two books, because a *)
(* symbol may be in both.  Fractions and percentages are numbers of which  *)
(* Whole make one; a budget is a multiple of 1 / Whole^3 of a unit of      *)
(* cash, so that every comparison is between integers.  The tolerance of   *)
(* 1e-8 that the code allows for floating point is left out.               *)
(***************************************************************************)
EXTENDS Portfolio

CONSTANTS
    Whole,     \* parts in one whole
    Policy     \* the PortfolioRiskPolicy

Fraction == 0 .. Whole

PolicyType ==
    [maxTrades : Nat \ {0}, baseRisk : Nat \ {0}, maxExposure : Nat \ {0},
     circuitBreaker : BOOLEAN,
     tiers : SUBSET [threshold : Nat, multiplier : Fraction, halt : BOOLEAN],
     legacyThreshold : Nat, legacyPenalty : Fraction,
     heat : BOOLEAN, maxHeat : Nat \ {0}, minBudget : Nat,
     shorts : [enabled : BOOLEAN, maximum : Nat \ {0}, inDrawdown : BOOLEAN,
               multiplier : Fraction]]

ASSUME PolicyAssumption ==
    /\ Whole \in Nat \ {0}
    /\ Policy \in PolicyType
    /\ \A t, u \in Policy.tiers : t.threshold = u.threshold => t = u

-----------------------------------------------------------------------------
(* The risk view                                                           *)

\* abs(entry - stop) * quantity, of a position or an order
MaxRisk(o) ==
    Unit * (o.quantity * (IF o.entry > o.stop THEN o.entry - o.stop ELSE o.stop - o.entry))

Trades(book) == CountTo(LAMBDA s : book[s] # None, NumSymbols)

Shorts(book) ==
    CountTo(LAMBDA s : book[s] # None /\ book[s].direction = "BEARISH", NumSymbols)

ViewExposure(reserved) == Exposure(positions) + Exposure(reserved)

ViewRisk(reserved) == SumOver(MaxRisk, positions) + SumOver(MaxRisk, reserved)

-----------------------------------------------------------------------------
(* Drawdown                                                                *)

\* _current_drawdown raises the recorded peak to the present equity.
CurrentPeak(peak) == IF total > peak THEN total ELSE peak

DrawdownReaches(threshold, peak) ==
    (CurrentPeak(peak) - total) * Whole >= threshold * CurrentPeak(peak)

TieredBreaker == Policy.circuitBreaker /\ Policy.tiers # {}

ReachedTiers(peak) == {t \in Policy.tiers : DrawdownReaches(t.threshold, peak)}

StrictestReached(peak) ==
    CHOOSE t \in ReachedTiers(peak) : \A u \in ReachedTiers(peak) : t.threshold >= u.threshold

TradingHalted(peak) ==
    /\ TieredBreaker
    /\ ReachedTiers(peak) # {}
    /\ \/ StrictestReached(peak).halt
       \/ StrictestReached(peak).multiplier = 0

Penalty(peak) ==
    IF TieredBreaker
    THEN IF ReachedTiers(peak) = {} THEN Whole ELSE StrictestReached(peak).multiplier
    ELSE IF DrawdownReaches(Policy.legacyThreshold, peak) THEN Policy.legacyPenalty ELSE Whole

\* The mildest threshold that counts as being in drawdown, for shorts.
InDrawdown(peak) ==
    IF TieredBreaker
    THEN ReachedTiers(peak) # {}
    ELSE DrawdownReaches(Policy.legacyThreshold, peak)

-----------------------------------------------------------------------------
(* The decision                                                            *)

ShortAllowed(reserved, peak) ==
    Policy.shorts.enabled =>
        /\ Shorts(positions) + Shorts(reserved) < Policy.shorts.maximum
        /\ Policy.shorts.inDrawdown \/ ~InDrawdown(peak)

ShortMultiplier(direction) ==
    IF direction = "BEARISH" /\ Policy.shorts.enabled THEN Policy.shorts.multiplier ELSE Whole

\* in parts of which Whole^3 make one unit of cash
Budget(direction, peak) ==
    total * (Policy.baseRisk * (Penalty(peak) * ShortMultiplier(direction)))

\* Mutation of RemainingHeat: waiting orders carry no heat.
RemainingHeatOfPositions(reserved) ==
    (total * Policy.maxHeat - Whole * SumOver(MaxRisk, positions)) * (Whole * Whole)

RemainingHeat(reserved) ==
    (total * Policy.maxHeat - Whole * ViewRisk(reserved)) * (Whole * Whole)

MinBudget == Policy.minBudget * (Whole * (Whole * Whole))

\* A budget above the remaining heat is cut to it, unless too little remains.
HeatAllows(direction, reserved, peak) ==
    Policy.heat =>
        /\ RemainingHeat(reserved) > 0
        /\ \/ RemainingHeat(reserved) >= Budget(direction, peak)
           \/ RemainingHeat(reserved) >= MinBudget

MaxBudget(direction, reserved, peak) ==
    IF Policy.heat /\ RemainingHeat(reserved) < Budget(direction, peak)
    THEN RemainingHeat(reserved)
    ELSE Budget(direction, peak)

\* Mutation of TradeAllowed: only waiting orders occupy a symbol.
TradeAllowedBesidePosition(s, direction, reserved, peak) ==
    /\ total > 0
    /\ reserved[s] = None
    /\ Trades(positions) + Trades(reserved) < Policy.maxTrades
    /\ direction = "BEARISH" => ShortAllowed(reserved, peak)
    /\ ViewExposure(reserved) * Whole < total * Policy.maxExposure
    /\ ~TradingHalted(peak)
    /\ HeatAllows(direction, reserved, peak)

\* Mutation of TradeAllowed: waiting orders take up no slot.
TradeAllowedIgnoringOrders(s, direction, reserved, peak) ==
    /\ total > 0
    /\ positions[s] = None /\ reserved[s] = None
    /\ Trades(positions) < Policy.maxTrades
    /\ direction = "BEARISH" => ShortAllowed(reserved, peak)
    /\ ViewExposure(reserved) * Whole < total * Policy.maxExposure
    /\ ~TradingHalted(peak)
    /\ HeatAllows(direction, reserved, peak)

\* evaluate_trade: may a trade of this symbol and direction be taken at all?
TradeAllowed(s, direction, reserved, peak) ==
    /\ total > 0
    /\ positions[s] = None /\ reserved[s] = None
    /\ Trades(positions) + Trades(reserved) < Policy.maxTrades
    /\ direction = "BEARISH" => ShortAllowed(reserved, peak)
    /\ ViewExposure(reserved) * Whole < total * Policy.maxExposure
    /\ ~TradingHalted(peak)
    /\ HeatAllows(direction, reserved, peak)

\* _risk_allows: may this order be registered, or filled, beside the others?
RiskAllows(s, order, reserved, peak) ==
    /\ Size(order) <= free - Exposure(reserved)
    /\ TradeAllowed(s, order.direction, reserved, peak)
    /\ (ViewExposure(reserved) + Size(order)) * Whole <= total * Policy.maxExposure
    /\ MaxRisk(order) * (Whole * (Whole * Whole)) <= MaxBudget(order.direction, reserved, peak)
=============================================================================

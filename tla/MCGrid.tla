-------------------------------- MODULE MCGrid --------------------------------
(***************************************************************************)
(* The two simulations of the experiment on small instances: single grids  *)
(* (RadarGrid), and an account that runs the grids of several symbols      *)
(* (ContinuousGrid).  They share the grid and not a state, so a behaviour  *)
(* is of one of them, and program says of which.                           *)
(***************************************************************************)
EXTENDS ContinuousGrid

CONSTANTS btc, eth,                                            \* symbols
          Configs, RadarConfigs, Candles, FundingRates,        \* of RadarGrid
          SessionCapital

VARIABLES
    program,                                                   \* "SESSIONS" or "ACCOUNT"
    driver, config, session, sessions, current, bars, held, ended      \* of RadarGrid

R == INSTANCE RadarGrid WITH InitialCapital <- SessionCapital

ASSUME SessionAssumption == R!SessionAssumption

sessionVars == <<driver, config, session, sessions, current, bars, held, ended>>

\* The state of the other program is one of its initial states, and stays there.
ResearchInit ==
    /\ Init /\ R!Init
    /\ \/ program = "SESSIONS" /\ variant = "FREEZE"
       \/ program = "ACCOUNT" /\ driver = "RADAR"

ResearchNext ==
    \/ program = "ACCOUNT" /\ Next /\ UNCHANGED <<program, sessionVars>>
    \/ program = "SESSIONS" /\ R!Next /\ UNCHANGED <<program, gridVars>>

ResearchSpec == ResearchInit /\ [][ResearchNext]_<<program, gridVars, sessionVars>>

\* Between the candles no order of a live grid has been passed over, and whatever
\* stop was due has ended it; what a session gained is what its trades, fees and
\* funding say it gained, and the report adds the sessions up.
SessionsSound ==
    /\ R!OrdersBracketPrice /\ R!StoppedInTime
    /\ R!AccountsClose /\ R!MetricsFaithful

\* simulator.py reports "Realized grid profit vs unrealized mark-to-market PnL" of
\* the trades that were made: no wallet holds money that no trade has brought.
MoneyConserved == R!MoneyConserved

-----------------------------------------------------------------------------
(* Sessions: grids of four steps around 100 and of three doublings, and    *)
(* candles that oscillate, climb, fall, crash and stand still.             *)

Bar(open, high, low, close) == [open |-> open, high |-> high, low |-> low, close |-> close]

MCCandles == {Bar(100, 104, 84, 88),      \* falls
              Bar(90, 124, 88, 124),      \* climbs
              Bar(100, 116, 84, 104),     \* swings
              Bar(110, 112, 60, 64),      \* crashes
              Bar(100, 100, 100, 100),    \* stands still
              Bar(88, 88, 88, 88)}        \* stands still after a fall

Session(type, leverage, stopLoss, takeProfit) ==
    [lower |-> 80, upper |-> 120, grids |-> 4, margin |-> 12000, leverage |-> leverage,
     type |-> type, mode |-> "ARITHMETIC", stopLoss |-> stopLoss, takeProfit |-> takeProfit]

Doubling == [lower |-> 20, upper |-> 160, grids |-> 3, margin |-> 12000, leverage |-> 2,
             type |-> "NEUTRAL", mode |-> "GEOMETRIC", stopLoss |-> {300}, takeProfit |-> {}]

MCConfigs == {Session("NEUTRAL", 2, {300}, {}), Session("LONG", 2, {100}, {50}),
              Session("SHORT", 2, {}, {}), Session("NEUTRAL", 8, {60}, {}),
              Session("NEUTRAL", 8, {}, {}), Doubling}

MCRadarConfigs ==
    {[range |-> 200, grids |-> 4, margin |-> 12000, leverage |-> 5,
      stopLoss |-> {300}, takeProfit |-> {100}]}

-----------------------------------------------------------------------------
(* The account: two symbols, of which the first allots itself two thirds   *)
(* of it, and four bars after the first that oscillate, fall, recover and  *)
(* crash past every stop.                                                  *)

MCOrder == <<btc, eth>>
MCWarmUp == Bar(100, 104, 96, 100)

Falls == Bar(100, 104, 84, 88)
Climbs == Bar(90, 122, 88, 118)
Crashes == Bar(88, 90, 40, 44)
Swings == Bar(100, 116, 86, 104)
FarBelow == Bar(60, 64, 50, 62)

Row(barA, barB, allowedA, allowedB) ==
    [bar |-> btc :> barA @@ eth :> barB, allowed |-> btc :> allowedA @@ eth :> allowedB]

MCRows == {Row(Falls, Swings, TRUE, TRUE), Row(Climbs, Swings, TRUE, TRUE),
           Row(Climbs, Swings, FALSE, FALSE), Row(Falls, Swings, FALSE, TRUE),
           Row(Climbs, FarBelow, TRUE, FALSE), Row(Crashes, Swings, TRUE, TRUE),
           Row(Crashes, FarBelow, FALSE, FALSE), Row(Falls, FarBelow, FALSE, TRUE),
           Row(Climbs, Swings, FALSE, TRUE)}
=============================================================================

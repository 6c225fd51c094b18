CONSTANTS
  MinConfidence = 300
  Rules <- TheRules
  Regime <- TheRegime
  Setups <- TheSetups
  Markets <- TheMarkets
  Shapes <- TheShapes
  FirstClose = 10000
  MaxCandles = 6
  Horizons = {1, 2}
  MinHistory = 2
  DayLength = 2
  BarLength = 2
  ZoneOffset = 0
SPECIFICATION BacktestSpec
INVARIANTS
    AnalysisSound
    ReportHonest
PROPERTIES
    NoRepaint
CHECK_DEADLOCK FALSE

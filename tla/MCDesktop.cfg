SPECIFICATION Spec
CONSTANTS
  Symbols = {"eth"}
  Ttl = 1
  MaxFlight = 1
  MaxTime = 3
  MaxSignals = 1
  Analysable <- AnalysableFew
  Score <- ScoreSmall
INVARIANTS
    WindowSound
    ServedFresh
PROPERTIES
    RequestsAnswered
CHECK_DEADLOCK FALSE

SPECIFICATION Spec
CONSTANTS
    NumSymbols = 3
    InitialCapital = 150
    Unit = 10
    MakerRate = 1
    TakerRate = 2
    SlippageRate = 1
    None = None
    Whole = 10
    Policy <- StrictPolicy
    Setups <- MCPolicySetups
    Candles <- MCPolicyCandles
    Histories <- NoHistory
    BarLength = 2
    Bars = {1, 2}
INVARIANTS
    SlotLimit
PROPERTIES
    CommitmentsCovered
CHECK_DEADLOCK FALSE

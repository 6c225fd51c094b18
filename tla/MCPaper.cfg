SPECIFICATION FairSpec
CONSTANTS
    NumSymbols = 2
    InitialCapital = 100
    Unit = 10
    MakerRate = 1
    TakerRate = 2
    SlippageRate = 1
    None = None
    Whole = 10
    Policy <- DefaultPolicy
    Setups <- MCSetups
    Candles <- MCCandles
    Histories <- MCHistories
    BarLength = 2
    Bars = {1, 3}
INVARIANTS
    ExecutionSound
    CandleHonoured
    FundingExact
PROPERTIES
    CandleOrder
    HonestPrices
    BatchEnds
CHECK_DEADLOCK FALSE

SPECIFICATION FairTradingSpec
CONSTANTS
    NumSymbols = 2
    InitialCapital = 100
    Unit = 10
    MakerRate = 1
    TakerRate = 2
    SlippageRate = 1
    None = None
    Whole = 10
    Policy <- TradingPolicy
    Setups <- MCSetups
    Candles <- MCCandles
    Histories <- MCHistories
    BarLength = 2
    Bars = {1, 2, 3}
    MaxTime = 8
    MaxStale = 3
    ClockDrifts <- Behind
INVARIANTS
    PlayedOnce
    ConsistentSnapshot
PROPERTIES
    OnlyClosedCandles
    CycleEnds
CHECK_DEADLOCK FALSE

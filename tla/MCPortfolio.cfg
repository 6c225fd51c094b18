SPECIFICATION Spec
CONSTANTS
    NumSymbols = 2
    InitialCapital = 55
    Unit = 10
    MakerRate = 1
    TakerRate = 2
    SlippageRate = 1
    None = None
    Offered <- MCOffered
    Prices <- MCPrices
    Times <- MCTimes
    Rates <- MCRates
    Costs <- MCCosts
    MaxTrades = 2
INVARIANTS
    BooksSound
    StatisticsMatchHistory
PROPERTIES
    ImplementsLedger
    FundingPaidOnce
CHECK_DEADLOCK FALSE

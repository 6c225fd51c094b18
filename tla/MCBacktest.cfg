SPECIFICATION ResearchSpec
CONSTANTS
    NumPairs = 2
    Bars <- MCBars
    CandleTimes <- MCCandleTimes
    Settlements <- MCSettlements
    Unpriced = {15}
    Samples <- MCSamples
    CandleLimit = 3
    PageLimit = 1
    SampleLimit <- MCSampleLimit
    PageSpan = 5
    WarmUp = 1
    DayLength = 4
    Windows <- MCWindows
    MaxRuns = 2
    None = None
    Unit = 10
    MakerRate = 1
    TakerRate = 2
    SlippageRate = 1
    InitialCapital = 100
    Quotes <- MCQuotes
    Rates <- MCRates
    FundingInterval = 4
    Intelligence = {5, 6, 9}
    Strategies = {1, 3}
    Decide <- MCDecide
    InitialBalance = 10000
    MonthLengths <- Months
    Periods <- MCPeriods
    InSample = 12
    OutSample = 3
    Step = 3
    Grid <- MCGrid
    TradeLists <- MCTradeLists
    Tolerance = 1
INVARIANTS
    FetchedWhole
    NoLookAhead
    AccountsSound
    ChoiceSound
    EveryDayTested
CHECK_DEADLOCK FALSE

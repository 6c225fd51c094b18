SPECIFICATION ResearchSpec
CONSTANTS
    btc = btc
    eth = eth
    Order <- MCOrder
    Variants = {"IMMEDIATE_CLOSE", "FREEZE", "FREEZE_ATR", "HYSTERESIS"}
    RangePct = 200
    NumGrids = 4
    Leverage = 8
    RequestedMargin = 40000
    MinimumMargin = 10000
    StopLossRoi = 300
    AtrPeriod = 2
    AtrMultiplier = 1
    HysteresisBars = 2
    MaxSessionBars = 3
    PostBars = 1
    Tolerance = 20
    Rows <- MCRows
    WarmUp <- MCWarmUp
    MaxBars = 5
    MakerFee = 2
    TakerFee = 5
    Slippage = 10
    MaintenanceRate = 50
    LiquidationFee = 20
    InitialCapital = 60000
    Configs <- MCConfigs
    RadarConfigs <- MCRadarConfigs
    Candles <- MCCandles
    FundingRates = {0, 20}
    SessionCapital = 30000
    None = None
INVARIANTS
    SessionsSound
    InventoryManaged
    RegimeObeyed
    AccountSound
PROPERTIES
    PoolNeverOversold
CHECK_DEADLOCK FALSE

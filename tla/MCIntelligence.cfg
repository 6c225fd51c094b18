SPECIFICATION IntelligenceSpec
CONSTANTS
    coinglass = coinglass
    deribit = deribit
    alternative = alternative
    Registry <- MCRegistry
    Timeouts <- MCTimeouts
    Answers <- MCAnswers
    TimeWindow = 2
    MinReliability = 2
    Exempt = {"funding", "open_interest", "liquidations", "long_short_ratio"}
    DirectionThreshold = 3
    ConflictThreshold = 4
    MinStrength = 400
    MinEvidence = 2
    NumTypes = 20
    MaxTime = 5
    None = None
    Day = 2
    FeatureWindow = 2
    Raised = Raised
INVARIANTS
    ReportSound
    StoreSound
PROPERTIES
    HistoryKept
    EveryReportEnds
CHECK_DEADLOCK FALSE

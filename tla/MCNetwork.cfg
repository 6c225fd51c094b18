SPECIFICATION NetworkSpec
CONSTANTS
    Callers = {c1, c2}
    Weights = {2, 5}
    MaxWeight = 5
    Margin = 5
    Window = 3
    Grain = 2
    Slack = 2
    None = None
    MaxRetries = 1
    Backoff = 1
    RetryAfters = {1}
    MaxTime = 1
    Attempts = 3
    Second = 1
INVARIANTS
    SentWithinCap
    RequestsAccounted
PROPERTIES
    SleepOutlastsGrant
    EveryRequestEnds
CHECK_DEADLOCK FALSE

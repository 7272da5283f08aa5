SPECIFICATION FairSpec
CONSTANTS
    Config <- NorthwindConfig
    Worker = {w1, w2}
    Operator = {w1, w2}
    Caller = {w2}
    Baseline <- DemoHome
    Scenario <- Scenarios
    Pack <- Packs
    Before = "wifi_degraded"
    Call <- Calls
    FlushOrder <- RowsInFlushOrder
    MaxTakes = 2
    Free = free
PROPERTY ClearedIsCommitted
CHECK_DEADLOCK FALSE

SPECIFICATION FairSpec
CONSTANTS
    Config <- NorthwindConfig
    Party <- Parties
    Tenant <- Tenants
    TenantOf <- TenantMap
    Baseline <- Homes
    Scenario <- Scenarios
    Pack <- Packs
    Call <- IPadBandCalls
    MaxAudit = 3
INVARIANT TypeOK
INVARIANT RecommendedActionWorks
INVARIANT FaultsExplainedByLastTake
INVARIANT ClearedStaysCleared
INVARIANT FaultAnnounced
PROPERTY DeviceActionsOnlyHeal
 
PROPERTY AgentSettlesEveryHome
CHECK_DEADLOCK FALSE

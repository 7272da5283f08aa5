SPECIFICATION Spec
CONSTANTS
    Config <- NorthwindConfig
    Party <- Parties
    Tenant <- Tenants
    TenantOf <- TenantMap
    Baseline <- Homes
    Scenario <- Scenarios
    Pack <- Packs
    Call <- PlainCalls
    MaxAudit = 1
CHECK_DEADLOCK FALSE
PROPERTY OperatorChangesAreLogged

SPECIFICATION Spec
CONSTANTS
    w1 = w1
    w2 = w2
    Worker = {w1, w2}
    Tenant = {"northwind", "acme"}
    DialRules <- Rules
    Pack <- Packs
    FirstPack <- First
    Channel = {"voice", "web", ""}
    FactorType = {"pin", "dob"}
    Factor = {"24680", "1990"}
    Text <- Texts
    Dialled <- Heard
    KeyRank <- Ranks
    HomeRow = {"gateway", "upstairs"}
    MaxTick = 2
INVARIANT TypeOK
INVARIANT SpineIsLastSeed
INVARIANT SpellingsFindTheirParty
INVARIANT OnlyPackFactorsVerify
INVARIANT LastChannelIsCurrent
PROPERTY RecordsStay
PROPERTY HomesFollowPack
CHECK_DEADLOCK FALSE
SYMMETRY AlikeWorkers

SPECIFICATION FairSpec
CONSTANTS
    Config <- ClusterConfig
    AllHomes <- Homes
    Catalogue <- BadnessOffers
    MaxSteps = 5
INVARIANT TypeOK
INVARIANT EachStepMendsOne
INVARIANT SpeechAgreesWithVerdict
INVARIANT ViewsAgree
INVARIANT CoverageMatchesItsRule
PROPERTY HealingOpensNoOffer
PROPERTY EndsMendedOrEscalated
CHECK_DEADLOCK FALSE

SPECIFICATION Spec
CONSTANTS
    Config <- DefaultConfig
    AllHomes <- FewHomes
    Catalogue <- BadnessOffers
    MaxSteps = 5
PROPERTY CoverageSurvivesRepair
CHECK_DEADLOCK FALSE

SPECIFICATION FairSpec
CONSTANTS
    Apps = {"a", "b", "c"}
    Inventory <- ThreeCharts
    Repeated <- Repeats3
    Divergent <- OneConfig
    MaxInstalls = 3
    MaxHasty = 1
INVARIANTS
    TypeOK
    RulesCurrent
PROPERTIES
    TakenUnawares
    FightEnds
    SelfClears
CHECK_DEADLOCK FALSE

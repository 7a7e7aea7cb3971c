SPECIFICATION FairSpec
CONSTANTS
    Apps = {"a", "b"}
    Inventory <- TwinCharts
    Repeated <- NoRepeats
    Divergent = {}
    MaxInstalls = 3
    MaxHasty = 1
PROPERTIES
    FightEnds
CHECK_DEADLOCK FALSE

SPECIFICATION ResyncSpec
CONSTANTS
    Versions = {"v1", "v2"}
    Fields = {"a", "b"}
    Specs <- SpecValues
    Schemas <- SchemaValues
    TTL = 1
    MaxUserOps = 3
    MaxFaults = 1
INVARIANTS
    BoundedStaleness
    CacheInvariant
PROPERTIES
    UpgradePickedUp
CHECK_DEADLOCK FALSE

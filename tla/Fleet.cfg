SPECIFICATION FairSpec
CONSTANTS
    Clusters = {spoke}
    Sites <- SomeSites
    HubOptions <- SomeOptions
    ChartValues <- SomeValues
    NoManifest = NoManifest
    MaxChanges = 2
    Principal = principal
    Slots = {1, 2, 3}
    NoPod = NoPod
    Nobody = Nobody
    MaxPolls = 1
    MaxFaults = 1
INVARIANTS
    TypeOK
    OnlyUnknownModesRefused
    OneActive
    WatchesServedOnly
PROPERTIES
    FleetSettles
CHECK_DEADLOCK FALSE

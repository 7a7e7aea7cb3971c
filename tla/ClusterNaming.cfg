SPECIFICATION Spec
CONSTANTS
    Clusters <- PlainClusters
    Releases <- PlainReleases
    NoApp = NoApp
INVARIANTS
    OwnersInvariant
PROPERTIES
    KeptForItsOwner

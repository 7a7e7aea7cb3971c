SPECIFICATION HistorySpec
CONSTANTS
    HelmReleases <- OneRelease
    NameOf <- OneName
    DependsOn <- NoDependency
    Specs <- TwoValues
    RepoURLs = {"u1"}
    ArgoNamespaces = {"argocd"}
    ArgoNamespace = "argocd"
    ClusterName <- NoCluster
    AppStatuses <- JustSynced
    NoHR = NoHR
    NoApp = NoApp
    NoRepo = NoRepo
    NoNamespace = NoNamespace
    UserOps = {"create","edit","delete","unapp","drift"}
    Faults = {"update","application","status"}
    MaxUserOps = 4
    MaxFaults = 1
    MaxCrashes = 1
INVARIANTS
    OnlyMissedOrphaned
    ReleaseInvariant
PROPERTIES
    ImplementsMirror
CHECK_DEADLOCK FALSE

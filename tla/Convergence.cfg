SPECIFICATION FairSpec
CONSTANTS
    HelmReleases <- OneRelease
    NameOf <- OneName
    DependsOn <- NoDependency
    Specs <- TwoValues
    RepoURLs = {"u1","u2"}
    ArgoNamespaces = {"argocd"}
    ArgoNamespace = "argocd"
    ClusterName <- NoCluster
    AppStatuses <- JustSynced
    NoHR = NoHR
    NoApp = NoApp
    NoRepo = NoRepo
    NoNamespace = NoNamespace
    UserOps = {"create","edit","unapp","drift","repo"}
    Faults = {"update","application"}
    MaxUserOps = 3
    MaxFaults = 1
    MaxCrashes = 1
INVARIANTS
    TypeOK
    NoLostWakeUp
    WakeInvariant
PROPERTIES
    Converges
CHECK_DEADLOCK FALSE

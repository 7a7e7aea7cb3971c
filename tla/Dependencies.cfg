SPECIFICATION FairSpec
CONSTANTS
    HelmReleases <- TwoReleases
    NameOf <- TwoNames
    DependsOn <- WebNeedsDb
    Specs <- OneSpec
    RepoURLs = {"u1"}
    ArgoNamespaces = {"argocd"}
    ArgoNamespace = "argocd"
    ClusterName <- East
    AppStatuses <- JustRolling
    NoHR = NoHR
    NoApp = NoApp
    NoRepo = NoRepo
    NoNamespace = NoNamespace
    UserOps = {"create"}
    Faults = {"update","application"}
    MaxUserOps = 2
    MaxFaults = 1
    MaxCrashes = 0
INVARIANTS
    DependenciesFirst
PROPERTIES
    OneWriter
    Converges
CHECK_DEADLOCK FALSE

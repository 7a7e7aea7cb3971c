SPECIFICATION Spec
CONSTANTS
    HelmReleases <- OneRelease
    NameOf <- OneName
    DependsOn <- NoDependency
    Specs <- OneSpec
    RepoURLs = {"u1"}
    ArgoNamespaces = {"argocd"}
    ArgoNamespace = "argocd"
    ClusterName <- NoCluster
    AppStatuses <- JustSynced
    NoHR = NoHR
    NoApp = NoApp
    NoRepo = NoRepo
    NoNamespace = NoNamespace
    UserOps = {"create","delete"}
    Faults = {}
    MaxUserOps = 2
    MaxFaults = 0
    MaxCrashes = 0
INVARIANTS
    NoOrphanedApplication
CHECK_DEADLOCK FALSE

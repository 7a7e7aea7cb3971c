SPECIFICATION FairSpec
CONSTANTS
    HelmReleases <- OneRelease
    NameOf <- OneName
    DependsOn <- NoDependency
    Specs <- DeployOrSuspend
    RepoURLs = {"u1"}
    ArgoNamespaces = {"argocd"}
    ArgoNamespace = NoNamespace
    ClusterName <- NoCluster
    AppStatuses <- SyncedOrRolling
    NoHR = NoHR
    NoApp = NoApp
    NoRepo = NoRepo
    NoNamespace = NoNamespace
    UserOps = {"create","edit","delete","argo"}
    Faults = {"application"}
    MaxUserOps = 4
    MaxFaults = 1
    MaxCrashes = 1
INVARIANTS
    NoStrandedDeletion
    StatusCurrent
PROPERTIES
    DeletionFinishes
    MirrorConverges
CHECK_DEADLOCK FALSE

SPECIFICATION ResyncSpec
CONSTANTS
    Releases = {1, 2}
    CRDs = {"small","big"}
    Versions = {1, 2}
    Contents <- SmallAndBig
    NoContent = NoContent
    NoApp = NoApp
    UserOps = {"install","uninstall","suspend"}
    Faults = {"analysis","create"}
    MaxUserOps = 3
    MaxFaults = 1
    MaxCrashes = 1
INVARIANTS
    OversizedLeftAlone
    RegistryInvariant
    AgreementElects
PROPERTIES
    AgreementLasts
    OneWriterInTheEnd
    OversizedCreated
CHECK_DEADLOCK FALSE

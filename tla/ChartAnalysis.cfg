SPECIFICATION ResyncSpec
CONSTANTS
    AnnotationKeys <- Keys
    Setups <- SomeSetups
    Renders <- SomeRenders
    AuthSecrets <- SomeSecrets
    CertSecrets <- SomeCertSecrets
    NoSecret = NoSecret
    NoConfig = NoConfig
    NoApp = NoApp
    MaxUserOps = 2
    MaxFaults = 1
    MaxCrashes = 1
INVARIANTS
    RulesComplete
    RulesJustified
    OneRulePerResource
PROPERTIES
    SourceFollows
    RulesReturn
CHECK_DEADLOCK FALSE

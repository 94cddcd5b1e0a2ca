SPECIFICATION Spec
CONSTANTS
    Configs <- AllConfigs
    Models = {"daio", "sensor", "faulty"}
    Desc <- Descriptors
    SlaveCount = 3
    MaxBackends = 2
    MaxTags = 8
    MaxVars = 2
    MaxHops = 2
    UlongMax = 15
    TypeMax <- Widths
    Numbers <- SomeNumbers
CHECK_DEADLOCK FALSE
INVARIANTS NamesMeanVariables IoTagsFindTheirDevice OnlySoundIsBuilt
PROPERTIES WriteReachesItsVariable

SPECIFICATION FairSpec
CONSTANTS
    alarm_state = alarm_state
    hmi_alarm_state = hmi_alarm_state
    Vars = {reset, alarm_state}
    Aliases = {hmi_alarm_state}
    AliasOf <- ConfiguredAlias
    ReadOnly = {hmi_alarm_state}
    ResetCmd = reset
    Outputs = {out}
    Unknown = unknown
    Values = {0, 1}
    MaxPerCycle = 2
    RingCapacity = 2
    IdRange = 2
CHECK_DEADLOCK FALSE
INVARIANT StagedOutputApplied

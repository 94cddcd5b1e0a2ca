SPECIFICATION FairSpec
CONSTANTS
    Base = 2
    Tasks = 1
    Initial = 1
    Period <- OnePeriod
    Phase <- OnePhase
    Policy <- OneAlways
    Boot = 3
    RunTime = 19
    Wrap = 16
CHECK_DEADLOCK FALSE
PROPERTY EveryCycleEnds

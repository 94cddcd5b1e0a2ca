SPECIFICATION FairSpec
CONSTANTS
    Base = 2
    Tasks = 3
    Initial = 2
    Period <- ThreePeriods
    Phase <- ThreePhases
    Policy <- ThreePolicies
    Boot = 1
    RunTime = 19
    Wrap = 64
CHECK_DEADLOCK FALSE
INVARIANTS NoBurst EverySlotServed CycleRate
PROPERTIES EveryCycleEnds StopReturns

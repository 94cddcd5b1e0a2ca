SPECIFICATION FairEither
CONSTANTS
    Elems = {a, b}
    Capacity = 3
    Words = 2
    Laps = 2
    Blank = Blank
    Count = 2
    WarnThreshold = 1
    FailThreshold = 2
INVARIANTS NoSlotRace FaultStopsTasks LevelTells
PROPERTIES ImplementsFifo Delivered

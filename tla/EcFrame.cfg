SPECIFICATION Spec
CONSTANTS
    Words = 2
    OutValues = {0, 1}
    InValues = {0}
    ExpectedWkc = 1
    WarnThreshold = 1
    FailThreshold = 1
    WarmupCycles = 0
    StatePeriod = 1
INVARIANT FrameNotMixed

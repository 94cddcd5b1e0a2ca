SPECIFICATION Spec
CONSTANTS
    Words = 1
    OutValues = {0}
    InValues = {0, 1}
    ExpectedWkc = 1
    WarnThreshold = 1
    FailThreshold = 1
    WarmupCycles = 0
    StatePeriod = 1
PROPERTY SnapshotStable

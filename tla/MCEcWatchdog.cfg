SPECIFICATION MCSpec
CONSTANTS
    Words = 2
    OutValues = {0, 1}
    InValues = {0, 1}
    ExpectedWkc = 1
    WarnThreshold = 2
    FailThreshold = 3
    WarmupCycles = 1
    StatePeriod = 2
INVARIANTS StagingApart FrameIsOneCycle SafeAfterFault OutputsPreserved LatchedInputWhole
           ShortFramesLatch LostSlavesLatch GoodBusIsOperational
PROPERTY WarnedBeforeLatch

SPECIFICATION Spec
CONSTANTS
    Count = 2
    MaxBytes = 3
    LineSize = 2
    Backlog = 1
CHECK_DEADLOCK FALSE
INVARIANTS ClientsAnswered NothingLeaks
PROPERTIES StopReturns

SPECIFICATION Spec
CONSTANT Count = 3
INVARIANTS ZeroAfterStop BusOwned NothingLeftRunning ExitCodeTells
PROPERTY MainReturns
CHECK_DEADLOCK FALSE

SPECIFICATION FairSpec
CONSTANTS
    Producers = {p, q}
    Calls = 2
    Slots = 2
    TableSize = 3
CHECK_DEADLOCK FALSE
INVARIANTS SlotOwned AcceptedKept CallOrderKept
PROPERTIES QueuedTaskTaken

SPECIFICATION BridgeFairSpec
CONSTANTS
    MaxCalls = 3
    RunTimeout = 3
    ToolTimeout = 2
    ModelTimeout = 1
    MaxTime = 8
    Faults = {"child", "journal", "close", "cancel", "crash"}
INVARIANTS
    LockStep
    JournalIsTrue
    ChildIsGone
PROPERTIES
    DeadlineHolds
    ImplementsLedger
    ExecutionEnds
CHECK_DEADLOCK FALSE

SPECIFICATION BridgeSpec
CONSTANTS
    MaxCalls = 2
    RunTimeout = 2
    ToolTimeout = 1
    ModelTimeout = 1
    MaxTime = 3
    Faults = {}
INVARIANT UnreachableMeansUntouched
CHECK_DEADLOCK FALSE

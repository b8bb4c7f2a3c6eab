SPECIFICATION LockFairSpec
CONSTANTS
    Daemons = {d1, d2, d3}
    NoLock = NoLock
    Gone = Gone
    Heartbeat = 1
    StaleAfter = 3
    MaxStall = 3
    MaxTime = 6
    Faults = {"crash", "stop"}
INVARIANTS
    SingleDrainer
    OwnerIsAtWork
PROPERTY KilledOwnerGivesWay

SPECIFICATION HomeFairSpec
CONSTANTS
    Runs = {r1}
    Workers = {w1, w2}
    Answerers = {a1, a2}
    Requests <- HomeRequests
    Inline = Inline
    NoRun = NoRun
    Nobody = Nobody
    NoLock = NoLock
    Gone = Gone
    Concurrency = 1
    Ttl = 1
    Heartbeat = 1
    StaleAfter = 2
    MaxStall = 2
    MaxTime = 3
    Faults = {"crash", "abandon", "stop"}
INVARIANTS
    OneClaimer
    NothingActsUnapproved
    LoneAnswerHolds
PROPERTIES
    HandedOverIsServed
CHECK_DEADLOCK FALSE

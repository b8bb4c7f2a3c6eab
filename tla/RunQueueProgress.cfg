SPECIFICATION FairSpec
CONSTANTS
    Runs = {r1, r2}
    Workers = {w1, w2}
    Answerers = {}
    Requests <- QueuedRequests
    Inline = Inline
    NoRun = NoRun
    Nobody = Nobody
    Concurrency = 1
    Ttl = 0
    MaxTime = 1
    Faults = {"crash"}
PROPERTIES
    QueuedIsTaken
    ParkedIsGivenUp

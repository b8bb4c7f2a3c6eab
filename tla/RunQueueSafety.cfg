SPECIFICATION Spec
CONSTANTS
    Runs = {r1, r2}
    Workers = {w1, w2}
    Answerers = {a1}
    Requests <- MixedRequests
    Inline = Inline
    NoRun = NoRun
    Nobody = Nobody
    Concurrency = 1
    Ttl = 0
    MaxTime = 1
    Faults = {"crash", "abandon", "stop"}
INVARIANTS
    OneExecutor
    StartedAtMostOnce
    DecisionsHold
    AnswerIsTheRow
    WithinConcurrency
PROPERTIES
    ImplementsLifecycle

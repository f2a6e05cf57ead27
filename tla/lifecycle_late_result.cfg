\* No fault at all, but a live worker may miss its lease.
SPECIFICATION Spec
CONSTANTS
    t1 = t1
    t2 = t2
    w1 = w1
    w2 = w2
    Tasks = {t1}
    Workers = {w1, w2}
    NoTask = NoTask
    NoWorker = NoWorker
    MaxRetries <- OneRetry
    Cancellable = {}
    LeasesLapse = TRUE
    FaultKinds = {}
    MaxFaults = 0
PROPERTIES
    TerminalIsFinal

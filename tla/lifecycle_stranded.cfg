\* One publish fails, nothing else goes wrong.
SPECIFICATION FairSpec
CONSTANTS
    t1 = t1
    t2 = t2
    w1 = w1
    w2 = w2
    Tasks = {t1}
    Workers = {w1, w2}
    NoTask = NoTask
    NoWorker = NoWorker
    MaxRetries <- OneRetry
    Cancellable = {}
    LeasesLapse = FALSE
    FaultKinds = {"publish"}
    MaxFaults = 1
PROPERTIES
    QueuedIsRecoverable

\* One task, two workers, every fault and lapsing leases, fair.
SPECIFICATION FairSpec
CONSTANTS
    t1 = t1
    t2 = t2
    w1 = w1
    w2 = w2
    Tasks = {t1}
    Workers = {w1, w2}
    NoTask = NoTask
    NoWorker = NoWorker
    MaxRetries <- OneRetry
    Cancellable = {t1}
    LeasesLapse = TRUE
    FaultKinds = {"crash", "publish", "redis_loss", "redis_replay", "database"}
    MaxFaults = 2
INVARIANTS
    TypeOK
    StrandedOnlyIfLost
    OwnerNamesAttempt
    AttemptsExclusive
    AttemptDrift
PROPERTIES
    RunningIsReleased
    QueuedSettles

\* Two tasks, one of which may be cancelled, two workers that keep their
\* leases; every fault but the replay of a consumed message.
SPECIFICATION Spec
CONSTANTS
    t1 = t1
    t2 = t2
    w1 = w1
    w2 = w2
    Tasks = {t1, t2}
    Workers = {w1, w2}
    NoTask = NoTask
    NoWorker = NoWorker
    MaxRetries <- RetryFirst
    Cancellable = {t2}
    LeasesLapse = FALSE
    FaultKinds = {"crash", "publish", "redis_loss", "database"}
    MaxFaults = 2
SYMMETRY WorkerSymmetry
INVARIANTS
    SingleExecutor
    AttemptBound
    SingleDelivery
PROPERTIES
    ImplementsStateMachine

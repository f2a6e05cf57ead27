\* Two worker ids, every fault, fair.
SPECIFICATION FairSpec
CONSTANTS
    w1 = w1
    w2 = w2
    Workers = {w1, w2}
    FaultKinds = {"crash", "database", "slow"}
    MaxFaults = 3
INVARIANTS
    TypeOK
    CleanStopIsFinal
    StoppedAtAgrees
PROPERTIES
    LiveIsListed
    DeadIsNoticed

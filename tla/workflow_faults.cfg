\* Every three-node shape, both policies and every fault, fair; a run that is
\* over stops.
SPECIFICATION FairSpec
CONSTANTS
    a = a
    b = b
    c = c
    w1 = w1
    w2 = w2
    Nodes = {a, b, c}
    Workers = {w1, w2}
    NoNode = NoNode
    NoWorker = NoWorker
    Shapes <- SmallShapes
    Policies = {"FAIL_FAST", "CONTINUE"}
    FaultKinds = {"crash", "publish", "database", "lapse", "retry", "cancel"}
    MaxFaults = 2
CHECK_DEADLOCK FALSE
INVARIANTS
    TypeOK
    TaskPerNode
    
    
    
    StallsOnlyIfMissed
PROPERTIES
    
    
    RunEnds

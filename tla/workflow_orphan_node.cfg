\* No fault at all: two branches, one of which fails.
SPECIFICATION FairSpec
CONSTANTS
    a = a
    b = b
    c = c
    w1 = w1
    w2 = w2
    Nodes = {a, b, c}
    Workers = {w1, w2}
    NoNode = NoNode
    NoWorker = NoWorker
    Shapes <- SmallShapes
    Policies = {"FAIL_FAST"}
    FaultKinds = {}
    MaxFaults = 0
CHECK_DEADLOCK FALSE
PROPERTY
    NodeFollowsTask

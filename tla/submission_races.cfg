\* Four calls at a time, up to two faults.
SPECIFICATION Spec
CONSTANTS
    ann = ann
    bob = bob
    p1 = p1
    p2 = p2
    p3 = p3
    k1 = k1
    b1 = b1
    b2 = b2
    Users = {ann, bob}
    NoUser = NoUser
    Owner <- OwnerOf
    ProjectIds = {p1, p2, p3}
    Texts = {"A", "a"}
    normal <- Spelling
    Keys = {k1}
    NoKey = NoKey
    Bodies = {b1, b2}
    NoRow = NoRow
    Calls = {1, 2, 3, 4}
    Workloads <- Racing
    FaultKinds = {"crash", "database", "unconfirmed", "publish"}
    MaxFaults = 2
CHECK_DEADLOCK FALSE
INVARIANTS
    TypeOK
    
    OneIsCreated
    AnnouncedOnce

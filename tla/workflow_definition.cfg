CONSTANTS
    Keys <- MCKeys
    Blank = "blank"
    RawKeys <- MCRawKeys
    strip <- MCStrip
    Requests <- MCRequests
SPECIFICATION Spec
CHECK_DEADLOCK FALSE
INVARIANTS
    TypeOK
    StoredCanRun
    StoreSucceeds
    AnswerIsExact

\* Every kind of payload, up to three retries; a task that is over stops.
SPECIFICATION FairSpec
CONSTANTS
    Tasks <- MCTasks
    TicksPerSecond = 2
    BASE_SECONDS = 1
    MAX_SECONDS = 3
    MAX_SLEEP_SECONDS = 4
    MAX_CSV_BYTES = 4
    MAX_DIMENSION = 4
    MAX_TIMEOUT_SECONDS = 4
    FLOAT_MAX = 5
    WorkTicks <- MCWorkTicks
    Slack = 1
CHECK_DEADLOCK FALSE
INVARIANTS
    TypeOK
    
    ResultIsCurrent
    RetriesAreDue
    TooSlowFails
PROPERTIES
    BackoffDoubles
    ExecutionEnds

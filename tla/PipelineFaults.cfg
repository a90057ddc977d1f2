CONSTANTS
    roll1 = roll1
    roll2 = roll2
    delete1 = delete1
    Requests = {delete1}
    Stop = stop
    Flusher = flusher
    Free = Free
    NoRow = NoRow
    None = None
    Writers <- MCWriters
    Kind <- MCKind
    BatchSize = 2
    QueueSize = 2
    SwallowsCancel = FALSE
    MaxPublished = 4
    MaxFailures = 1
    MaxClock = 1
SPECIFICATION FairSpec
INVARIANT
    DrainStoresAll
PROPERTIES
    RequestsComplete
CHECK_DEADLOCK FALSE

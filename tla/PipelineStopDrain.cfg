CONSTANTS
    roll1 = roll1
    roll2 = roll2
    delete1 = delete1
    Requests = {}
    Stop = stop
    Flusher = flusher
    Free = Free
    NoRow = NoRow
    None = None
    Writers <- MCWriters
    Kind <- MCKind
    BatchSize = 2
    QueueSize = 2
    SwallowsCancel = FALSE
    MaxPublished = 3
    MaxFailures = 0
    MaxClock = 1
SPECIFICATION Spec
INVARIANT
    BothSinksGetEveryEvent
CHECK_DEADLOCK FALSE

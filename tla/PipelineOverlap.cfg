CONSTANTS
    roll1 = roll1
    roll2 = roll2
    delete1 = delete1
    Requests = {roll1, roll2}
    Stop = stop
    Flusher = flusher
    Free = Free
    NoRow = NoRow
    None = None
    Writers <- MCWriters
    Kind <- MCKind
    BatchSize = 2
    QueueSize = 2
    SwallowsCancel = TRUE
    MaxPublished = 2
    MaxFailures = 0
    MaxClock = 1
SPECIFICATION Spec
INVARIANTS
    OneWriterAlways
CHECK_DEADLOCK FALSE

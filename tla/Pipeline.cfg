CONSTANTS
    roll1 = roll1
    roll2 = roll2
    delete1 = delete1
    Requests = {roll1, roll2}
    Stop = stop
    Flusher = flusher
    Free = Free
    NoRow = NoRow
    None = None
    Writers <- MCWriters
    Kind <- MCKind
    BatchSize = 2
    QueueSize = 2
    SwallowsCancel = TRUE
    MaxPublished = 5
    MaxFailures = 1
    MaxClock = 2
SPECIFICATION Spec
INVARIANTS
    EachStoredOnce
    FilesInOrder
    SessionMatchesFile
    OneWriter
SYMMETRY RollSymmetry
CONSTRAINT OverlapBound
CHECK_DEADLOCK FALSE

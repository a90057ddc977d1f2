CONSTANTS
    w = w
    k = k
    f = f
    NoRow = NoRow
    Free = Free
    Clients <- MCClients
    Closers <- MCClosers
    Flusher = f
    Row <- MCRow
    BatchSize = 2
    MaxRows = 5
    MaxFailures = 1
    MaxCancels = 1
    MaxOpens = 2
SPECIFICATION FairSpec
INVARIANTS
    LockGuardsJob
    RowsKept
    LossNeedsFault
PROPERTIES
    BufferIsFlushed
    StopEnds
CHECK_DEADLOCK FALSE

CONSTANTS
    Kinds <- AllKinds
    MaxStarts = 2
    MaxLines = 2
    MaxSingles = 2
    FaultKinds = {"exit", "spawn", "long", "bad", "stubborn", "cancel", "service", "poll"}
    MaxFaults = 1
SPECIFICATION FairSpec
INVARIANTS
    LeavesNothingBehind
    ServiceGivenBack
    BlocksAreWhole
PROPERTIES
    StopEnds
    ExitIsReported
CHECK_DEADLOCK FALSE

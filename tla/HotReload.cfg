CONSTANTS
    hci = hci
    mgmt = mgmt
    Off = Off
    Collectors <- MCCollectors
    ForceDisabled = {}
    NeedsRoot = {}
    IsRoot = FALSE
    Settings = {"on", "tuned"}
    OlderFiles = FALSE
    Flaws = {"unreadable"}
    MaxEdits = 2
    MaxFailures = 1
SPECIFICATION FairSpec
INVARIANTS
    ReloadTakesEffect
    NothingRunsAfterStop
PROPERTIES
    FileIsLoaded
    StopEnds
CHECK_DEADLOCK FALSE

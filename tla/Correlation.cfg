CONSTANTS
    d1 = d1
    d2 = d2
    s1 = s1
    s2 = s2
    Devices = {d1, d2}
    Sources = {s1, s2}
    Window = 1
    BatchInterval = 1
    Lookback = 3
    MaxSkew = 1
    MaxLatency = 1
    MaxPass = 0
    MaxTime = 4
    MaxEvents = 3
    MaxFaults = 1
SPECIFICATION Spec
SYMMETRY Interchangeable
CONSTRAINT ShortAfterReset
INVARIANTS
    GroupsAreChains
    PairsAreCorrelated
    TablesAgree
CHECK_DEADLOCK FALSE

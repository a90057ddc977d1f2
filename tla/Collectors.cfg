CONSTANTS
    Devices = {d1, d2}
    MaxChanges = 3
    QueueSize = 2
    MaxStarts = 2
    MaxMonitors = 1
    MaxRuns = 2
    Adapters = {hci0, hci1}
    Handles = {h1}
    Peers = {p1, p2}
    NoDevice = NoDevice
    Things = {t1, t2}
    Kinds = {"adapters", "rfkill", "usb", "mgmt", "modules"}
    Absent = Absent
    Unread = Unread
    MaxLaunches = 2
    MaxShifts = 4
SPECIFICATION CollectorsSpec
INVARIANTS
    TracksConnections
    ProbesQuietAfterStop
    DiscoveredOnce
    NoneMissed
    AttributionIsExact
    EndsAreNotBeginnings
    SeverityIsWorst
    EventsTellWhatWasRead
PROPERTIES
    ProbeStopEnds
    ViewCatchesUp
CHECK_DEADLOCK FALSE

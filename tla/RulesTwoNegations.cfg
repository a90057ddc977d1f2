CONSTANTS
    d1 = d1
    d2 = d2
    None = None
    Addresses = {d1}
    EventTypes = {"A", "B", "C"}
    Meta = "PATTERN_MATCH"
    Rules <- TwoNegations
    Cap = 8
    IdleTimeout = 2
    MaxLag = 0
    MaxPublished = 4
    MaxClock = 4
SPECIFICATION RuleSpec
INVARIANTS
    NoFalseAlarm
CHECK_DEADLOCK FALSE

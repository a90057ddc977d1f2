CONSTANTS
    d1 = d1
    d2 = d2
    None = None
    Addresses = {d1}
    EventTypes = {"A", "B"}
    Meta = "PATTERN_MATCH"
    Rules <- RulePack
    Cap = 8
    IdleTimeout = 2
    MaxLag = 0
    MaxPublished = 4
    MaxClock = 4
SPECIFICATION RuleSpec
INVARIANTS
    AllWithinWindow
CHECK_DEADLOCK FALSE

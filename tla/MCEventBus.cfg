CONSTANTS
    slow = slow
    fast = fast
    Subscribers <- MCSubscribers
    Capacity <- MCCapacity
    WarnInterval = 2
    MaxPublished = 4
SPECIFICATION Spec
INVARIANTS
    WarnedEveryInterval
PROPERTIES
    IsolatedChannels

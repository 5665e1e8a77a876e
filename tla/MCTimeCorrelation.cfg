SPECIFICATION FairSpec
CONSTANTS
    Windows = {1, 2}
    DefaultWindow = 1
    MaxBufferSize = 2
    CleanupInterval = 2
    Modulus = 64
    StartTime = 4
    Lag = 1
    MaxTime = 9
    MaxEvents = 3
INVARIANTS
    CountsExact
    CorrelatedOnce
    NoMissedPair
PROPERTIES
    ImplementsJoin StaleEventsLeave
CHECK_DEADLOCK FALSE

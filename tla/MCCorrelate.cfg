SPECIFICATION FairSpec
CONSTANTS
    Within = 1
    CleanupInterval = 2
    Modulus = 64
    StartTime = 2
    Lag = 1
    MaxTime = 7
    MaxEvents = 3
    MaxWorlds = 2
INVARIANTS EmittedOnce PairsExact
PROPERTY StaleEventsLeave
CHECK_DEADLOCK FALSE

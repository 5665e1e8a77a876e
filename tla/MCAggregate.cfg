SPECIFICATION FairSpec
CONSTANTS
    WindowTypes = {"none", "tumbling", "sliding", "session"}
    Keys = {k1, k2}
    Grouped = TRUE
    Size = 3
    Slide = 1
    Timeout = 2
    MinInterval = 1
    MaxWindows = 2
    Forever = 100
    StartTime = 1
    Lag = 1
    MaxTime = 8
    MaxEvents = 3
INVARIANTS
    ExactlyOnce SessionsApart OpenWindowHeld RunningTotal
     KeysHeld
PROPERTY SessionReported
CHECK_DEADLOCK FALSE

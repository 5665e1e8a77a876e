SPECIFICATION Spec
CONSTANTS
    WindowTypes = {"tumbling"}
    Keys = {k1}
    Grouped = TRUE
    Size = 2
    Slide = 0
    Timeout = 2
    MinInterval = 1
    MaxWindows = 3
    Forever = 100
    StartTime = 3
    Lag = 0
    MaxTime = 8
    MaxEvents = 2
INVARIANT ResultsNotEmpty
CHECK_DEADLOCK FALSE

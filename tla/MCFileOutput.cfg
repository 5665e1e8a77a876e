SPECIFICATION Spec
CONSTANTS
    MaxSizes = {0}
    MaxAges = {1}
    MaxCounts = {0, 1, 2}
    Failures = {"rename", "reopen"}
    MaxTime = 5
    MaxEvents = 5
INVARIANTS NothingLost DeletesOldest
PROPERTY CountEnforced
CHECK_DEADLOCK FALSE

SPECIFICATION MetricsSpec
CONSTANTS
    Metrics = {"m1", "m2"}
    Values = {1, 2}
    FlushIntervals = {1, 2}
    MaxClock = 3
    MaxMetricEvents = 3
INVARIANTS  GaugesExported
CHECK_DEADLOCK FALSE

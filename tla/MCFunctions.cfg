SPECIFICATION BucketSpec
CONSTANTS
    FunctionTypes = {"count", "sum", "avg", "min", "max", "percentile", "distinct"}
    Fields = {"x", "y"}
    Numbers = {1, 2}
    Others = {absent}
    Percents = {0, 50, 75, 100}
    Infinity = 9
    MaxFunctions = 2
    MaxInBucket = 3
INVARIANTS UndisturbedExact
CHECK_DEADLOCK FALSE

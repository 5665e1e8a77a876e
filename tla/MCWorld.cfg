SPECIFICATION FairSpec
CONSTANTS
    Files = {f1, f2}
    Pcaps = {p1}
    Queries = {q1, q2}
    OpenResults = {TRUE, FALSE}
    FsResults = {TRUE, FALSE}
    MaxStarts = 2
INVARIANTS
    TeardownOrder
    NoDoubleClose
PROPERTY CleanFreeCompletes
CHECK_DEADLOCK FALSE

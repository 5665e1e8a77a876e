SPECIFICATION FairSpec
CONSTANTS
    Writer = {"partial", "rotate", "truncate"}
    Handler = {"stop"}
    BufferSize = 2
    MaxLines = 4
    MaxFiles = 2
    MaxStarts = 2
INVARIANTS InOrder
PROPERTY LinesFollowed
CHECK_DEADLOCK FALSE

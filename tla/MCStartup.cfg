SPECIFICATION MainSpec
CONSTANTS
    Documents <- MCDocuments
    Numerals <- MCNumerals
    Detected <- MCDetected
    Compiles <- MCCompiles
    Invocations <- MCInvocations
INVARIANTS
    ItemsWhole
    ReadAsMeant
    NothingLeft
    
CHECK_DEADLOCK FALSE

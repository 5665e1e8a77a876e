SPECIFICATION Spec
CONSTANTS
    Intents <- MCIntents
    Alphabet <- MCAlphabet
    MaxEdits = 1
    DurationModulus = 16777216
    EventData <- MCEventData
    Packets <- MCPackets
    DottedNames <- MCDottedNames
    Addresses <- MCAddresses
    AfterNot <- MCAfterNot
    IntModulus = 65536
INVARIANTS
    TypeOK
    RoundTrip
    
    PushdownSound
CHECK_DEADLOCK FALSE

SPECIFICATION LiveConnectionSpec
CONSTANTS
    Distances = {1, 2}
    MaxChunks = 2
    MaxSessions = 2
    MaxExtras = 1
    RequestSizes = {548, 1172, 1464}
    GuidLengths = {1, 20}
    MaxLost = 2
INVARIANTS
    FramingAgreed
    GameSetUpFirst
    OldConnectionDeaf
    DatagramsPass
PROPERTIES
    FirstClientPlays
    ToldInTheEnd
CHECK_DEADLOCK FALSE

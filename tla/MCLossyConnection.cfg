SPECIFICATION LiveConnectionSpec
CONSTANTS
    Capacity = 4
    WindowSize = 3
    OutgoingMtu = 60
    Frames <- ConnectionFrames
    MaxFrames = 3
    MaxNacks = 8
    MaxRanges = 1
    MaxLost = 2
    MaxLostAnswers = 1
INVARIANTS
    AckedArrived
PROPERTIES
    LossRepaired
CHECK_DEADLOCK FALSE

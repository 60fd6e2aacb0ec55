CONSTANTS
    Capacity = 3
    WindowSize = 2
    OutgoingMtu = 60
    MaxFrames = 3
    MaxNacks = 2
    MaxRanges = 1
    Frames <- AllFrames
SPECIFICATION Spec
INVARIANTS
    WindowAccounting
    DatagramFits
    CacheMatchesWire
    ExactlyOnePlace
    FirstSendInOrder
PROPERTIES
    StallsAfterAWindowOfNacks
    ImplementsLifecycle

CONSTANTS
    Capacity = 3
    WindowSize = 2
    OutgoingMtu = 60
    MaxFrames = 3
    MaxNacks = 0
    MaxRanges = 1
    Frames <- LiveFrames
SPECIFICATION Spec
INVARIANT NoFreedBodySent

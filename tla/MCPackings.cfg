SPECIFICATION PackingsSpec
CONSTANTS
    Sequences <- SomeSequences
    Base = 2
    Uint32Values = 32
    Cells = 70
    Unset = 0
    Touched = {0, 31, 64, 69}
    Sizes = {1, 2, 4, 8, 16, 32, 64, 127, 128, 256}
    MaxSets = 3
INVARIANTS
    RoundTrip
    IdsVisited
    StorageFaithful
PROPERTY ReadToTheEnd
\* The datagram is read, MaxSets is reached.
CHECK_DEADLOCK FALSE

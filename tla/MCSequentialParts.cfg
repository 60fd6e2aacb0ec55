SPECIFICATION PartsSpec
CONSTANTS
    Capacity = 3
    Items = {a, b}
    Default = empty
    ByteBits = 4
    IntBytes = 4
    LongBytes = 7
    Values <- CursorValues
    MaxValues = 2
    MaxChain = 2
    Cells = 5
    Unset <- NoState
    MaxSubChunks = 3
    Offset = 1
    Blocks <- SomeBlocks
    Stored <- StoredSubChunks
INVARIANTS
    CursorsAgree
    CursorFaithful
    PacketsRoundTrip
    LoginContained
    NbtFaithful
    StoredIsSent
    ViewsAgree
PROPERTY ImplementsDeque
\* Streams end, packets are read.
CHECK_DEADLOCK FALSE

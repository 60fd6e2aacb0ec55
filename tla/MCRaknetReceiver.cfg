CONSTANTS
    Messages <- MCMessages
    Parts <- MCParts
    FragmentId <- MCFragmentId
    Contents <- MCContents
    WordModulus = 16
    IdLimit = 3
    MaxDatagrams = 5
SPECIFICATION Spec
INVARIANTS
    GapsReported
    AckedWasHandled
    DeliveredWhole
\* A refused frame set id ends the connection, and the client stops at a bound.
CHECK_DEADLOCK FALSE

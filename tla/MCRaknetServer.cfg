CONSTANTS
    Endpoints = {e1, e2}
    Guids = {g1, g2}
SPECIFICATION LiveSpec
INVARIANTS
    OneGuidAccepted
    NoneGoneInHand
PROPERTIES
    EverySpawnedServed
\* A process that is gone takes no step.
CHECK_DEADLOCK FALSE

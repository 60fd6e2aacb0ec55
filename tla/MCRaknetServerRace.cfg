CONSTANTS
    Endpoints = {e1, e2}
    Guids = {g1, g2}
SPECIFICATION Spec
PROPERTY IterationUndisturbed
CHECK_DEADLOCK FALSE

CONSTANT Samples = 729
SPECIFICATION Spec
INVARIANT
    AnnouncedPayload
CHECK_DEADLOCK FALSE

\* One bad chunk, then the connection closes.
SPECIFICATION Spec
CONSTANTS
    MaxChunks = 1
    Permits = 1
CHECK_DEADLOCK FALSE
INVARIANTS
    RecoverPreventsCrash

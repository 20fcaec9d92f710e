\* Three pieces, either way, and three Recordings (off, on, off): relays that end
\* while the other is anywhere, recording switched at every step.
SPECIFICATION FairSpec
CONSTANTS
    MaxPieces = 3
    MaxRecordings = 3
CHECK_DEADLOCK FALSE
INVARIANTS
    TypeOK
    Bracketed
    CopyIsStream
PROPERTIES
    EndsTogether

\* Two connections, 3 frames, channels of 1 chunk: full channels, re-opened
\* connections and every overlap of a frame with Stop.  The process ends.
SPECIFICATION FairSpec
CONSTANTS
    Conns = {c1, c2}
    c1 = c1
    c2 = c2
    ChunkCap = 1
    MaxFrames = 3
CHECK_DEADLOCK FALSE
INVARIANTS
    TypeOK
    TablesAgree
    CrashOnlyInStop
    ChunksInOrder
    NoOrphan
PROPERTIES
    StopReturns

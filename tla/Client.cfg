\* A ring of 3 slots and 5 frames: the ring wraps, fills, drops its oldest
\* frame and overfills.  No symmetry: liveness is checked too.
SPECIFICATION FairSpec
CONSTANTS
    BufferSize = 3
    MaxFrames = 5
    Relays = {r1, r2}
    r1 = r1
    r2 = r2
INVARIANTS
    TypeOK
    QueueOrder
    NoLostWakeup
    SocketsSound
PROPERTIES
    KeepsPromise
    CloseReturns
    EventuallyWritten

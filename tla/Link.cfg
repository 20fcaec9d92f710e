\* Two game connections, two sockets of two frames each, three events, a
\* channel of two: a redial between any two events, both handlers at work at
\* once, frames and markers lost.  The proxy may fall silent.
SPECIFICATION MCSpec
CONSTANTS
    Conns = {c1, c2}
    c1 = c1
    c2 = c2
    MaxSockets = 2
    MaxWrites = 2
    MaxEvents = 3
    ChanCap = 2
    ChunkCap = 1
CHECK_DEADLOCK FALSE
INVARIANTS
    GoneIsEmpty
    OrderAcrossRedial
    NoWorkerAfterClose
PROPERTIES
    GoneIsForgotten

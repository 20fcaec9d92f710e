\* Two sockets, one after the other, two frames each, a channel of two: full
\* channels, two handlers at work at once, and Close at every point.
SPECIFICATION FairSpec
CONSTANTS
    MaxSockets = 2
    MaxFrames = 2
    ChanCap = 2
CHECK_DEADLOCK FALSE
INVARIANTS
    TypeOK
    NoSendAfterClose
    PassedOnInOrder
PROPERTIES
    CloseReturnsOrIdle

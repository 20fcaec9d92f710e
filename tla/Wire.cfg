\* Two segments in all, of every kind, cut in every way: junk, size fields
\* that lie, the opcode whose size makes the parser panic, a second frame on
\* the socket.  The game may stop at any time.
SPECIFICATION Spec
CONSTANTS
    Radix = 4
    Receive <- MCReceive
    Send <- MCSend
    Delimiter <- MCDelimiter
    ClientAddr <- MCClientAddr
    ServerAddr <- MCServerAddr
    ConnID = 6
    Segments <- MCSegments
    MaxSegments = 2
    MaxChunk = 8
    MaxInFlight = 2
CHECK_DEADLOCK FALSE
INVARIANTS
    TypeOK
    FramesIntact
    BytesAccounted
    ServerPackets
    ClientPackets

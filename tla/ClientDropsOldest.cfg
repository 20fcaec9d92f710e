\* client.go:53, "If the buffer is full, the oldest frame is dropped".
SPECIFICATION Spec
CONSTANTS
    BufferSize = 2
    MaxFrames = 4
    Relays = {r1}
    r1 = r1
INVARIANT OldestDropped

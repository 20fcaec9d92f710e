\* processor.go:63, "Stop shuts down the processor and all workers".
SPECIFICATION Spec
CONSTANTS
    Conns = {c1}
    c1 = c1
    ChunkCap = 1
    MaxFrames = 2
CHECK_DEADLOCK FALSE
INVARIANT StopDoesNotPanic

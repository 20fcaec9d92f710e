\* Three chunks of any direction and kind, one permit: packets of several
\* chunks in each direction, up to three panics, deserializers that queue.
SPECIFICATION FairSpec
CONSTANTS
    MaxChunks = 3
    Permits = 1
CHECK_DEADLOCK FALSE
INVARIANTS
    TypeOK
    Reassembly
    EndsOrderly
PROPERTIES
    ExitsAfterClose
    EveryChunkTaken

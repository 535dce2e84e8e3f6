SPECIFICATION Spec
CONSTANTS
    CONCURRENT = FALSE
    MaxStreams = 2
    MaxChunks = 2
    MaxDrops = 1
INVARIANT CompleteAnswer
CHECK_DEADLOCK FALSE

SPECIFICATION Spec
CONSTANTS
    MaxReqs = 2
    PerMessage = 1
    Chunks = 2
    MaxSockets = 1
INVARIANT LateChunksAreDropped
CHECK_DEADLOCK FALSE

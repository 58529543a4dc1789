SPECIFICATION Spec
CONSTANTS
    MaxSeq = 3
    MaxTurns = 2
    MaxSentences = 1
    MaxFrames = 2
    Chunks = 2
    QueueMax = 2
    Greeting = FALSE
    AllowInterruptWelcome = FALSE
    EmptyRetry = FALSE
PROPERTIES NoStaleChunkThroughGate
CHECK_DEADLOCK FALSE

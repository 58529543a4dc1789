SPECIFICATION FairSpec
CONSTANTS
    MaxSeq = 2
    MaxTurns = 2
    MaxSentences = 1
    MaxFrames = 1
    Chunks = 1
    QueueMax = 2
    Greeting = FALSE
    AllowInterruptWelcome = FALSE
    EmptyRetry = TRUE
INVARIANTS ActiveResponseIsLive WaitIsOwed
PROPERTIES ResponseCompletes
CHECK_DEADLOCK FALSE

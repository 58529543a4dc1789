SPECIFICATION FairSpec
CONSTANTS
    QueueMax = 1
    SttMax = 2
    MaxFrames = 2
    MaxSends = 1
    Chunks = 2
    MaxClears = 2
    MaxActs = 3
INVARIANTS EndReachesReaders NothingSkipped AckServesOneClear
PROPERTIES EndIsNoticed StopEnds
CHECK_DEADLOCK FALSE

SPECIFICATION FairSpec
CONSTANTS
    MaxSockets = 3
    MaxFrames = 4
    BufferMax = 2
    Backoffs = 1
    KeepAlive = TRUE
INVARIANTS FramesInOrder NoFrameForgotten OneConnection
PROPERTIES SendReturns
CHECK_DEADLOCK FALSE

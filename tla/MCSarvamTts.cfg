SPECIFICATION FairSpec
CONSTANTS
    MaxReqs = 3
    PerMessage = 2
    Chunks = 2
    MaxSockets = 2
INVARIANTS OwnAudio OneConnection
PROPERTIES SynthesisEnds
CHECK_DEADLOCK FALSE

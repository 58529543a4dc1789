SPECIFICATION FairSpec
CONSTANTS
    MaxReqs = 4
    PerMessage = 2
    Chunks = 2
INVARIANTS OwnAudio CancelIsHeeded
PROPERTIES SynthesisEnds
CHECK_DEADLOCK FALSE

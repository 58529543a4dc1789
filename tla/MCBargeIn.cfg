SPECIFICATION Spec
CONSTANTS
    MaxSeq = 3
    MaxTurns = 2
    MaxSentences = 1
    MaxFrames = 2
    Chunks = 2
    QueueMax = 2
    Greeting = TRUE
    AllowInterruptWelcome = TRUE
    EmptyRetry = FALSE
INVARIANTS OneLiveResponse BlockedGateHasNoLiveResponse LateAudioIsOneFrame PlayedOrInterrupted IdleManagerLeavesGateOpen EndIsOnItsWay
PROPERTIES LifeSpecHolds
CHECK_DEADLOCK FALSE

SPECIFICATION Spec
CONSTANTS
    Phrases = 2
    Open <- Last
    Long <- Last
    Talks = 2
    MinSpeech = 1
    MinSilence = 1
    MaxSilence = 2
    Grace = 1
    RetryDelay = 2
    MinAudio = 1
    StopMs = 1
    MaxLag = 1
    Configs <- TwoConfigs
INVARIANTS VerdictIsOfThisTurn TextHasACheck FinalTextOnce OverdueTextIsEmitted
PROPERTIES NothingHeardIsLost
CHECK_DEADLOCK FALSE

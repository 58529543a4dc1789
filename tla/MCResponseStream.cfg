SPECIFICATION FairSpec
CONSTANTS
    MaxTokens = 5
    MinLen = 2
    MaxLen = 3
INVARIANTS NothingLostOnTheWay CancelStopsTheStream NothingPullsOnAfterwards
PROPERTIES ResponseEnds
CHECK_DEADLOCK FALSE

SPECIFICATION FairSpec
CONSTANTS
    Unmodelled <- Sinks
    Failing <- Fragile
    ServerCancels = TRUE
INVARIANTS RecordIsFinal ClosedStopsProviders
PROPERTIES EndCloses
CHECK_DEADLOCK FALSE

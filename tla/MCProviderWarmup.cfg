SPECIFICATION PoolFairSpec
CONSTANTS
    Ids = {i1, i2}
    Aliases = {a1}
    Bundles = {b1, b2}
    Sessions = {w1, w2}
    NoBundle = NoBundle
    NoId = NoId
INVARIANTS SoleOwner TasksFollowEntries
PROPERTIES BundlesSettle
CHECK_DEADLOCK FALSE

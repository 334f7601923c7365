CONSTANTS
    Lanes = 2
    Prefetch = 2
    Batches = 5
    Length <- LaneLength
    Config <- Considered
    MaxEvents = 3
    ZeroBatches = 3
    MaxZeroEvents = 5
CHECK_DEADLOCK FALSE
SPECIFICATION LoaderSpec
INVARIANTS ResumedExactly WholeEpoch StatesLoad ZeroContinues
PROPERTY CallsReturn

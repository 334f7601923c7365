\* A worker dies while the other's sample of the same batch is taken.
SPECIFICATION FairDelivery
CONSTANTS
    Start = 0
    End = 4
    InitialDepth = 2
    Ceiling = 2
    GrowthMultiplier = 2
    WorkerCeiling = 2
    Restored = {}
    InOrder = TRUE
    BatchSize = 2
    Capacity = 2
    CostOrdered = FALSE
    UserCollation = FALSE
    Policies = {"restart"}
    Timed = FALSE
    MaxDeaths = 1
INVARIANT RestartContinues

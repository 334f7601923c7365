\* Three batches of two, the second delivered before the checkpoint this
\* iterator resumes from.
SPECIFICATION FairDelivery
CONSTANTS
    Start = 0
    End = 6
    InitialDepth = 4
    Ceiling = 4
    GrowthMultiplier = 2
    WorkerCeiling = 2
    Restored = {2, 3}
    InOrder = FALSE
    BatchSize = 2
    Capacity = 2
    CostOrdered = TRUE
    UserCollation = FALSE
    Policies = {"restart"}
    Timed = FALSE
    MaxDeaths = 2
INVARIANTS FrontierWindow BatchesWhole
PROPERTIES ServesStream

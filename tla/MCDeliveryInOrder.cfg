\* Single samples in order, either policy, a timeout, and two deaths; the
\* frontier grows from two samples to the three one ring holds.
SPECIFICATION FairDelivery
CONSTANTS
    Start = 0
    End = 5
    InitialDepth = 2
    Ceiling = 3
    GrowthMultiplier = 2
    WorkerCeiling = 2
    Restored = {}
    InOrder = TRUE
    BatchSize = 1
    Capacity = 3
    CostOrdered = TRUE
    UserCollation = FALSE
    Policies = {"restart", "close"}
    Timed = TRUE
    MaxDeaths = 2
INVARIANTS OccupancyBound WorkKept
PROPERTIES ImplementsStream EpochEnds

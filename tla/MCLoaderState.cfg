\* Samples run and decoded in order, one worker replaced; four staged batches,
\* the last of which the iterator refuses; processes that die at any step while
\* writes fail; epochs 0 to 2 in either delivery order.
CONSTANTS
    Samples = 6
    Workers = 2
    Storage = {a, b}
    Temporary = {}
    Ascending = TRUE
    InOrder = TRUE
    MaxRestarts = 1
    Batches = 4
    Failing = {4}
    ClosesLoader = FALSE
    UseAfterClose = FALSE
    p1 = p1
    p2 = p2
    p3 = p3
    n1 = n1
    n2 = n2
    Processes = {p1, p2, p3}
    Pids = {1, 2}
    Regions = {n1, n2}
    OwnerOf <- MCOwnerOf
    Torn = FALSE
    Failures = TRUE
    MaxCreations = 3
    EpochBatches = 3
    Deliveries = {"strict", "on-completion"}
    CaptureIdle = FALSE
    MaxEpoch = 2
CHECK_DEADLOCK FALSE
SPECIFICATION StateSpec
INVARIANTS ValuesFaithful DeliveredOnly RegistryKept ExactlyOnce
PROPERTIES StagingReturns FreshEpochs

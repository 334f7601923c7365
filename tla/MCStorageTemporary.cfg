\* Samples in storages of their own, which a worker drops after sending.
SPECIFICATION Spec
CHECK_DEADLOCK FALSE
CONSTANTS
    Samples = 4
    Workers = 2
    Storage = {a, b, c, d}
    Temporary = {a, b, c, d}
    Ascending = TRUE
    InOrder = TRUE
    MaxRestarts = 0
INVARIANT ValuesFaithful

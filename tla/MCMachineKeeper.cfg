\* Any three calls, a need that may change and counters that may fail.
SPECIFICATION FairKeeper
CHECK_DEADLOCK FALSE
CONSTANTS
    Step = 2
    Maximum = 5
    Initial = 1
    Needs = {0, 3, 4, 6}
    MaxDisturbances = 2
    Counters = TRUE
    MaxCalls = 3
INVARIANTS
    MinimalDuty
PROPERTIES
    CallsSeen
    EnoughDuty

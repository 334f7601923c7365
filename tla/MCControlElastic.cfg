CONSTANTS
    FleetConfigs <- Nobody
    FleetWorkers = 2
    Commands = 3
    Room = 2
    MaxDeaths = 1
    HandoffConfigs <- Nobody
    HandoffWorkers = 2
    HandoffLength = 3
    MaxHandoffEvents = 4
    WidthConfigs <- Nobody
    WidthWorkers = 3
    WidthLength = 4
    CadenceBatches = 2
    CadenceTicks = 1
    StepClip = 1
    Hysteresis = 2
    RankConfigs <- ExactJobs
    Worlds = {1, 2, 4}
    MaxResumes = 2
    RouteConfigs <- Nobody
    Cpus = {0, 1}
    GaplessLimit = 2
    RouteCadence = 1
    Machines = {"a", "b"}
    PriorMachines = {"a"}
    Savers = {1, 2}
    Whole = 4
    MaxWidth = 5
    MaxSaves = 3
CHECK_DEADLOCK FALSE
SPECIFICATION ControlSpec
INVARIANT ResumeAccepted

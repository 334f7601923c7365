CONSTANTS
    StreamConfigs <- Sources
    LaneCount = 2
    BatchSize = 2
    Held = 1
    LaneLength <- ShorterSecond
    OversizeFrom = 4
    MaxStreamEvents = 4
    ThreadConfigs <- Orders
    Samples = 5
    Width = 2
    Threads = 2
    Frontier = 3
    MaxThreadEvents = 2
    PipeConfigs <- Pipelines
    PipeBatches = 3
    Makers = 2
    Prefetch = 2
    MaxPipeEvents = 3
    SampleConfigs <- Ways
    Streams <- Yields
    Native <- Own
    BatchWidth = 2
    MaxSampleEvents = 4
CHECK_DEADLOCK FALSE
SPECIFICATION RuntimesSpec
INVARIANTS StreamContinues ThreadsExact BatchesKept SamplerContinues
PROPERTY NextReturns

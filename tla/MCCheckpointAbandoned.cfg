\* A state is captured after the iterator was abandoned.
SPECIFICATION Spec
CONSTANTS
    Batches = 3
    Deliveries = {"strict"}
    CaptureIdle = TRUE
    MaxEpoch = 2
INVARIANT CaptureNamesNext

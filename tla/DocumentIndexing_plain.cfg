SPECIFICATION Spec
CONSTANTS
    MaxAttempts = 2
    MaxTicks = 1
    PerTick = 1
    MaxBatch = 4
    MaxFaults = 1
    PollOffset = 0
    Worker = {w1}
    Checkpointed = FALSE
    Hazards = {}
INVARIANT NoDocumentSkipped
CHECK_DEADLOCK FALSE

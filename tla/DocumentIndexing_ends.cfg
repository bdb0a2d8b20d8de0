SPECIFICATION FairSpec
CONSTANTS
    MaxAttempts = 2
    MaxTicks = 1
    PerTick = 1
    MaxBatch = 3
    MaxFaults = 2
    PollOffset = 0
    Worker = {w1}
    Checkpointed = TRUE
    Hazards <- AllHazards
INVARIANT SingleActive
PROPERTIES KeepsLifecycle AttemptsEnd
CHECK_DEADLOCK FALSE

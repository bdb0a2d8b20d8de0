SPECIFICATION Spec
CONSTANTS
    MaxAttempts = 3
    MaxTicks = 1
    PerTick = 2
    MaxBatch = 3
    MaxFaults = 2
    PollOffset = 1
    Worker = {w1}
    Checkpointed = TRUE
    Hazards <- NoHazards
INVARIANTS NoDocumentSkipped CheckpointCovered
PROPERTY NoBatchOverwritten
CHECK_DEADLOCK FALSE

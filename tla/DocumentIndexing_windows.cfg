SPECIFICATION Spec
CONSTANTS
    MaxAttempts = 3
    MaxTicks = 3
    PerTick = 1
    MaxBatch = 4
    MaxFaults = 1
    PollOffset = 0
    Worker = {w1, w2}
    Checkpointed = TRUE
    Hazards <- NoHazards
SYMMETRY WorkerSymmetry
INVARIANT TypeOK
PROPERTIES VerdictIsFinal KeepsPromise
CHECK_DEADLOCK FALSE

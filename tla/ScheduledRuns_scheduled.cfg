SPECIFICATION FairSpec
CONSTANTS
    Run = {r1, r2}
    Beat = {b1, b2}
    Expires = 1
    QueuedLimit = 1
    RunningLimit = 3
    WakeLimit = 1
    TurnLimit = 1
    MemoLimit = 1
    MaxFaults = 2
    Hazards <- AllHazards
INVARIANTS TypeOK OneAtATime GrantsEndWithRun
PROPERTIES VerdictStands RunsEnd

SPECIFICATION FairSpec
CONSTANTS
    Turn = {t1, t2}
    Runner = {r1, r2}
    Reader = {p}
    MaxFaults = 1
    Hazards <- AllHazards
INVARIANTS TypeOK OneInFlight PostedOnce OneActiveTurn
PROPERTIES VerdictIsFinal InterruptNotLost TurnsEnd
CHECK_DEADLOCK FALSE

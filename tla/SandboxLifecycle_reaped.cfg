SPECIFICATION Spec
CONSTANTS
    Work = {w1}
    Restore = {r1}
    Turn = {c1}
    MaxSnapshots = 2
    MaxFaults = 1
    Hazards <- ListErrors
PROPERTIES NothingUnsavedReaped

SPECIFICATION Spec
CONSTANTS
    c1 = c1
    c2 = c2
    d1 = d1
    d2 = d2
    Document = {d1}
    CcPair = {c1, c2}
    Yields <- BothShared
    MaxGen = 1
    MaxRetries = 1
    MaxFaults = 0
    Hazards <- Overlap
PROPERTIES DetachLeavesHolder
CHECK_DEADLOCK FALSE

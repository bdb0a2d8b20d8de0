SPECIFICATION FairSpec
CONSTANTS
    c1 = c1
    c2 = c2
    d1 = d1
    d2 = d2
    Document = {d1}
    CcPair = {c1}
    Yields <- OnePair
    MaxGen = 3
    MaxRetries = 1
    MaxFaults = 2
    Hazards <- AllHazards
PROPERTIES DeletionCompletes
CHECK_DEADLOCK FALSE

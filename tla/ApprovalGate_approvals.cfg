SPECIFICATION FairSpec
CONSTANTS
    r1 = r1
    r2 = r2
    read = read
    send = send
    Request = {r1, r2}
    Call = {c1, c2}
    ActionType = {read, send}
    Needs <- TwoNeeds
    PreApproved = {r1}
    MaxFaults = 1
    Hazards <- AllHazards
INVARIANTS TypeOK AnswerMatchesRow GrantsDoNotSpread GrantLeavesNoneWaiting RowsSettled
PROPERTIES DecisionIsFinal RequestsEnd
CHECK_DEADLOCK FALSE

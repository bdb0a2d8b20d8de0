SPECIFICATION Spec
CONSTANTS
    Work = {w1}
    Restore = {r1, r2}
    Turn = {c1}
    MaxSnapshots = 2
    MaxFaults = 1
    Hazards <- AllHazards
SYMMETRY Requests
INVARIANTS TypeOK WorkKept RowsHaveBlobs PodAccounted AnswersHonestly ProvisioningOwned
PROPERTIES SnapshotsGrow

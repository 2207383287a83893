SPECIFICATION Spec
CONSTANTS
    j1 = j1
    j2 = j2
    Jobs = {j1, j2}
    MaxTries = 2
    MaxFaults = 1
    MaxCalls = 3
    StartFaults = TRUE
SYMMETRY Symmetry
INVARIANTS
    TypeOK
    CleanDelete
    NoLostContainer
PROPERTIES
    DeletedStaysDeleted
CHECK_DEADLOCK FALSE

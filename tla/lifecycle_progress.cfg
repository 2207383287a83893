SPECIFICATION FairSpec
CONSTANTS
    j1 = j1
    j2 = j2
    Jobs = {j1, j2}
    MaxTries = 2
    MaxFaults = 1
    MaxCalls = 2
    StartFaults = FALSE
PROPERTIES
    DeleteCompletes
    SelfHeals
CHECK_DEADLOCK FALSE

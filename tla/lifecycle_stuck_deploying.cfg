SPECIFICATION FairSpec
CONSTANTS
    j1 = j1
    Jobs = {j1}
    MaxTries = 1
    MaxFaults = 1
    MaxCalls = 2
    StartFaults = FALSE
PROPERTIES
    StuckDeployIsHealed
CHECK_DEADLOCK FALSE

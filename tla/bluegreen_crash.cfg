SPECIFICATION DeploySpec
CONSTANTS
    d1 = d1
    Deployers = {d1}
    MaxVersion = 2
    MaxFaults = 0
    MaxCrashes = 1
    MaxExits = 0
PROPERTIES
    LiveSlotIsKept
CHECK_DEADLOCK FALSE

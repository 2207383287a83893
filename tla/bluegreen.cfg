SPECIFICATION FairSpec
CONSTANTS
    d1 = d1
    Deployers = {d1}
    MaxVersion = 4
    MaxFaults = 1
    MaxCrashes = 2
    MaxExits = 2
    HealVersions = 2
    HealFaults = 1
    HealCrashes = 1
    HealExits = 1
INVARIANTS
    TypeOK
    OneSlotLeft
PROPERTIES
    KeepsPromise
    DeploymentsEnd
    ContainerComesBack
CHECK_DEADLOCK FALSE

SPECIFICATION FairSpec
CONSTANTS
    MaxNumber = 6
    MaxReplicas = 3
    AutoMin = 1
    AutoMax = 3
    MaxTries = 2
    MaxEvents = 3
INVARIANTS
    TypeOK
    ScalingKeepsAReplica
    OvershootIsBounded
PROPERTIES
    SettlesOnDesired
CHECK_DEADLOCK FALSE

SPECIFICATION FairSpec
CONSTANTS
    s1 = s1
    s2 = s2
    s3 = s3
    NoStream = NoStream
    Streams = {s1, s2, s3}
    MaxCalls = 2
    MaxCrashes = 1
INVARIANTS
    TypeOK
    RegisteredIsServed
PROPERTIES
    ComesBack
CHECK_DEADLOCK FALSE

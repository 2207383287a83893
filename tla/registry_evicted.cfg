SPECIFICATION Spec
CONSTANTS
    s1 = s1
    s2 = s2
    s3 = s3
    NoStream = NoStream
    Streams = {s1, s2}
    MaxCalls = 0
    MaxCrashes = 0
INVARIANTS
    ActiveStreamIsConnected
CHECK_DEADLOCK FALSE

SPECIFICATION FairSpec
CONSTANTS
    c1 = c1
    c2 = c2
    NoCmd = NoCmd
    Cmds = {c1, c2}
    MaxAnswers = 1
    MaxLines = 2
    LogBuffer = 1
INVARIANTS
    TypeOK
    NothingLeftPending
PROPERTIES
    SendReturns
    LoopKeepsReceiving
CHECK_DEADLOCK FALSE

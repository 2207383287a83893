SPECIFICATION Spec
CONSTANTS
    c1 = c1
    c2 = c2
    NoCmd = NoCmd
    Cmds = {c1}
    MaxAnswers = 1
    MaxLines = 2
    LogBuffer = 1
INVARIANTS
    NoSendOnClosedChannel
CHECK_DEADLOCK FALSE

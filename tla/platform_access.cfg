SPECIFICATION FairSpec
CONSTANTS
    Emails = {e1, e2}
    NoEmail = NoEmail
    Requests = {p1, p2}
    MaxUsers = 2
    MaxTokens = 2
    MaxEvents = 1
    Workers = {w1}
    RegTokens = {t1}
    Calls = {p1, p2}
    Nobody = Nobody
    Validity = 3
    RenewBefore = 2
    MaxCerts = 3
    LastDay = 4
    MaxStops = 1
    Posts = {p1}
    Editors = {e1, e2}
    Filters = {"", "main", "dev"}
    MaxSecrets = 2
    QueueCap = 1
    MaxSent = 3
    MaxPrinted = 1
    Lines = {"plain", "error", "block"}
    BlockLines = 1
    TailLines = 1
    MaxLines = 2
    MaxStreams = 2
    MaxTasks = 1
    MaxEntries = 3
    MaxOpens = 2
INVARIANTS
    TypeOK
    OffAccountsGetNoSession
    
    RenewalMargin
    
    JobsWereAdmitted
    OneFollower
    
    RowsSentOnce
PROPERTIES
    SessionEnds
CHECK_DEADLOCK FALSE

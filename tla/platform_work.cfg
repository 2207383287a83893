SPECIFICATION Spec
CONSTANTS
    MaxFaults = 1
    Services = {s1, s2}
    MaxJobs = 3
    MaxStarts = 2
    Updates = {u1, u2}
    MaxRunning = 1
    MaxPlanes = 4
    UpdateFaults = 2
    Kinds = {"heal", "bluegreen", "autoscale", "deploy", "rolling", "start", "stop", "remove"}
    AsMin = 1
    AsMax = 3
    MaxQueue = 2
    MaxLosses = 2
    Buckets = {b1, b2}
    MaxRecords = 2
    MaxSeconds = 1
    MaxWrites = 1
    Replicas = 2
    MaxDigest = 2
    MaxReplicas = 5
    ImageFaults = 3
    BoxNames = {h, n1, n2}
    Images = {i1, i2}
    Calls = {c1, c2}
    Ops = {"create", "start", "stop", "restart", "delete", "rename", "update",
           "deleteImage", "createNetwork", "deleteNetwork", "createVolume", "deleteVolume"}
    MaxBoxes = 3
    FewNames = {h, n1}
    FewImages = {i1}
    RowIds = {1, 2}
    UserNames = {"a"}
    Sources = {"image", "dockerfile", "compose", "git", "manifest", "template"}
    Edits = {"update", "redeploy", "delete", "patch"}
    Jobs = {1, 2}
    MaxTries = 2
    MaxEdits = 1
INVARIANTS
    TypeOK
    
    PlaneStaysUp
    
    UpdateKeepsServing
    
    ManifestFitsItsRow
PROPERTIES
    CleanupSparesWhatIsUsed
CHECK_DEADLOCK FALSE

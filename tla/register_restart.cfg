SPECIFICATION Spec
CONSTANTS
    l1 = l1
    l2 = l2
    w1 = w1
    w2 = w2
    x1 = x1
    Leaders = {l1}
    Workers = {w1}
    Strangers = {}
    GroupOf <- OneGroup
    RequeueLimit = 2
    AbruptDeletes = FALSE
    Refusals = TRUE
    MaxVersion <- RoleVersions
    LeaderVersions = 3
    W1Versions = 4
    WorkerVersions = 0
    StrangerVersions = 0
    MaxAddr = 1
    MaxFaults = 1
    MaxCrashes = 1
CHECK_DEADLOCK FALSE
INVARIANTS
    TypeOK
    CompleteWhenQuiet
    SoundWhenQuiet

SPECIFICATION HFairSpec
CONSTANTS
    l1 = l1
    l2 = l2
    w1 = w1
    w2 = w2
    x1 = x1
    Leaders = {l1}
    Workers = {w1}
    Strangers = {x1}
    GroupOf <- OneGroup
    RequeueLimit = 3
    AbruptDeletes = TRUE
    Refusals = TRUE
    MaxVersion <- RoleVersions
    LeaderVersions = 2
    W1Versions = 3
    WorkerVersions = 0
    StrangerVersions = 1
    MaxAddr = 2
    MaxFaults = 1
    MaxCrashes = 0
CHECK_DEADLOCK FALSE
PROPERTIES
    
    ImplementsMembership

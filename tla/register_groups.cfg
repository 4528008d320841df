SPECIFICATION Spec
CONSTANTS
    l1 = l1
    l2 = l2
    w1 = w1
    w2 = w2
    x1 = x1
    Leaders = {l1}
    Workers = {w2}
    Strangers = {}
    GroupOf <- TwoGroups
    RequeueLimit = 2
    AbruptDeletes = FALSE
    Refusals = TRUE
    MaxVersion <- RoleVersions
    LeaderVersions = 2
    W1Versions = 0
    WorkerVersions = 2
    StrangerVersions = 0
    MaxAddr = 1
    MaxFaults = 0
    MaxCrashes = 0
CHECK_DEADLOCK FALSE
INVARIANT OwnGroupOnly

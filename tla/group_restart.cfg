SPECIFICATION Spec
CONSTANTS
    g1 = g1
    g2 = g2
    lead1 = lead1
    work1 = work1
    lead2 = lead2
    shared = shared
    t1 = t1
    t2 = t2
    Groups = {g1}
    Names = {lead1,work1,shared}
    Specs <- Edited
    Threads = {t1,t2}
    MaxDeletions = 1
    MaxGroupDeletions <- NoDeletions
    MaxFaults = 1
    MaxCrashes = 2
CHECK_DEADLOCK FALSE
INVARIANTS
    TypeOK
    DeployedWhenQuiet
    

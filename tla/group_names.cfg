SPECIFICATION Spec
CONSTANTS
    g1 = g1
    g2 = g2
    lead1 = lead1
    work1 = work1
    lead2 = lead2
    shared = shared
    t1 = t1
    t2 = t2
    Groups = {g1,g2}
    Names = {lead1,lead2,shared}
    Specs <- SharedName
    Threads = {t1,t2}
    MaxDeletions = 0
    MaxGroupDeletions <- OneDeletion
    MaxFaults = 0
    MaxCrashes = 1
CHECK_DEADLOCK FALSE
SYMMETRY ThreadSymmetry
INVARIANTS
    ReadyIsOwn
    

SPECIFICATION Spec
CONSTANTS
    o1 = o1
    o2 = o2
    g1 = g1
    g2 = g2
    t1 = t1
    t2 = t2
    Operators = {o1,o2}
    Groups = {g1,g2}
    Claims <- SharedGroup
    NamespaceOf <- OneNamespace
    HandMade = {g2}
    Threads = {t1,t2}
    MaxOperatorDeletions <- OneDeletion
    MaxGroupDeletions = 1
    MaxFaults = 1
    MaxCrashes = 1
CHECK_DEADLOCK FALSE
SYMMETRY ThreadSymmetry
INVARIANTS
    TypeOK
    RecordedIsOwn
    GroupsWhenQuiet

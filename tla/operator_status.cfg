SPECIFICATION Spec
CONSTANTS
    o1 = o1
    g1 = g1
    g2 = g2
    lead1 = lead1
    work1 = work1
    lead2 = lead2
    t1 = t1
    t2 = t2
    Operators = {o1}
    Groups = {g1,g2}
    Names = {lead1,work1,lead2}
    Claims <- TwoGroups
    NamespaceOf <- OneNamespace
    Specs <- TheirSets
    MaxGroupDeletions <- AnyNumber
    MaxHandDeletions = 0
    GroupThreads = {t1}
    OperatorThreads = {t2}
    MaxOperatorDeletions <- OneDeletion
    MaxFaults = 0
    MaxCrashes = 0
CHECK_DEADLOCK FALSE
INVARIANT StatusesAreComplete

SPECIFICATION FairSpec
CONSTANTS
    o1 = o1
    g1 = g1
    g2 = g2
    lead1 = lead1
    work1 = work1
    lead2 = lead2
    t1 = t1
    t2 = t2
    Operators = {o1}
    Groups = {g1}
    Names = {lead1}
    Claims <- OneGroup
    NamespaceOf <- OneNamespace
    Specs <- LeadersOnly
    MaxGroupDeletions <- AnyNumber
    MaxHandDeletions = 1
    GroupThreads = {t1}
    OperatorThreads = {t2}
    MaxOperatorDeletions <- OneDeletion
    MaxFaults = 0
    MaxCrashes = 1
CHECK_DEADLOCK FALSE
INVARIANTS
    ServedWhenQuiet
PROPERTIES
    
    ImplementsOperatorSync
    OperatorsAreServed
    DeletedIsGone

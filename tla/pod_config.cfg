SPECIFICATION Spec
CONSTANTS
    Groups <- ThreeGroups
    SpecsOf <- TheirSpecs
    Unset = Unset
CHECK_DEADLOCK FALSE
INVARIANTS
    TypeOK
    RequestsReach
    ServiceReachesLeaders
    RefusedForCause

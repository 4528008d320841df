----------------------------- MODULE OperatorProofs -----------------------------
(* The operator controller as a whole implements each of its halves, so that what  *)
(* is proved of a half holds of the two together, and the two serve what they have *)
(* promised, for all operators, groups, specs, threads, faults and restarts.       *)
EXTENDS Operator, FunctionTheorems, TLAPS

\* The halves with what is proved of them.
GSP == INSTANCE GroupDeployedProofs WITH Threads <- GroupThreads, MaxDeletions <- 0
OSP == INSTANCE OperatorSyncProofs WITH
         Threads <- OperatorThreads, HandMade <- {},
         MaxGroupDeletions <- MaxHandDeletions,
         groups <- OwnedGroups, queue <- operatorQueue, at <- operatorAt,
         index <- operatorIndex, groupDeletions <- handDeletions,
         faults <- operatorFaults, missed <- operatorMissed

\* What the halves assume follows from what the whole assumes.
LEMMA HalvesAssume ==
    /\ Groups # {}
    /\ Specs \in [Groups -> Seq(Seq(GSP!SetSpec)) \ {<<>>}]
    /\ \A g \in Groups : \A v \in DOMAIN Specs[g] :
          /\ Specs[g][v] # <<>>
          /\ \A i \in DOMAIN Specs[g][v] : Specs[g][v][i].leader <=> i = 1
    /\ MaxGroupDeletions \in [Groups -> Nat]
    /\ {0, MaxFaults, MaxCrashes} \subseteq Nat
    /\ Operators # {}
    /\ Claims \in [Operators -> Seq(Seq(Groups)) \ {<<>>}]
    /\ MaxOperatorDeletions \in [Operators -> Nat]
    /\ {MaxHandDeletions, MaxFaults, MaxCrashes} \subseteq Nat
<1>1. GSP!SetSpec = GS!SetSpec
  BY DEF GS!SetSpec, GSP!SetSpec
<1>2. 0 \in Nat
  OBVIOUS
<1> QED BY <1>1, <1>2, OperatorAssumption

\* The two instances of a half are one specification.
LEMMA SameGroupHalf ==
    /\ GS!Init <=> GSP!Init
    /\ GS!Next <=> GSP!Next
    /\ UNCHANGED GS!vars <=> UNCHANGED GSP!vars
BY DEF GS!AfterDeployment, GS!AnyGroup, GS!CollectDeployment, GS!CollectService,
         GS!Crash, GS!CreateDeployment, GS!CreateGroup, GS!CreateService,
         GS!Current, GS!DeleteDeployment, GS!DeleteGroup, GS!Deliver,
         GS!DeliverDeployment, GS!DeliverService, GS!Environment,
         GS!FindDeployment, GS!FindService, GS!GetGroup, GS!GoOn, GS!Init,
         GS!InjectFault, GS!IsComputeGroupCreated, GS!IsControlledBy,
         GS!MakeDeployment, GS!NewGroup, GS!Next, GS!NextSet, GS!NoDeployment,
         GS!NoGroup, GS!NoService, GS!NotControlled, GS!Orphaned, GS!OwnerOf,
         GS!ProcessNextComputeGroup, GS!PruneStatus, GS!Pruned, GS!Recorded,
         GS!Restarted, GS!SameReplicas, GS!Set, GS!Sets, GS!UpdateGroup,
         GS!UpdateReplicas, GS!UpdateStatus, GS!Updated, GS!api, GS!bounds,
         GS!caches, GS!thread, GS!vars, GSP!AfterDeployment, GSP!AnyGroup,
         GSP!CollectDeployment, GSP!CollectService, GSP!Crash,
         GSP!CreateDeployment, GSP!CreateGroup, GSP!CreateService, GSP!Current,
         GSP!DeleteDeployment, GSP!DeleteGroup, GSP!Deliver,
         GSP!DeliverDeployment, GSP!DeliverService, GSP!Environment,
         GSP!FindDeployment, GSP!FindService, GSP!GetGroup, GSP!GoOn, GSP!Init,
         GSP!InjectFault, GSP!IsComputeGroupCreated, GSP!IsControlledBy,
         GSP!MakeDeployment, GSP!NewGroup, GSP!Next, GSP!NextSet,
         GSP!NoDeployment, GSP!NoGroup, GSP!NoService, GSP!NotControlled,
         GSP!Orphaned, GSP!OwnerOf, GSP!ProcessNextComputeGroup, GSP!PruneStatus,
         GSP!Pruned, GSP!Recorded, GSP!Restarted, GSP!SameReplicas, GSP!Set,
         GSP!Sets, GSP!UpdateGroup, GSP!UpdateReplicas, GSP!UpdateStatus,
         GSP!Updated, GSP!api, GSP!bounds, GSP!caches, GSP!thread, GSP!vars

LEMMA SameOperatorHalf ==
    /\ OS!Init <=> OSP!Init
    /\ OS!Next <=> OSP!Next
    /\ UNCHANGED OS!vars <=> UNCHANGED OSP!vars
BY DEF OS!Alive, OS!AnyOperator, OS!Claimed, OS!CollectGroup, OS!Crash, OS!CreateGroup,
         OS!CreateGroupByHand, OS!CreateOperator, OS!Current, OS!DeleteGroup,
         OS!DeleteOperator, OS!Deliver, OS!DeliverGroup, OS!Environment,
         OS!FindOtherGroup, OS!FindOwnGroup, OS!GetOperator, OS!GroupAt, OS!Init,
         OS!InjectFault, OS!IsControlledBy, OS!MakeComputeGroup, OS!NewOperator,
         OS!Next, OS!NextGroup, OS!NoGroup, OS!Nobody, OS!Orphaned, OS!OwnerOf,
         OS!ProcessNextOperator, OS!Recorded, OS!ToStatus, OS!UpdateOperator,
         OS!UpdateOperatorStatus, OS!Updated, OS!bounds, OS!thread, OS!vars,
         OSP!Alive, OSP!AnyOperator, OSP!Claimed, OSP!CollectGroup, OSP!Crash,
         OSP!CreateGroup, OSP!CreateGroupByHand, OSP!CreateOperator, OSP!Current,
         OSP!DeleteGroup, OSP!DeleteOperator, OSP!Deliver, OSP!DeliverGroup,
         OSP!Environment, OSP!FindOtherGroup, OSP!FindOwnGroup, OSP!GetOperator,
         OSP!GroupAt, OSP!Init, OSP!InjectFault, OSP!IsControlledBy,
         OSP!MakeComputeGroup, OSP!NewOperator, OSP!Next, OSP!NextGroup,
         OSP!NoGroup, OSP!Nobody, OSP!Orphaned, OSP!OwnerOf,
         OSP!ProcessNextOperator, OSP!Recorded, OSP!ToStatus, OSP!UpdateOperator,
         OSP!UpdateOperatorStatus, OSP!Updated, OSP!bounds, OSP!thread, OSP!vars

--------------------------------------------------------------------------------
(* The steps.                                                                     *)

\* What the two halves keep of their types, and of the groups in snapshots.
Types == GSP!IInv /\ GSP!Existing /\ OSP!TypeAndKnown

\* A step of the group half that keeps the existence and the UID of every group is
\* none to the operator half, if controllers and its own variables stay.
LEMMA StillOwned ==
    ASSUME UNCHANGED <<controllerOf, operatorHalf, crashes>>,
           \A g \in Groups : groups'[g].exists = groups[g].exists /\ groups'[g].uid = groups[g].uid
    PROVE  UNCHANGED OS!vars
<1>1. OwnedGroups' = OwnedGroups
  BY DEF OwnedGroups
<1> QED BY <1>1 DEF OS!vars, operatorHalf

LEMMA StillGrouped ==
    ASSUME UNCHANGED <<groups, groupHalf, crashes>>
    PROVE  UNCHANGED GS!vars
BY DEF GS!vars, groupHalf

\* The steps of the operator half in which no restart is counted.
LEMMA OperatorStepsCount ==
    ASSUME \/ OS!Deliver \/ \E t \in OperatorThreads : OS!ProcessNextOperator(t)
           \/ \E o \in Operators :
                 OS!CreateOperator(o) \/ OS!UpdateOperator(o) \/ OS!DeleteOperator(o)
    PROVE  UNCHANGED crashes
BY DEF OS!Deliver, OS!DeliverGroup, OS!ProcessNextOperator, OS!GetOperator, OS!FindOwnGroup,
       OS!FindOtherGroup, OS!CreateGroup, OS!UpdateOperatorStatus, OS!CreateOperator,
       OS!UpdateOperator, OS!DeleteOperator, OS!bounds

LEMMA GroupStepsCount ==
    ASSUME \/ GS!Deliver \/ \E t \in GroupThreads : GS!ProcessNextComputeGroup(t)
           \/ \E g \in Groups : GS!CollectService(g)
           \/ \E n \in Names : GS!CollectDeployment(n)
    PROVE  UNCHANGED crashes
BY DEF GS!Deliver, GS!DeliverDeployment, GS!DeliverService, GS!ProcessNextComputeGroup,
       GS!GetGroup, GS!PruneStatus, GS!FindDeployment, GS!CreateDeployment, GS!FindService,
       GS!CreateService, GS!NotControlled, GS!SameReplicas, GS!UpdateReplicas,
       GS!UpdateStatus, GS!CollectService, GS!CollectDeployment, GS!bounds

\* A worker of the operator half makes groups under names that are groups.
LEMMA GroupAtIsGroup ==
    ASSUME OSP!TypeAndKnown, NEW t \in OperatorThreads, operatorAt[t] = "group"
    PROVE  OS!GroupAt(t) \in Groups
<1>1. OSP!GroupAt(t) \in Groups
  BY OSP!GroupAtType, HalvesAssume DEF OSP!TypeAndKnown, OSP!Busy
<1> QED BY <1>1 DEF OS!GroupAt, OSP!GroupAt, OS!Claimed, OSP!Claimed

\* A worker of the group half creates and deletes no group.
LEMMA WorkersKeepGroups ==
    ASSUME GSP!IInv, GSP!Existing, NEW t \in GroupThreads, GS!ProcessNextComputeGroup(t)
    PROVE  \A g \in Groups :
              groups'[g].exists = groups[g].exists /\ groups'[g].uid = groups[g].uid
<1>1. GSP!ProcessNextComputeGroup(t)
  BY DEF GS!AfterDeployment, GS!AnyGroup, GS!CreateDeployment, GS!CreateService,
         GS!Current, GS!FindDeployment, GS!FindService, GS!GetGroup, GS!GoOn,
         GS!InjectFault, GS!IsComputeGroupCreated, GS!IsControlledBy,
         GS!MakeDeployment, GS!NewGroup, GS!NextSet, GS!NoDeployment, GS!NoGroup,
         GS!NotControlled, GS!OwnerOf, GS!ProcessNextComputeGroup, GS!PruneStatus,
         GS!Pruned, GS!Recorded, GS!SameReplicas, GS!Set, GS!Sets,
         GS!UpdateReplicas, GS!UpdateStatus, GS!Updated, GS!api, GS!bounds,
         GS!caches, GSP!AfterDeployment, GSP!AnyGroup, GSP!CreateDeployment,
         GSP!CreateService, GSP!Current, GSP!FindDeployment, GSP!FindService,
         GSP!GetGroup, GSP!GoOn, GSP!InjectFault, GSP!IsComputeGroupCreated,
         GSP!IsControlledBy, GSP!MakeDeployment, GSP!NewGroup, GSP!NextSet,
         GSP!NoDeployment, GSP!NoGroup, GSP!NotControlled, GSP!OwnerOf,
         GSP!ProcessNextComputeGroup, GSP!PruneStatus, GSP!Pruned, GSP!Recorded,
         GSP!SameReplicas, GSP!Set, GSP!Sets, GSP!UpdateReplicas,
         GSP!UpdateStatus, GSP!Updated, GSP!api, GSP!bounds, GSP!caches
<1> QED BY <1>1, GSP!WorkerKeepsGroups, HalvesAssume

LEMMA OthersKeepGroups ==
    ASSUME \/ GS!Deliver \/ \E g \in Groups : GS!CollectService(g)
           \/ \E n \in Names : GS!CollectDeployment(n)
    PROVE  UNCHANGED groups
BY DEF GS!Deliver, GS!DeliverDeployment, GS!DeliverService, GS!CollectService,
       GS!CollectDeployment, GS!api

\* Every step is one of the group half, or none to it.
LEMMA GroupHalfSteps ==
    ASSUME Types, [Next]_vars
    PROVE  [GS!Next]_(GS!vars)
<1>1. CASE \E g \in Groups : GS!DeleteGroup(g)
  BY <1>1 DEF GS!Next, GS!Environment
<1>2. CASE GS!Crash \/ GS!Deliver \/ \E t \in GroupThreads : GS!ProcessNextComputeGroup(t)
  BY <1>2 DEF GS!Next
<1>3. CASE \/ \E g \in Groups : GS!CollectService(g)
           \/ \E n \in Names : GS!CollectDeployment(n)
  BY <1>3 DEF GS!Next, GS!Environment
<1>4. CASE \E t \in OperatorThreads : CreateGroup(t)
  <2>1. PICK t \in OperatorThreads : CreateGroup(t)
    BY <1>4
  <2>2. OS!GroupAt(t) \in Groups /\ GS!CreateGroup(OS!GroupAt(t))
    BY <2>1, GroupAtIsGroup DEF CreateGroup, Types
  <2> QED BY <2>2 DEF GS!Next, GS!Environment
<1>5. CASE /\ UNCHANGED <<groups, controllerOf, groupHalf>>
           /\ \/ OS!Deliver \/ \E t \in OperatorThreads : OS!ProcessNextOperator(t)
              \/ \E o \in Operators :
                    OS!CreateOperator(o) \/ OS!UpdateOperator(o) \/ OS!DeleteOperator(o)
  BY <1>5, OperatorStepsCount, StillGrouped
<1>6. CASE UNCHANGED vars
  BY <1>6, StillGrouped DEF vars
<1> QED
  BY <1>1, <1>2, <1>3, <1>4, <1>5, <1>6
     DEF Next, Users, Progress, CollectGarbage, CollectGroup, DeleteGroup, Crash,
         DeliverToOperators, DeliverToGroups, ProcessNextOperator, ProcessNextComputeGroup

\* Every step is one of the operator half, or none to it.
LEMMA OperatorHalfSteps ==
    ASSUME Types, [Next]_vars
    PROVE  [OS!Next]_(OS!vars)
<1>1. CASE OS!Crash \/ OS!Deliver \/ \E t \in OperatorThreads : OS!ProcessNextOperator(t)
  BY <1>1 DEF OS!Next
<1>2. CASE \/ \E o \in Operators :
                 OS!CreateOperator(o) \/ OS!UpdateOperator(o) \/ OS!DeleteOperator(o)
           \/ \E g \in Groups : OS!DeleteGroup(g) \/ OS!CollectGroup(g)
  BY <1>2 DEF OS!Next, OS!Environment
<1>3. CASE \E t \in OperatorThreads : CreateGroup(t)
  BY <1>3 DEF CreateGroup, OS!Next, OS!ProcessNextOperator
<1>4. CASE /\ UNCHANGED <<controllerOf, operatorHalf>>
           /\ \E t \in GroupThreads : GS!ProcessNextComputeGroup(t)
  BY <1>4, WorkersKeepGroups, GroupStepsCount, StillOwned DEF Types
<1>5. CASE /\ UNCHANGED <<controllerOf, operatorHalf>>
           /\ \/ GS!Deliver \/ \E g \in Groups : GS!CollectService(g)
              \/ \E n \in Names : GS!CollectDeployment(n)
  BY <1>5, OthersKeepGroups, GroupStepsCount, StillOwned
<1>6. CASE UNCHANGED vars
  BY <1>6, StillOwned DEF vars
<1> QED
  BY <1>1, <1>2, <1>3, <1>4, <1>5, <1>6
     DEF Next, Users, Progress, CollectGarbage, CollectGroup, DeleteGroup, Crash,
         DeliverToOperators, DeliverToGroups, ProcessNextOperator, ProcessNextComputeGroup

LEMMA TypesInit == Init => Types
<1>1. Init => GSP!Init /\ OSP!Init
  BY SameGroupHalf, SameOperatorHalf DEF Init
<1>2. GSP!Init => GSP!IInv /\ GSP!Existing
  BY GSP!InitHolds, GSP!ExistingInit, HalvesAssume
<1>3. OSP!Init => OSP!TypeAndKnown
  BY OSP!TypeInit, HalvesAssume
<1> QED BY <1>1, <1>2, <1>3 DEF Types

LEMMA TypesStep == Types /\ [Next]_vars => Types'
<1> SUFFICES ASSUME Types, [Next]_vars PROVE Types'
  OBVIOUS
<1>1. [GSP!Next]_(GSP!vars) /\ [OSP!Next]_(OSP!vars)
  BY GroupHalfSteps, OperatorHalfSteps, SameGroupHalf, SameOperatorHalf
<1>2. GSP!IInv' /\ GSP!Existing'
  BY <1>1, GSP!NextKeeps, HalvesAssume, GSP!ExistingStep DEF Types
<1>3. OSP!TypeAndKnown'
  BY <1>1, OSP!TypeStep, HalvesAssume DEF Types
<1> QED BY <1>2, <1>3 DEF Types

--------------------------------------------------------------------------------
\* Whatever the other half does, the group half is as GroupSync says: creations and
\* deletions of groups are all it sees (syncGroup2, updateComputeGroupStatus).
THEOREM ImplementsGroups == Spec => ImplementsGroupSync
<1>1. Init => GS!Init
  BY DEF Init
<1>2. Types /\ [Next]_vars => [GS!Next]_(GS!vars)
  BY GroupHalfSteps
<1> QED BY <1>1, <1>2, TypesInit, TypesStep, PTL DEF Spec, ImplementsGroupSync, GS!Spec

\* Whatever the group half does, the operator half is as OperatorSync says: no status
\* update makes a group come, go or change its controller (updateComputeGroupStatus).
THEOREM ImplementsOperators == Spec => ImplementsOperatorSync
<1>1. Init => OS!Init
  BY DEF Init
<1>2. Types /\ [Next]_vars => [OS!Next]_(OS!vars)
  BY OperatorHalfSteps
<1> QED BY <1>1, <1>2, TypesInit, TypesStep, PTL DEF Spec, ImplementsOperatorSync, OS!Spec

LEMMA BothHalves == Spec => GSP!Spec /\ OSP!Spec
<1>1. Init => GSP!Init /\ OSP!Init
  BY SameGroupHalf, SameOperatorHalf DEF Init
<1>2. Types /\ [Next]_vars => [GSP!Next]_(GSP!vars) /\ [OSP!Next]_(OSP!vars)
  BY GroupHalfSteps, OperatorHalfSteps, SameGroupHalf, SameOperatorHalf
<1> QED BY <1>1, <1>2, TypesInit, TypesStep, PTL DEF Spec, GSP!Spec, OSP!Spec

\* Whenever both halves are at rest, with nothing missed since the start, every group
\* that an operator lists is there, served and deployed, if no two sets of groups
\* have one name (Start, syncGroup2, syncComputeGroup).
THEOREM ServesWhenQuiet ==
    ASSUME GSP!DistinctNames
    PROVE  Spec => []ServedWhenQuiet
<1>1. GSP!Spec => []GSP!DeployedWhenQuiet
  BY GSP!DeploysWhenQuiet, HalvesAssume, PTL
<1>2. OSP!Spec => []OSP!GroupsWhenQuiet
  BY OSP!OperatorsGetTheirGroups, HalvesAssume, PTL
<1>3. Types /\ GSP!DeployedWhenQuiet /\ OSP!GroupsWhenQuiet => ServedWhenQuiet
  <2> SUFFICES ASSUME Types, GSP!DeployedWhenQuiet, OSP!GroupsWhenQuiet,
                      GS!Quiet, OS!Quiet, ~ missed, ~ operatorMissed,
                      NEW o \in Operators, operators[o].exists,
                      NEW g \in Range(OS!Claimed(operators[o]))
               PROVE  Served(g)
    BY DEF ServedWhenQuiet
  <2>1. GSP!Quiet /\ OSP!Quiet
    BY DEF GS!Quiet, GSP!Quiet, OS!Quiet, OSP!Quiet
  <2>2. g \in Groups /\ OwnedGroups[g].exists
    <3>1. g \in Range(OSP!Claimed(operators[o]))
      BY DEF OS!Claimed, OSP!Claimed
    <3>2. Range(OSP!Claimed(operators[o])) \subseteq Groups
      BY OSP!ClaimedType, HalvesAssume DEF Types, OSP!TypeAndKnown, OSP!Known, Range
    <3> QED BY <2>1, <3>1, <3>2 DEF OSP!GroupsWhenQuiet, OSP!HasItsGroups, OSP!Range, Range
  <2>3. groups[g].exists
    BY <2>2 DEF OwnedGroups
  <2>4. services[g].exists /\ \A i \in DOMAIN GSP!Sets(groups[g]) :
            GSP!Deployed(groups[g], GSP!Sets(groups[g])[i])
    BY <2>1, <2>2, <2>3 DEF GSP!DeployedWhenQuiet
  <2> QED
    BY <2>3, <2>4 DEF Served, GS!Sets, GSP!Sets, GS!Deployed, GSP!Deployed,
         GS!IsControlledBy, GSP!IsControlledBy, GS!OwnerOf, GSP!OwnerOf
<1>4. Spec => []Types
  BY TypesInit, TypesStep, PTL DEF Spec
<1> QED BY <1>1, <1>2, <1>3, <1>4, BothHalves, PTL
=================================================================================

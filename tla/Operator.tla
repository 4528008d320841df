-------------------------------- MODULE Operator --------------------------------
(* The operator controller as a whole: its two halves, OperatorSync and GroupSync, *)
(* in one process (Start), which meet in the compute group objects.  The operator  *)
(* half creates groups with the operator as their controller; every creation is an *)
(* event of the group half, which deploys the group and writes its status into the *)
(* same object.  Deleting an operator is left to the garbage collector, which      *)
(* works its way down the owner references while the threads of both halves may    *)
(* still hold objects from before.                                                 *)
(*                                                                                 *)
(* Users act on operators, and may delete groups; what else they do to groups and  *)
(* deployments themselves is in the halves.                                        *)
EXTENDS Naturals, Sequences, Functions

CONSTANTS
    Operators, Groups, Names,
    Claims, NamespaceOf, MaxOperatorDeletions,  \* as in OperatorSync
    Specs,              \* as in GroupSync
    MaxGroupDeletions,  \* as in GroupSync, by users or the garbage collector
    MaxHandDeletions,   \* bound: deletions of groups by users
    GroupThreads, OperatorThreads,      \* 12 of each in main.go
    MaxFaults,          \* bound: failed calls of each half between two starts
    MaxCrashes

VARIABLES
    groups, deployments, services, deploymentCache, serviceCache, queue,
    at, group, index, found, deletions, faults, missed,      \* as in GroupSync
    operators,
    controllerOf,       \* the controller reference of each group
    groupCache, operatorQueue, operatorAt, operator, operatorIndex,
    handDeletions, operatorFaults, operatorMissed,           \* as in OperatorSync
    crashes             \* one process, one count of its restarts

groupHalf == <<deployments, services, deploymentCache, serviceCache, queue,
               at, group, index, found, deletions, faults, missed>>
operatorHalf == <<operators, groupCache, operatorQueue, operatorAt, operator,
                  operatorIndex, handDeletions, operatorFaults, operatorMissed>>
vars == <<groups, controllerOf, groupHalf, operatorHalf, crashes>>

\* What the operator half knows of a group object.
OwnedGroups == [g \in Groups |-> [exists |-> groups[g].exists, uid |-> groups[g].uid,
                                  owner |-> controllerOf[g]]]

GS == INSTANCE GroupSync WITH Threads <- GroupThreads, MaxDeletions <- 0
OS == INSTANCE OperatorSync WITH
         Threads <- OperatorThreads, HandMade <- {},
         MaxGroupDeletions <- MaxHandDeletions,
         groups <- OwnedGroups, queue <- operatorQueue, at <- operatorAt,
         index <- operatorIndex, groupDeletions <- handDeletions,
         faults <- operatorFaults, missed <- operatorMissed

\* What the two halves assume of their constants.
ASSUME OperatorAssumption ==
    /\ Operators # {} /\ Groups # {}
    /\ Claims \in [Operators -> Seq(Seq(Groups)) \ {<<>>}]
    /\ Specs \in [Groups -> Seq(Seq(GS!SetSpec)) \ {<<>>}]
    /\ \A g \in Groups : \A v \in DOMAIN Specs[g] :
          /\ Specs[g][v] # <<>>
          /\ \A i \in DOMAIN Specs[g][v] : Specs[g][v][i].leader <=> i = 1
    /\ MaxGroupDeletions \in [Groups -> Nat]
    /\ MaxOperatorDeletions \in [Operators -> Nat]
    /\ {MaxHandDeletions, MaxFaults, MaxCrashes} \subseteq Nat

Init ==
    /\ GS!Init
    /\ controllerOf = [g \in Groups |-> OS!Nobody]
    /\ OS!Init

--------------------------------------------------------------------------------
(* Steps in which the two halves meet: both see the group object change.          *)

\* Mutant of CreateGroup: the group half's informer has no AddFunc.
CreateGroupUntold(t) ==
    /\ operatorAt[t] = "group"
    /\ LET g == OS!GroupAt(t) IN
          /\ groups' = [groups EXCEPT ![g] =
                           GS!NewGroup(g, TRUE, groups[g].uid + 1, groups[g].rv + 1)]
          /\ controllerOf' = [controllerOf EXCEPT ![g] = OS!OwnerOf(operator[t])]
    /\ UNCHANGED groupHalf
    /\ OS!CreateGroup(t)

\* A thread of the operator half creates a group: the group half gets it in its
\* queue, the operator half will read it from its cache.
CreateGroup(t) ==
    /\ operatorAt[t] = "group"
    /\ LET g == OS!GroupAt(t)
           made == OS!MakeComputeGroup(OS!OwnerOf(operator[t]), g) IN
          /\ GS!CreateGroup(g)
          /\ controllerOf' = [controllerOf EXCEPT ![g] = made.owner]
    /\ OS!CreateGroup(t)

\* The garbage collector deletes a group that has lost its operator.
CollectGroup(g) ==
    /\ UNCHANGED controllerOf
    /\ GS!DeleteGroup(g)
    /\ OS!CollectGroup(g)

\* A user deletes a group.  Neither half has a handler for it.
DeleteGroup(g) ==
    /\ GS!DeleteGroup(g)
    /\ UNCHANGED controllerOf
    /\ OS!DeleteGroup(g)

\* Mutant of Crash: the list of groups comes before their handler is there.
CrashBeforeHandlers ==
    /\ crashes < MaxCrashes
    /\ queue' = {}
    /\ GS!Restarted
    /\ UNCHANGED controllerOf
    /\ OS!Crash

\* Both halves die with the process; both queues are filled again.
Crash ==
    /\ GS!Crash
    /\ UNCHANGED controllerOf
    /\ OS!Crash

--------------------------------------------------------------------------------
(* All other steps are of one half.                                               *)

ProcessNextOperator(t) ==
    \/ CreateGroup(t)
    \/ /\ UNCHANGED <<groups, controllerOf, groupHalf>>
       /\ OS!ProcessNextOperator(t)

DeliverToOperators ==
    /\ UNCHANGED <<groups, controllerOf, groupHalf>>
    /\ OS!Deliver

\* Mutant of ProcessNextComputeGroup: what it updates has lost its owner.
ProcessNextComputeGroupDisowning(t) ==
    /\ GS!ProcessNextComputeGroup(t)
    /\ controllerOf' = [g \in Groups |->
                           IF groups'[g] = groups[g] THEN controllerOf[g] ELSE OS!Nobody]
    /\ UNCHANGED operatorHalf

ProcessNextComputeGroup(t) ==
    /\ UNCHANGED <<controllerOf, operatorHalf>>
    /\ GS!ProcessNextComputeGroup(t)

DeliverToGroups ==
    /\ UNCHANGED <<controllerOf, operatorHalf>>
    /\ GS!Deliver

CollectGarbage ==
    \/ \E g \in Groups : CollectGroup(g)
    \/ /\ UNCHANGED <<controllerOf, operatorHalf>>
       /\ \/ \E g \in Groups : GS!CollectService(g)
          \/ \E n \in Names : GS!CollectDeployment(n)

Users ==
    \/ /\ UNCHANGED <<groups, controllerOf, groupHalf>>
       /\ \E o \in Operators :
             OS!CreateOperator(o) \/ OS!UpdateOperator(o) \/ OS!DeleteOperator(o)
    \/ \E g \in Groups : DeleteGroup(g)

\* What goes on without users and without the process dying.
Progress ==
    \/ CollectGarbage
    \/ DeliverToOperators \/ DeliverToGroups
    \/ \E t \in OperatorThreads : ProcessNextOperator(t)
    \/ \E t \in GroupThreads : ProcessNextComputeGroup(t)

Next == Users \/ Progress \/ Crash

Spec == Init /\ [][Next]_vars

\* Reflectors and workers loop for ever, and the garbage collector gets round to
\* every orphan.  That one of them goes on while any can is enough: what each of
\* them can do comes to an end.
FairSpec == Spec /\ WF_vars(Progress)

--------------------------------------------------------------------------------
(* What the controller promises.                                                  *)

Served(g) ==
    /\ groups[g].exists
    /\ services[g].exists
    /\ \A i \in DOMAIN GS!Sets(groups[g]) :
          GS!Deployed(groups[g], GS!Sets(groups[g])[i])

\* Each half sees of the other only what its own model expects of users and of
\* the API server: a thread of the operator half that creates a group, late or
\* for an operator that is gone, is one more user to the group half; and none of
\* the status updates of that half, which replace the whole object, makes a group
\* come, go or change its controller (syncGroup2, updateComputeGroupStatus).
ImplementsGroupSync == GS!Spec
ImplementsOperatorSync == OS!Spec

\* Whenever both halves are at rest, with nothing missed since the start, every
\* group that an operator lists is there, with its service and a deployment of its
\* own for each of its sets: the group half has got every group the other created,
\* whichever of the two was ahead when the process died (Start, syncGroup2,
\* syncComputeGroup).
ServedWhenQuiet ==
    GS!Quiet /\ OS!Quiet /\ ~ missed /\ ~ operatorMissed =>
        \A o \in Operators : operators[o].exists =>
            \A g \in Range(OS!Claimed(operators[o])) : Served(g)

\* A user who creates an operator, and nothing else, gets every group of it,
\* deployed and served: each of the two halves sees what the other has done, in
\* whatever order their caches learn of it and wherever the process dies in the
\* two of them.  Excused is what either half does not react to while it runs.
OperatorsAreServed ==
    <>[](~ missed /\ ~ operatorMissed =>
           \A o \in Operators : operators[o].exists =>
               \A g \in Range(OS!Claimed(operators[o])) : Served(g))

\* Once the operators are gone, so are, for good, the groups they listed, and
\* all deployments and services of these: a thread that still works for a group
\* or an operator from before makes nothing that outlives it
\* (SetDatafuseComputeGroupDefaults, AddDeployOwnership, MakeService).
DeletedIsGone ==
    <>[]((\A o \in Operators : ~ operators[o].exists) =>
           \A g \in Groups :
               /\ ~ groups[g].exists
               /\ ~ services[g].exists
               /\ \A n \in Names : deployments[n].exists => deployments[n].owner.group # g)

\* DatafuseOperatorStatus, datafuseoperator_types.go:63-64, "state of each compute
\* group": at rest, when no call has failed, the status of an operator has each of
\* its groups, and that of a group (operator_controller_test.go:508-529) each of
\* its sets.
StatusesAreComplete ==
    /\ GS!Quiet /\ OS!Quiet
    /\ ~ missed /\ ~ operatorMissed
    /\ faults = 0 /\ operatorFaults = 0
    =>
    /\ \A o \in Operators : operators[o].exists =>
          \A g \in Range(OS!Claimed(operators[o])) :
              controllerOf[g] = OS!OwnerOf(operators[o]) => g \in operators[o].states
    /\ \A g \in Groups : groups[g].exists =>
          \A i \in DOMAIN GS!Sets(groups[g]) :
              GS!Sets(groups[g])[i].name \in groups[g].leaders \cup groups[g].workers
=================================================================================

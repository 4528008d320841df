------------------------------ MODULE OperatorSync ------------------------------
(* The operator half of the operator controller (pkg/controllers/operator):      *)
(* worker threads that create, for each DatafuseOperator, the compute groups its  *)
(* spec lists, and that record in its status the groups that are there.           *)
(*                                                                                *)
(* As in the group half (GroupSync) a thread works on the object the informer's   *)
(* AddFunc has put in the queue, looks groups up in a cache that lags behind the  *)
(* API server, and updates the status in the version its snapshot has.            *)
EXTENDS Naturals, Sequences, Functions

CONSTANTS
    Operators,      \* names of operators
    Groups,         \* names of compute groups
    Claims,         \* Claims[o]: the successive lists of groups in o's spec
    NamespaceOf,    \* the namespace of each operator and each group
    HandMade,       \* names of groups that a user may create as well
    Threads,        \* the operator workers (12 in main.go)
    MaxOperatorDeletions, \* bound: deletions of an operator of each name, by name
    MaxGroupDeletions,    \* bound: deletions of groups
    MaxFaults,      \* bound: failed API calls between two starts
    MaxCrashes      \* bound: restarts of the controller process

ASSUME OperatorSyncAssumption ==
    /\ Operators # {}
    /\ Claims \in [Operators -> Seq(Seq(Groups)) \ {<<>>}]
    /\ MaxOperatorDeletions \in [Operators -> Nat]
    /\ {MaxGroupDeletions, MaxFaults, MaxCrashes} \subseteq Nat

VARIABLES
    operators,      \* the operator objects at the API server
    groups,         \* the group objects at the API server: existence and owner
    groupCache,     \* what groupLister reads
    queue,          \* operatorQueue: snapshots of operators
    at,             \* where each thread is
    operator,       \* the snapshot it works on
    index,          \* the group of the operator it has come to
    groupDeletions, faults, crashes,
    missed          \* history: since the start something has happened that no
                    \* item in the queue will make good

thread == <<at, operator, index>>
bounds == <<groupDeletions, faults, crashes>>
vars == <<operators, groups, groupCache, queue, at, operator, index,
          groupDeletions, faults, crashes, missed>>

--------------------------------------------------------------------------------
(* Objects.  UIDs are numbered under each name, from 1.                         *)

Operator == [name : Operators, exists : BOOLEAN, uid : Nat, rv : Nat, spec : Nat,
             status : {"Created", "Ready"}, states : SUBSET Groups]

\* The controller reference of a group; UID 0 stands for none.
Owner == [operator : Operators, uid : Nat]
OwnerOf(op) == [operator |-> op.name, uid |-> op.uid]
Nobody == [operator |-> CHOOSE o \in Operators : TRUE, uid |-> 0]
Group == [exists : BOOLEAN, uid : Nat, owner : Owner]

Claimed(op) == Claims[op.name][op.spec]

\* Mutant of IsControlledBy: any controller will do.
IsControlledByAny(g, op) == g.owner # Nobody

IsControlledBy(g, op) == g.owner = OwnerOf(op)

\* Mutant of MakeComputeGroup: it comes without its owner reference.
MakeComputeGroupUnowned(owner, g) ==
    [exists |-> TRUE, uid |-> groups[g].uid + 1, owner |-> Nobody]

\* MakeComputeGroup and SetDatafuseComputeGroupDefaults, as the API server
\* stores it: a new object under the name, with the operator as controller.
MakeComputeGroup(owner, g) == [exists |-> TRUE, uid |-> groups[g].uid + 1, owner |-> owner]

\* updateOperatorStatus, before it is sent.
Recorded(op, g) == [op EXCEPT !.status = "Ready", !.states = @ \cup {g}]

\* The API server takes an update in the version the snapshot op has; one that
\* changes nothing makes no new version.
Current(op) ==
    LET now == operators[op.name] IN now.exists /\ now.uid = op.uid /\ now.rv = op.rv
Updated(op, new) ==
    IF Current(op) /\ new # operators[op.name]
    THEN [operators EXCEPT ![op.name] = [new EXCEPT !.rv = op.rv + 1]]
    ELSE operators

NewOperator(o, exists, uid, rv) ==
    [name |-> o, exists |-> exists, uid |-> uid, rv |-> rv, spec |-> 1,
     status |-> "Created", states |-> {}]
AnyOperator == NewOperator(CHOOSE o \in Operators : TRUE, FALSE, 0, 0)
NoGroup == [exists |-> FALSE, uid |-> 0, owner |-> Nobody]

TypeOK ==
    /\ operators \in [Operators -> Operator]
    /\ groups \in [Groups -> Group]
    /\ groupCache \in [Groups -> Group]
    /\ queue \subseteq Operator
    /\ at \in [Threads -> {"idle", "group", "status"}]
    /\ operator \in [Threads -> Operator]
    /\ index \in [Threads -> Nat]
    /\ \A t \in Threads : at[t] # "idle" => index[t] \in DOMAIN Claimed(operator[t])
    /\ groupDeletions \in 0..MaxGroupDeletions
    /\ faults \in 0..MaxFaults
    /\ crashes \in 0..MaxCrashes
    /\ missed \in BOOLEAN

Init ==
    /\ operators = [o \in Operators |-> NewOperator(o, FALSE, 0, 0)]
    /\ groups = [g \in Groups |-> NoGroup]
    /\ groupCache = [g \in Groups |-> NoGroup]
    /\ queue = {}
    /\ at = [t \in Threads |-> "idle"]
    /\ operator = [t \in Threads |-> AnyOperator]
    /\ index = [t \in Threads |-> 1]
    /\ groupDeletions = 0
    /\ faults = 0
    /\ crashes = 0
    /\ missed = FALSE

--------------------------------------------------------------------------------
(* The environment: users, the garbage collector, the informer's watch.         *)

\* AddFunc of operators enqueues the object as it was created.
CreateOperator(o) ==
    /\ ~ operators[o].exists
    /\ LET op == NewOperator(o, TRUE, operators[o].uid + 1, operators[o].rv + 1) IN
          /\ operators' = [operators EXCEPT ![o] = op]
          /\ queue' = queue \cup {op}
    /\ UNCHANGED <<groups, groupCache, thread, bounds, missed>>

\* The list of groups is edited.  UpdateFunc asserts the type of a value, not of
\* a pointer, and returns: nothing is enqueued, here or after a status update.
UpdateOperator(o) ==
    /\ operators[o].exists
    /\ operators[o].spec < Len(Claims[o])
    /\ operators' = [operators EXCEPT ![o].spec = @ + 1, ![o].rv = @ + 1]
    /\ missed' = TRUE
    /\ UNCHANGED <<groups, groupCache, queue, thread, bounds>>

\* There is no DeleteFunc for operators: the groups are left to the collector,
\* and an operator created again may find them.
DeleteOperator(o) ==
    /\ operators[o].exists
    /\ operators[o].uid <= MaxOperatorDeletions[o]
    /\ operators' = [operators EXCEPT ![o].exists = FALSE]
    /\ missed' = TRUE
    /\ UNCHANGED <<groups, groupCache, queue, thread, bounds>>

\* A user creates a group of the name without an operator.
CreateGroupByHand(g) ==
    /\ g \in HandMade
    /\ ~ groups[g].exists
    /\ groups' = [groups EXCEPT ![g] = MakeComputeGroup(Nobody, g)]
    /\ UNCHANGED <<operators, groupCache, queue, thread, bounds, missed>>

\* Someone deletes a group.  No handler enqueues its operator.
DeleteGroup(g) ==
    /\ groups[g].exists
    /\ groupDeletions < MaxGroupDeletions
    /\ groupDeletions' = groupDeletions + 1
    /\ groups' = [groups EXCEPT ![g].exists = FALSE]
    /\ missed' = TRUE
    /\ UNCHANGED <<operators, groupCache, queue, thread, faults, crashes>>

\* An owner counts only if it exists, with its UID, in the group's namespace.
Alive(owner) ==
    operators[owner.operator].exists /\ operators[owner.operator].uid = owner.uid
Orphaned(g, owner) ==
    /\ owner # Nobody
    /\ ~ Alive(owner) \/ NamespaceOf[owner.operator] # NamespaceOf[g]

CollectGroup(g) ==
    /\ groups[g].exists
    /\ Orphaned(g, groups[g].owner)
    /\ groups' = [groups EXCEPT ![g].exists = FALSE]
    /\ missed' = (missed \/ Alive(groups[g].owner))
    /\ UNCHANGED <<operators, groupCache, queue, thread, bounds>>

\* A watch event reaches the cache of groups.
DeliverGroup(g) ==
    /\ groupCache[g] # groups[g]
    /\ groupCache' = [groupCache EXCEPT ![g] = groups[g]]
    /\ UNCHANGED <<operators, groups, queue, thread, bounds, missed>>

--------------------------------------------------------------------------------
(* An operator worker: processNextOperator and what it calls.                   *)

GroupAt(t) == Claimed(operator[t])[index[t]]

\* Mutant of NextGroup: the first error ends the loop.
NextGroupUnlessError(t) ==
    IF index[t] < Len(Claimed(operator[t])) /\ at[t] = "status"
    THEN /\ at' = [at EXCEPT ![t] = "group"]
         /\ index' = [index EXCEPT ![t] = @ + 1]
         /\ UNCHANGED operator
    ELSE /\ at' = [at EXCEPT ![t] = "idle"]
         /\ index' = [index EXCEPT ![t] = 1]
         /\ operator' = [operator EXCEPT ![t] = AnyOperator]

\* Mutant of NextGroup: the bound of the loop is off by one.
NextGroupOnceMore(t) ==
    IF index[t] <= Len(Claimed(operator[t]))
    THEN /\ at' = [at EXCEPT ![t] = "group"]
         /\ index' = [index EXCEPT ![t] = @ + 1]
         /\ UNCHANGED operator
    ELSE /\ at' = [at EXCEPT ![t] = "idle"]
         /\ UNCHANGED <<operator, index>>

\* The next group of the spec, if there is one.  The errors go nowhere: the
\* result of multierr.Append is dropped, and the item is forgotten.
NextGroup(t) ==
    IF index[t] < Len(Claimed(operator[t]))
    THEN /\ at' = [at EXCEPT ![t] = "group"]
         /\ index' = [index EXCEPT ![t] = @ + 1]
         /\ UNCHANGED operator
    ELSE /\ at' = [at EXCEPT ![t] = "idle"]
         /\ index' = [index EXCEPT ![t] = 1]
         /\ operator' = [operator EXCEPT ![t] = AnyOperator]

ToStatus(t) ==
    /\ at' = [at EXCEPT ![t] = "status"]
    /\ UNCHANGED <<operator, index>>

\* An API call returns an error other than those of its object's state; what it
\* asked for may have been done all the same.
InjectFault == faults < MaxFaults /\ faults' = faults + 1

\* An operator without groups is done at once.
GetOperator(t, op) ==
    /\ at[t] = "idle"
    /\ op \in queue
    /\ queue' = queue \ {op}
    /\ IF Claimed(op) = <<>> THEN UNCHANGED thread
       ELSE /\ at' = [at EXCEPT ![t] = "group"]
            /\ operator' = [operator EXCEPT ![t] = op]
            /\ index' = [index EXCEPT ![t] = 1]
    /\ UNCHANGED <<operators, groups, groupCache, bounds, missed>>

\* The cache holds a group of the name that the operator controls.  Whether its
\* spec is still the one listed is not looked at.
FindOwnGroup(t) ==
    /\ at[t] = "group"
    /\ groupCache[GroupAt(t)].exists
    /\ IsControlledBy(groupCache[GroupAt(t)], operator[t])
    /\ ToStatus(t)
    /\ UNCHANGED <<operators, groups, groupCache, queue, bounds, missed>>

\* It holds one of somebody else: a warning event and an error.
FindOtherGroup(t) ==
    /\ at[t] = "group"
    /\ groupCache[GroupAt(t)].exists
    /\ ~ IsControlledBy(groupCache[GroupAt(t)], operator[t])
    /\ NextGroup(t)
    /\ UNCHANGED <<operators, groups, groupCache, queue, bounds, missed>>

\* It holds none.  After an error the client hands back an empty object, which
\* nobody controls, so every error ends as that of FindOtherGroup.
CreateGroup(t) ==
    /\ at[t] = "group"
    /\ ~ groupCache[GroupAt(t)].exists
    /\ LET g == GroupAt(t)
           done == [groups EXCEPT ![g] = MakeComputeGroup(OwnerOf(operator[t]), g)] IN
          \/ /\ ~ groups[g].exists
             /\ groups' = done
             /\ ToStatus(t)
             /\ UNCHANGED <<faults, missed>>
          \/ /\ groups[g].exists                      \* AlreadyExists
             /\ NextGroup(t)
             /\ UNCHANGED <<groups, faults, missed>>
          \/ /\ ~ groups[g].exists
             /\ InjectFault
             /\ groups' \in {groups, done}
             /\ NextGroup(t)
             /\ missed' = TRUE
    /\ UNCHANGED <<operators, groupCache, queue, groupDeletions, crashes>>

\* updateOperatorStatus.  The version is that of the snapshot, so of the updates
\* of one pass only the first that changes something is accepted.
UpdateOperatorStatus(t) ==
    /\ at[t] = "status"
    /\ \/ /\ operators' = Updated(operator[t], Recorded(operator[t], GroupAt(t)))
          /\ UNCHANGED faults
       \/ UNCHANGED operators /\ InjectFault
    /\ NextGroup(t)
    /\ UNCHANGED <<groups, groupCache, queue, groupDeletions, crashes, missed>>

--------------------------------------------------------------------------------
\* The process dies and starts again.  Start waits for the caches of operators
\* and groups; every operator is an Add.
Crash ==
    /\ crashes < MaxCrashes
    /\ crashes' = crashes + 1
    /\ queue' = {operators[o] : o \in {p \in Operators : operators[p].exists}}
    /\ groupCache' = groups
    /\ at' = [t \in Threads |-> "idle"]
    /\ operator' = [t \in Threads |-> AnyOperator]
    /\ index' = [t \in Threads |-> 1]
    /\ faults' = 0
    /\ missed' = \E g \in Groups : groups[g].exists /\ Orphaned(g, groups[g].owner)
    /\ UNCHANGED <<operators, groups, groupDeletions>>

Environment ==
    \/ \E o \in Operators : CreateOperator(o) \/ UpdateOperator(o) \/ DeleteOperator(o)
    \/ \E g \in Groups : CreateGroupByHand(g) \/ DeleteGroup(g) \/ CollectGroup(g)

Deliver == \E g \in Groups : DeliverGroup(g)

ProcessNextOperator(t) ==
    \/ \E op \in queue : GetOperator(t, op)
    \/ FindOwnGroup(t) \/ FindOtherGroup(t) \/ CreateGroup(t)
    \/ UpdateOperatorStatus(t)

Next ==
    \/ Environment
    \/ Deliver
    \/ \E t \in Threads : ProcessNextOperator(t)
    \/ Crash

Spec == Init /\ [][Next]_vars

--------------------------------------------------------------------------------
(* What the controller promises.                                                *)

Quiet ==
    /\ queue = {}
    /\ \A t \in Threads : at[t] = "idle"

\* The operator has the groups it lists, or somebody else has the name.
HasItsGroups(o) ==
    \A g \in Range(Claimed(operators[o])) : groups[g].exists

\* Once it is done every operator has its groups, wherever the process died and
\* however far the cache of groups lagged: an error of one group does not keep
\* those after it from being created (processNewOperator).  Excused is what the
\* controller does not react to, or does not retry, until it is started again.
GroupsWhenQuiet ==
    Quiet /\ ~ missed => \A o \in Operators : operators[o].exists => HasItsGroups(o)

\* A group recorded as deployed in the status of an operator is the operator's
\* own: not one a user has made, nor one of another operator that lists the same
\* name, nor one that an earlier operator of the same name has left to the
\* garbage collector (syncGroup2's IsControlledBy against a cache that lags, and
\* the status update after it).  It holds until someone deletes a group by hand,
\* and of operators in the namespace of their groups.
RecordedIsOwn == groupDeletions = 0 =>
    \A o \in Operators : operators[o].exists =>
        \A g \in operators[o].states :
            groups[g].exists /\ groups[g].owner = OwnerOf(operators[o])
=================================================================================

------------------------------- MODULE GroupSync -------------------------------
(* The compute group half of the operator controller (pkg/controllers/          *)
(* operator): worker threads that turn each DatafuseComputeGroup into one        *)
(* Deployment for its leaders, one for each of its sets of workers, and a        *)
(* Service, and that record in the group's status what they have synced.         *)
(*                                                                               *)
(* The threads read deployments and services from informer caches that lag       *)
(* behind the API server, write to the API server, and work on the group object  *)
(* that the informer's AddFunc has put in the queue: a snapshot, whose resource  *)
(* version every status update is made against.                                  *)
EXTENDS Naturals, Sequences

CONSTANTS
    Groups,         \* names of compute groups
    Names,          \* names of deployments
    Specs,          \* Specs[g]: the successive specs of group g
    Threads,        \* the group workers (12 in main.go)
    MaxDeletions,   \* bound: deployments deleted by someone else
    MaxGroupDeletions, \* bound: deletions of a group of each name, by name
    MaxFaults,      \* bound: failed API calls between two starts
    MaxCrashes      \* bound: restarts of the controller process

\* A DatafuseComputeSetSpec with the name fillName gives it.
SetSpec == [name : Names, leader : BOOLEAN, replicas : Nat]

ASSUME GroupSyncAssumption ==
    /\ Groups # {}
    /\ Specs \in [Groups -> Seq(Seq(SetSpec)) \ {<<>>}]
    /\ \A g \in Groups : \A v \in DOMAIN Specs[g] :
          /\ Specs[g][v] # <<>>
          /\ \A i \in DOMAIN Specs[g][v] : Specs[g][v][i].leader <=> i = 1
    /\ MaxGroupDeletions \in [Groups -> Nat]
    /\ {MaxDeletions, MaxFaults, MaxCrashes} \subseteq Nat

VARIABLES
    groups,          \* the group objects at the API server
    deployments,     \* the deployments at the API server
    services,        \* the services at the API server, named like their group
    deploymentCache, \* what deploymentLister reads
    serviceCache,    \* what serviceLister reads
    queue,           \* groupQueue: snapshots of groups
    at,              \* where each thread is
    group,           \* the snapshot it works on
    index,           \* the set of the group it has come to
    found,           \* the deployment it goes on with
    deletions, faults, crashes,
    missed           \* history: since the start something has happened that no
                     \* item in the queue will make good

api     == <<groups, deployments, services>>
caches  == <<deploymentCache, serviceCache>>
thread  == <<at, group, index, found>>
bounds  == <<deletions, faults, crashes>>
vars == <<groups, deployments, services, deploymentCache, serviceCache, queue,
          at, group, index, found, deletions, faults, crashes, missed>>

-------------------------------------------------------------------------------
(* Objects.                                                                    *)

\* An owner reference: the UID is the number of the object under its name.
Owner == [group : Groups, uid : Nat]

\* The selector of a deployment is made from the key of its group.
Deployment == [exists : BOOLEAN, owner : Owner, replicas : Nat]
Service    == [exists : BOOLEAN, uid : Nat]
Group == [name : Groups, exists : BOOLEAN, uid : Nat, rv : Nat, spec : Nat,
          status : {"Created", "Pending", "Ready"},
          leaders : SUBSET Names, workers : SUBSET Names]

Sets(cg) == Specs[cg.name][cg.spec]
OwnerOf(cg) == [group |-> cg.name, uid |-> cg.uid]

\* MakeDeployment followed by AddDeployOwnership.
MakeDeployment(cg, set) ==
    [exists |-> TRUE, owner |-> OwnerOf(cg), replicas |-> set.replicas]

\* Mutant of IsControlledBy: the name of the owner is compared, not its UID.
IsOwnedByName(d, cg) == d.owner.group = cg.name

IsControlledBy(d, cg) == d.owner = OwnerOf(cg)

\* IsComputeGroupCreated: an empty status counts as Created.
IsComputeGroupCreated(cg) == cg.status = "Created"

\* updateComputeGroupStatus, before it is sent: READY means synced.
Recorded(cg, set) ==
    IF set.leader
    THEN [cg EXCEPT !.status = "Ready", !.leaders = @ \cup {set.name}]
    ELSE [cg EXCEPT !.workers = @ \cup {set.name}]

\* processUpdatedComputeGroup: the names of deployments that the cache does
\* not hold leave the status, which becomes Pending.
Pruned(cg) ==
    LET gone == {n \in cg.leaders \cup cg.workers : ~ deploymentCache[n].exists} IN
    IF gone = {} THEN cg
    ELSE [cg EXCEPT !.status = "Pending", !.leaders = @ \ gone, !.workers = @ \ gone]

\* The API server takes an update of the object that the snapshot cg is of, in
\* the version cg has; one that changes nothing makes no new version.
Current(cg) ==
    LET now == groups[cg.name] IN now.exists /\ now.uid = cg.uid /\ now.rv = cg.rv
Updated(cg, new) ==
    IF Current(cg) /\ new # groups[cg.name]
    THEN [groups EXCEPT ![cg.name] = [new EXCEPT !.rv = cg.rv + 1]]
    ELSE groups

TypeOK ==
    /\ groups \in [Groups -> Group]
    /\ deployments \in [Names -> Deployment]
    /\ services \in [Groups -> Service]
    /\ deploymentCache \in [Names -> Deployment]
    /\ serviceCache \in [Groups -> Service]
    /\ queue \subseteq Group
    /\ at \in [Threads -> {"idle", "prune", "deployment", "service", "replicas", "status"}]
    /\ group \in [Threads -> Group]
    /\ index \in [Threads -> Nat]
    /\ \A t \in Threads : at[t] # "idle" => index[t] \in DOMAIN Sets(group[t])
    /\ found \in [Threads -> Deployment]
    /\ deletions \in 0..MaxDeletions
    /\ faults \in 0..MaxFaults
    /\ crashes \in 0..MaxCrashes
    /\ missed \in BOOLEAN

\* A group as it is created, or, without existence, before it is.
NewGroup(g, exists, uid, rv) ==
    [name |-> g, exists |-> exists, uid |-> uid, rv |-> rv, spec |-> 1,
     status |-> "Created", leaders |-> {}, workers |-> {}]
NoGroup(g) == NewGroup(g, FALSE, 0, 0)
AnyGroup == NoGroup(CHOOSE g \in Groups : TRUE)
NoDeployment == [exists |-> FALSE, owner |-> OwnerOf(AnyGroup), replicas |-> 0]
NoService == [exists |-> FALSE, uid |-> 0]

Init ==
    /\ groups = [g \in Groups |-> NoGroup(g)]
    /\ deployments = [n \in Names |-> NoDeployment]
    /\ services = [g \in Groups |-> NoService]
    /\ deploymentCache = deployments
    /\ serviceCache = services
    /\ queue = {}
    /\ at = [t \in Threads |-> "idle"]
    /\ group = [t \in Threads |-> AnyGroup]
    /\ index = [t \in Threads |-> 1]
    /\ found = [t \in Threads |-> NoDeployment]
    /\ deletions = 0
    /\ faults = 0
    /\ crashes = 0
    /\ missed = FALSE

-------------------------------------------------------------------------------
(* The environment: users, the garbage collector, the informers' watches.      *)

\* Mutant of CreateGroup: AddFunc asserts the type that UpdateFunc asserts.
CreateGroupUnqueued(g) ==
    /\ ~ groups[g].exists
    /\ groups' = [groups EXCEPT ![g] = NewGroup(g, TRUE, groups[g].uid + 1, groups[g].rv + 1)]
    /\ UNCHANGED <<deployments, services, caches, queue, thread, bounds, missed>>

\* A group is created.  AddFunc enqueues the object as it was created.
CreateGroup(g) ==
    /\ ~ groups[g].exists
    /\ LET cg == NewGroup(g, TRUE, groups[g].uid + 1, groups[g].rv + 1) IN
          /\ groups' = [groups EXCEPT ![g] = cg]
          /\ queue' = queue \cup {cg}
    /\ UNCHANGED <<deployments, services, caches, thread, bounds, missed>>

\* The spec of a group is edited.  UpdateFunc compares the types *T and T,
\* returns, and enqueues nothing: not here, nor after a status update, nor at
\* the resync of every 30 seconds.
UpdateGroup(g) ==
    /\ groups[g].exists
    /\ groups[g].spec < Len(Specs[g])
    /\ groups' = [groups EXCEPT ![g].spec = @ + 1, ![g].rv = @ + 1]
    /\ missed' = TRUE
    /\ UNCHANGED <<deployments, services, caches, queue, thread, bounds>>

\* There is no DeleteFunc for groups.  A group that is created again under the
\* name may find the deployments of the old one, and is not tried again.
DeleteGroup(g) ==
    /\ groups[g].exists
    /\ groups[g].uid <= MaxGroupDeletions[g]
    /\ groups' = [groups EXCEPT ![g].exists = FALSE]
    /\ missed' = TRUE
    /\ UNCHANGED <<deployments, services, caches, queue, thread, bounds>>

DeleteDeployment(n) ==
    /\ deployments[n].exists
    /\ deletions < MaxDeletions
    /\ deletions' = deletions + 1
    /\ deployments' = [deployments EXCEPT ![n] = NoDeployment]
    /\ missed' = TRUE
    /\ UNCHANGED <<groups, services, caches, queue, thread, faults, crashes>>

Orphaned(g, uid) == ~ (groups[g].exists /\ groups[g].uid = uid)

CollectDeployment(n) ==
    /\ deployments[n].exists
    /\ Orphaned(deployments[n].owner.group, deployments[n].owner.uid)
    /\ deployments' = [deployments EXCEPT ![n] = NoDeployment]
    /\ UNCHANGED <<groups, services, caches, queue, thread, bounds, missed>>

CollectService(g) ==
    /\ services[g].exists
    /\ Orphaned(g, services[g].uid)
    /\ services' = [services EXCEPT ![g] = NoService]
    /\ UNCHANGED <<groups, deployments, caches, queue, thread, bounds, missed>>

\* A watch event reaches a cache.  handleObject follows it: the controller of
\* the object is a DatafuseComputeGroup and not a "Foo", so it returns.
DeliverDeployment(n) ==
    /\ deploymentCache[n] # deployments[n]
    /\ deploymentCache' = [deploymentCache EXCEPT ![n] = deployments[n]]
    /\ UNCHANGED <<api, serviceCache, queue, thread, bounds, missed>>

DeliverService(g) ==
    /\ serviceCache[g] # services[g]
    /\ serviceCache' = [serviceCache EXCEPT ![g] = services[g]]
    /\ UNCHANGED <<api, deploymentCache, queue, thread, bounds, missed>>

-------------------------------------------------------------------------------
(* A group worker: processNextComputeGroup and what it calls.                  *)

Set(t) == Sets(group[t])[index[t]]

\* Mutant of NextSet: the bound of the loop is off by one.
NextSetOnceMore(t) ==
    IF index[t] <= Len(Sets(group[t]))
    THEN /\ at' = [at EXCEPT ![t] = "deployment"]
         /\ index' = [index EXCEPT ![t] = @ + 1]
         /\ found' = [found EXCEPT ![t] = NoDeployment]
         /\ UNCHANGED group
    ELSE /\ at' = [at EXCEPT ![t] = "idle"]
         /\ UNCHANGED <<index, found, group>>

\* The next set of the group, if there is one.  The errors of a set go nowhere:
\* processNewComputeGroup always returns nil, and the item is forgotten.
NextSet(t) ==
    IF index[t] < Len(Sets(group[t]))
    THEN /\ at' = [at EXCEPT ![t] = "deployment"]
         /\ index' = [index EXCEPT ![t] = @ + 1]
         /\ found' = [found EXCEPT ![t] = NoDeployment]
         /\ UNCHANGED group
    ELSE /\ at' = [at EXCEPT ![t] = "idle"]
         /\ index' = [index EXCEPT ![t] = 1]
         /\ found' = [found EXCEPT ![t] = NoDeployment]
         /\ group' = [group EXCEPT ![t] = AnyGroup]

GoOn(t, to, d) ==
    /\ at' = [at EXCEPT ![t] = to]
    /\ found' = [found EXCEPT ![t] = d]
    /\ UNCHANGED <<group, index>>

\* An API call returns an error other than those of its object's state; what it
\* asked for may have been done all the same.
InjectFault == faults < MaxFaults /\ faults' = faults + 1

\* The branch on the status, and that of processUpdatedComputeGroup.
GetGroup(t, cg) ==
    /\ at[t] = "idle"
    /\ cg \in queue
    /\ queue' = queue \ {cg}
    /\ group' = [group EXCEPT ![t] = cg]
    /\ index' = [index EXCEPT ![t] = 1]
    /\ at' = [at EXCEPT ![t] =
                 IF IsComputeGroupCreated(cg) \/ cg.leaders \cup cg.workers = {}
                 THEN "deployment" ELSE "prune"]
    /\ UNCHANGED <<api, caches, found, bounds, missed>>

\* processUpdatedComputeGroup: the error of the update is not looked at, and it
\* is the unpruned snapshot, in its old version, that is synced afterwards.
PruneStatus(t) ==
    /\ at[t] = "prune"
    /\ \/ groups' = Updated(group[t], Pruned(group[t])) /\ UNCHANGED faults
       \/ UNCHANGED groups /\ InjectFault
    /\ GoOn(t, "deployment", NoDeployment)
    /\ UNCHANGED <<deployments, services, caches, queue, deletions, crashes, missed>>

\* Mutant of AfterDeployment: the service is left to someone else.
AfterDeploymentUnserved(t, d) == GoOn(t, "replicas", d)

\* The deployment of the set: from the cache, or created.
AfterDeployment(t, d) == GoOn(t, IF Set(t).leader THEN "service" ELSE "replicas", d)

FindDeployment(t) ==
    /\ at[t] = "deployment"
    /\ deploymentCache[Set(t).name].exists
    /\ AfterDeployment(t, deploymentCache[Set(t).name])
    /\ UNCHANGED <<api, caches, queue, bounds, missed>>

CreateDeployment(t) ==
    /\ at[t] = "deployment"
    /\ ~ deploymentCache[Set(t).name].exists
    /\ LET made == MakeDeployment(group[t], Set(t))
           done == [deployments EXCEPT ![Set(t).name] = made] IN
          \/ /\ ~ deployments[Set(t).name].exists
             /\ deployments' = done
             /\ AfterDeployment(t, made)
             /\ UNCHANGED <<faults, missed>>
          \/ /\ deployments[Set(t).name].exists       \* AlreadyExists
             /\ NextSet(t)
             /\ UNCHANGED <<deployments, faults, missed>>
          \/ /\ ~ deployments[Set(t).name].exists
             /\ InjectFault
             /\ deployments' \in {deployments, done}
             /\ NextSet(t)
             /\ missed' = TRUE
    /\ UNCHANGED <<groups, services, caches, queue, deletions, crashes>>

\* The service of the group, before the ownership of the deployment is looked
\* at; whose service it is, is not looked at.
FindService(t) ==
    /\ at[t] = "service"
    /\ serviceCache[group[t].name].exists
    /\ GoOn(t, "replicas", found[t])
    /\ UNCHANGED <<api, caches, queue, bounds, missed>>

\* Mutant of CreateService: the error of the call is not looked at.
CreateServiceUnchecked(t) ==
    /\ at[t] = "service"
    /\ ~ serviceCache[group[t].name].exists
    /\ LET g == group[t].name
           done == [services EXCEPT ![g] = [exists |-> TRUE, uid |-> group[t].uid]] IN
          \/ ~ services[g].exists /\ services' = done /\ UNCHANGED faults
          \/ services[g].exists /\ UNCHANGED <<services, faults>>
          \/ ~ services[g].exists /\ InjectFault /\ services' \in {services, done}
    /\ GoOn(t, "replicas", found[t])
    /\ UNCHANGED <<groups, deployments, caches, queue, deletions, crashes, missed>>

CreateService(t) ==
    /\ at[t] = "service"
    /\ ~ serviceCache[group[t].name].exists
    /\ LET g == group[t].name
           done == [services EXCEPT ![g] = [exists |-> TRUE, uid |-> group[t].uid]] IN
          \/ /\ ~ services[g].exists
             /\ services' = done
             /\ GoOn(t, "replicas", found[t])
             /\ UNCHANGED <<faults, missed>>
          \/ /\ services[g].exists                    \* AlreadyExists
             /\ NextSet(t)
             /\ UNCHANGED <<services, faults, missed>>
          \/ /\ ~ services[g].exists
             /\ InjectFault
             /\ services' \in {services, done}
             /\ NextSet(t)
             /\ missed' = TRUE
    /\ UNCHANGED <<groups, deployments, caches, queue, deletions, crashes>>

\* The deployment the thread goes on with belongs to something else: an error.
NotControlled(t) ==
    /\ at[t] = "replicas"
    /\ ~ IsControlledBy(found[t], group[t])
    /\ NextSet(t)
    /\ UNCHANGED <<api, caches, queue, bounds, missed>>

SameReplicas(t) ==
    /\ at[t] = "replicas"
    /\ IsControlledBy(found[t], group[t])
    /\ found[t].replicas = Set(t).replicas
    /\ GoOn(t, "status", found[t])
    /\ UNCHANGED <<api, caches, queue, bounds, missed>>

\* The update carries no resource version: it overwrites whatever deployment
\* has the name now, unless its selector, which cannot change, is that of
\* another group.
UpdateReplicas(t) ==
    /\ at[t] = "replicas"
    /\ IsControlledBy(found[t], group[t])
    /\ found[t].replicas # Set(t).replicas
    /\ LET now  == deployments[Set(t).name]
           made == MakeDeployment(group[t], Set(t))
           done == [deployments EXCEPT ![Set(t).name] = made]
           accepted == now.exists /\ now.owner.group = group[t].name IN
          \/ /\ accepted
             /\ deployments' = done
             /\ GoOn(t, "status", made)
             /\ UNCHANGED <<faults, missed>>
          \/ /\ ~ accepted
             /\ NextSet(t)
             /\ UNCHANGED <<deployments, faults, missed>>
          \/ /\ accepted
             /\ InjectFault
             /\ deployments' \in {deployments, done}
             /\ NextSet(t)
             /\ missed' = TRUE
    /\ UNCHANGED <<groups, services, caches, queue, deletions, crashes>>

\* updateComputeGroupStatus.  The version is that of the snapshot, so of the
\* updates of one pass only the first that changes something is accepted.
UpdateStatus(t) ==
    /\ at[t] = "status"
    /\ \/ groups' = Updated(group[t], Recorded(group[t], Set(t))) /\ UNCHANGED faults
       \/ UNCHANGED groups /\ InjectFault
    /\ NextSet(t)
    /\ UNCHANGED <<deployments, services, caches, queue, deletions, crashes, missed>>

-------------------------------------------------------------------------------
Restarted ==
    /\ deploymentCache' = deployments
    /\ serviceCache' = [g \in Groups |-> NoService]
    /\ at' = [t \in Threads |-> "idle"]
    /\ group' = [t \in Threads |-> AnyGroup]
    /\ index' = [t \in Threads |-> 1]
    /\ found' = [t \in Threads |-> NoDeployment]
    /\ faults' = 0
    /\ missed' = \/ \E n \in Names : deployments[n].exists /\ Orphaned(
                       deployments[n].owner.group, deployments[n].owner.uid)
                 \/ \E g \in Groups : services[g].exists /\ Orphaned(g, services[g].uid)
    /\ UNCHANGED <<api, deletions>>

\* Mutant of Crash: a group that is Ready is taken to be done.
CrashSkipsReady ==
    /\ crashes < MaxCrashes
    /\ crashes' = crashes + 1
    /\ queue' = {groups[g] : g \in {h \in Groups :
                     groups[h].exists /\ groups[h].status # "Ready"}}
    /\ Restarted

\* The process dies and starts again.  Start waits for the caches of groups
\* and deployments, but not for that of services; every group is an Add.
Crash ==
    /\ crashes < MaxCrashes
    /\ crashes' = crashes + 1
    /\ queue' = {groups[g] : g \in {h \in Groups : groups[h].exists}}
    /\ Restarted

Environment ==
    \/ \E g \in Groups : \/ CreateGroup(g) \/ UpdateGroup(g) \/ DeleteGroup(g)
                         \/ CollectService(g)
    \/ \E n \in Names : DeleteDeployment(n) \/ CollectDeployment(n)

Deliver ==
    \/ \E n \in Names : DeliverDeployment(n)
    \/ \E g \in Groups : DeliverService(g)

ProcessNextComputeGroup(t) ==
    \/ \E cg \in queue : GetGroup(t, cg)
    \/ PruneStatus(t)
    \/ FindDeployment(t) \/ CreateDeployment(t)
    \/ FindService(t) \/ CreateService(t)
    \/ NotControlled(t) \/ SameReplicas(t) \/ UpdateReplicas(t)
    \/ UpdateStatus(t)

Next ==
    \/ Environment
    \/ Deliver
    \/ \E t \in Threads : ProcessNextComputeGroup(t)
    \/ Crash

Spec == Init /\ [][Next]_vars

-------------------------------------------------------------------------------
(* What the controller promises.                                               *)

\* All groups have been processed and every change has reached the caches.
Quiet ==
    /\ queue = {}
    /\ \A t \in Threads : at[t] = "idle"
    /\ deploymentCache = deployments
    /\ serviceCache = services

Deployed(cg, set) ==
    deployments[set.name].exists /\ IsControlledBy(deployments[set.name], cg)

\* Wherever the process died in the middle of a group, and however far its
\* caches lagged, once it is done every set of every group has its deployment,
\* with the replicas of the spec for the workers, and every group its service;
\* unless something happened since the start that the controller does not
\* react to, or does not retry (syncComputeGroup, Start).
DeployedWhenQuiet ==
    Quiet /\ ~ missed => \A g \in Groups : groups[g].exists =>
        /\ services[g].exists
        /\ \A i \in DOMAIN Sets(groups[g]) : LET set == Sets(groups[g])[i] IN
              /\ Deployed(groups[g], set)
              /\ ~ set.leader => deployments[set.name].replicas = set.replicas

\* A name in a group's status is that of a deployment this group controls: not
\* of one that another group has made under the same name, nor of one that an
\* earlier group of the same name has left to the garbage collector (the
\* IsControlledBy check of syncComputeGroup, made against a cache that lags, and
\* the status update after it).  The instance it is checked on has groups whose
\* spec is not edited, and no deployment is deleted by anyone else.
ReadyIsOwn ==
    \A g \in Groups : groups[g].exists =>
        \A n \in groups[g].leaders \cup groups[g].workers :
            /\ deployments[n].exists
            /\ deployments[n].owner = OwnerOf(groups[g])

\* A group that is the first of its name is Ready only once its service is
\* there to reach the leaders: the status is updated last, and not after an
\* error (syncComputeGroup).
ReadyIsServed ==
    \A g \in Groups :
        /\ groups[g].exists
        /\ groups[g].uid = 1
        /\ groups[g].status = "Ready"
        => services[g].exists
===============================================================================

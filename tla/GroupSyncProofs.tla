---------------------------- MODULE GroupSyncProofs ----------------------------
(* What GroupSync keeps for every set of groups, specs, threads and every        *)
(* number of faults and restarts.                                                *)
EXTENDS GroupSync, TLAPS

-------------------------------------------------------------------------------
(* The inductive invariant.                                                    *)

\* A group object that has one of the specs of its name.
KnownGroup == {cg \in Group : cg.spec \in DOMAIN Specs[cg.name]}

Known ==
    /\ groups \in [Groups -> KnownGroup]
    /\ \A g \in Groups : groups[g].name = g
    /\ queue \subseteq KnownGroup
    /\ group \in [Threads -> KnownGroup]

Busy(t) == at[t] # "idle"

\* No object or snapshot is of a group that has yet to be created.
Numbered ==
    /\ \A g \in Groups : groups[g].exists => groups[g].uid >= 1
    /\ \A g \in Groups : services[g].exists => services[g].uid \in 1..groups[g].uid
    /\ \A g \in Groups :
          serviceCache[g].exists => serviceCache[g].uid \in 1..groups[g].uid
    /\ \A cg \in queue : cg.uid \in 1..groups[cg.name].uid
    /\ \A t \in Threads : Busy(t) => group[t].uid \in 1..groups[group[t].name].uid

\* While the first group of a name has no service, nothing says that it has one:
\* not the cache, not the status, not a snapshot, not the place of a thread.
Unserved(g) == groups[g].exists /\ groups[g].uid = 1 /\ ~ services[g].exists
Served ==
    \A g \in Groups : Unserved(g) =>
        /\ ~ serviceCache[g].exists
        /\ groups[g].status # "Ready"
        /\ \A cg \in queue : cg.name = g => cg.status # "Ready"
        /\ \A t \in Threads : Busy(t) /\ group[t].name = g =>
              /\ group[t].status # "Ready"
              /\ at[t] \in {"replicas", "status"} => ~ Set(t).leader

IInv == TypeOK /\ Known /\ Numbered /\ Served

-------------------------------------------------------------------------------
(* The operators of the model.                                                 *)

\* A group has at least one set, and its sets are what SetSpec says.
LEMMA SetsType ==
    ASSUME NEW cg \in KnownGroup
    PROVE  /\ Sets(cg) \in Seq(SetSpec)
           /\ 1 \in DOMAIN Sets(cg)
           /\ DOMAIN Sets(cg) = 1..Len(Sets(cg))
           /\ Len(Sets(cg)) \in Nat
<1>1. cg.name \in Groups /\ cg.spec \in DOMAIN Specs[cg.name]
  BY DEF KnownGroup, Group
<1>2. Specs[cg.name] \in Seq(Seq(SetSpec)) /\ Specs[cg.name][cg.spec] # <<>>
  BY <1>1, GroupSyncAssumption
<1>3. Specs[cg.name][cg.spec] \in Seq(SetSpec)
  BY <1>1, <1>2
<1> QED BY <1>2, <1>3 DEF Sets

\* The set a busy thread has come to.
LEMMA SetType ==
    ASSUME TypeOK, Known, NEW t \in Threads, Busy(t)
    PROVE  /\ group[t] \in KnownGroup
           /\ group[t] \in Group
           /\ group[t].name \in Groups
           /\ Set(t) \in SetSpec
<1>1. group[t] \in KnownGroup /\ index[t] \in DOMAIN Sets(group[t])
  BY DEF Known, TypeOK, Busy
<1>2. Sets(group[t]) \in Seq(SetSpec)
  BY <1>1, SetsType
<1>3. Sets(group[t])[index[t]] \in SetSpec
  BY <1>1, <1>2
<1> QED BY <1>1, <1>3 DEF Set, KnownGroup, Group

LEMMA AnyGroupType ==
    /\ AnyGroup \in KnownGroup
    /\ \A g \in Groups : NoGroup(g) \in KnownGroup
    /\ NoDeployment \in Deployment
    /\ NoService \in Service
<1>1. \A g \in Groups : NoGroup(g) \in KnownGroup
  <2> SUFFICES ASSUME NEW g \in Groups PROVE NoGroup(g) \in KnownGroup
    OBVIOUS
  <2>1. Specs[g] \in Seq(Seq(SetSpec)) /\ Specs[g] # <<>>
    BY GroupSyncAssumption
  <2>2. 1 \in DOMAIN Specs[g]
    BY <2>1
  <2> QED BY <2>2 DEF NoGroup, NewGroup, KnownGroup, Group
<1>2. AnyGroup \in KnownGroup
  BY <1>1, GroupSyncAssumption DEF AnyGroup
<1>3. NoDeployment \in Deployment
  BY <1>2 DEF NoDeployment, Deployment, OwnerOf, Owner, KnownGroup, Group
<1> QED BY <1>1, <1>2, <1>3 DEF NoService, Service

\* MakeDeployment with its ownership makes a deployment of the group.
LEMMA MakeDeploymentType ==
    ASSUME NEW cg \in Group, NEW set \in SetSpec
    PROVE  MakeDeployment(cg, set) \in Deployment
BY DEF MakeDeployment, Deployment, OwnerOf, Owner, Group, SetSpec

\* The two status updates keep name, UID and spec, and make a group Ready only
\* from a leader set.
LEMMA RecordedType ==
    ASSUME NEW cg \in KnownGroup, NEW set \in SetSpec
    PROVE  /\ Recorded(cg, set) \in KnownGroup
           /\ Recorded(cg, set).name = cg.name
           /\ Recorded(cg, set).uid = cg.uid
           /\ Recorded(cg, set).exists = cg.exists
           /\ Recorded(cg, set).status = "Ready" => set.leader \/ cg.status = "Ready"
BY DEF Recorded, KnownGroup, Group, SetSpec

LEMMA PrunedType ==
    ASSUME NEW cg \in KnownGroup
    PROVE  /\ Pruned(cg) \in KnownGroup
           /\ Pruned(cg).name = cg.name
           /\ Pruned(cg).uid = cg.uid
           /\ Pruned(cg).exists = cg.exists
           /\ Pruned(cg).status = "Ready" => cg.status = "Ready"
BY DEF Pruned, KnownGroup, Group

-------------------------------------------------------------------------------
(* What the thread moves do.                                                   *)

\* Each thread keeps its snapshot or drops it; if it moves on at all it goes to
\* the deployment or the service of a set, or it is t and has no leader set or
\* a group that is served.
UnservedThen(g) == groups'[g].exists /\ groups'[g].uid = 1 /\ ~ services'[g].exists
PastService(t) == Set(t).leader => ~ UnservedThen(group[t].name)
Moved(t) ==
    /\ at' \in [Threads -> {"idle", "prune", "deployment", "service",
                            "replicas", "status"}]
    /\ group' \in [Threads -> KnownGroup]
    /\ index' \in [Threads -> Nat]
    /\ found' \in [Threads -> Deployment]
    /\ \A u \in Threads : Busy(u)' =>
          /\ Busy(u)
          /\ group'[u] = group[u]
          /\ index'[u] \in DOMAIN Sets(group[u])
          /\ \/ at'[u] = at[u] /\ index'[u] = index[u]
             \/ at'[u] \in {"deployment", "service"}
             \/ u = t /\ index'[u] = index[u] /\ PastService(t)

LEMMA NextSetMoved ==
    ASSUME TypeOK, Known, NEW t \in Threads, Busy(t), NextSet(t)
    PROVE  Moved(t)
<1>1. CASE index[t] < Len(Sets(group[t]))
  <2>1. index[t] + 1 \in DOMAIN Sets(group[t]) /\ index[t] + 1 \in Nat
    BY <1>1, SetsType DEF TypeOK, Known, Busy
  <2>2. /\ at' = [at EXCEPT ![t] = "deployment"]
        /\ index' = [index EXCEPT ![t] = index[t] + 1]
        /\ found' = [found EXCEPT ![t] = NoDeployment]
        /\ group' = group
    BY <1>1 DEF NextSet
  <2> QED
    BY <2>1, <2>2, AnyGroupType DEF Moved, TypeOK, Known, Busy
<1>2. CASE ~ (index[t] < Len(Sets(group[t])))
  <2>1. /\ at' = [at EXCEPT ![t] = "idle"]
        /\ index' = [index EXCEPT ![t] = 1]
        /\ found' = [found EXCEPT ![t] = NoDeployment]
        /\ group' = [group EXCEPT ![t] = AnyGroup]
    BY <1>2 DEF NextSet
  <2> QED
    BY <2>1, AnyGroupType DEF Moved, TypeOK, Known, Busy
<1> QED BY <1>1, <1>2

LEMMA GoOnMoved ==
    ASSUME TypeOK, Known, NEW t \in Threads, Busy(t),
           NEW to \in {"deployment", "service", "replicas", "status"},
           NEW d \in Deployment, GoOn(t, to, d),
           to \in {"replicas", "status"} => PastService(t)
    PROVE  Moved(t)
BY DEF GoOn, Moved, TypeOK, Known, Busy

\* Groups keep name and UID, none comes into being, and none becomes Ready while
\* it is the first of its name and has no service.
GroupsKept ==
    /\ groups' \in [Groups -> KnownGroup]
    /\ \A g \in Groups :
          /\ groups'[g].name = g
          /\ groups'[g].uid = groups[g].uid
          /\ groups'[g].exists => groups[g].exists
          /\ groups'[g].status = "Ready" => groups[g].status = "Ready" \/ ~ Unserved(g)

LEMMA UnchangedKept ==
    ASSUME Known, UNCHANGED groups
    PROVE  GroupsKept
BY DEF GroupsKept, Known

LEMMA UpdatedKept ==
    ASSUME TypeOK, Known, NEW cg \in KnownGroup, NEW new \in KnownGroup,
           new.name = cg.name, new.uid = cg.uid,
           new.status = "Ready" => ~ Unserved(cg.name),
           groups' = Updated(cg, new)
    PROVE  GroupsKept
<1>1. CASE groups' = groups
  BY <1>1, UnchangedKept
<1>2. CASE Current(cg) /\ groups' = [groups EXCEPT ![cg.name] = [new EXCEPT !.rv = cg.rv + 1]]
  <2> DEFINE made == [new EXCEPT !.rv = cg.rv + 1]
  <2>1. /\ made \in KnownGroup
        /\ made.name = cg.name /\ made.uid = cg.uid /\ made.status = new.status
    BY DEF KnownGroup, Group
  <2>2. cg.name \in Groups /\ groups[cg.name].exists /\ groups[cg.name].uid = cg.uid
    BY <1>2 DEF Current, KnownGroup, Group
  <2> HIDE DEF made
  <2>3. groups' = [groups EXCEPT ![cg.name] = made]
    BY <1>2 DEF made
  <2> QED BY <2>1, <2>2, <2>3 DEF GroupsKept, Known
<1> QED BY <1>1, <1>2 DEF Updated

\* A move that keeps groups, leaves caches and queue alone, adds at most a service for
\* the thread's own group, and goes past the service only if there is one or
\* the set is not that of the leaders, keeps the invariant.
LEMMA MovedKeeps ==
    ASSUME IInv, NEW t \in Threads, Busy(t),
           Moved(t),
           GroupsKept,
           UNCHANGED <<caches, queue>>,
           deployments' \in [Names -> Deployment],
           \/ UNCHANGED services
           \/ services' = [services EXCEPT ![group[t].name] =
                              [exists |-> TRUE, uid |-> group[t].uid]],
           deletions' \in 0..MaxDeletions, faults' \in 0..MaxFaults,
           crashes' \in 0..MaxCrashes, missed' \in BOOLEAN
    PROVE  IInv'
<1> USE DEF IInv
<1>1. group[t] \in Group /\ group[t].name \in Groups /\ group[t].uid \in Nat
  BY SetType DEF Group
<1>2. group[t].uid \in 1..groups[group[t].name].uid
  BY DEF Numbered
<1>3. services' \in [Groups -> Service]
  <2>1. [exists |-> TRUE, uid |-> group[t].uid] \in Service
    BY <1>1 DEF Service
  <2>2. services \in [Groups -> Service]
    BY DEF TypeOK
  <2> HIDE DEF IInv
  <2> QED BY <1>1, <2>1, <2>2
<1>4. TypeOK'
  BY <1>3 DEF TypeOK, Moved, Busy, caches, Known, KnownGroup, GroupsKept
<1>5. Known'
  BY DEF Known, Moved, GroupsKept
<1>6. Numbered'
  <2>1. \A g \in Groups : groups'[g].uid = groups[g].uid /\ (groups'[g].exists => groups[g].exists)
    BY DEF GroupsKept
  <2>2. \A cg \in KnownGroup : cg.name \in Groups
    BY DEF KnownGroup, Group
  <2>3. \A g \in Groups : services'[g].exists => services'[g].uid \in 1..groups'[g].uid
    BY <1>1, <1>2, <2>1 DEF Numbered, TypeOK
  <2>4. \A cg \in queue' : cg.uid \in 1..groups'[cg.name].uid
    BY <2>1, <2>2 DEF Numbered, Known
  <2>5. \A u \in Threads : Busy(u)' => group'[u].uid \in 1..groups'[group'[u].name].uid
    BY <2>1, <2>2 DEF Numbered, Moved, Known
  <2> QED BY <2>1, <2>3, <2>4, <2>5 DEF Numbered, caches
<1>7. ASSUME NEW g \in Groups, Unserved(g)' PROVE Unserved(g)
  BY <1>1, <1>7 DEF Unserved, TypeOK, GroupsKept
<1>8. Served'
  <2> SUFFICES ASSUME NEW g \in Groups, Unserved(g)'
               PROVE  /\ ~ serviceCache'[g].exists
                      /\ groups'[g].status # "Ready"
                      /\ \A cg \in queue' : cg.name = g => cg.status # "Ready"
                      /\ \A u \in Threads : Busy(u)' /\ group'[u].name = g =>
                            /\ group'[u].status # "Ready"
                            /\ at'[u] \in {"replicas", "status"} => ~ Set(u)'.leader
    BY DEF Served
  <2>1. Unserved(g)
    BY <1>7
  <2>2. /\ ~ serviceCache'[g].exists
        /\ groups'[g].status # "Ready"
        /\ \A cg \in queue' : cg.name = g => cg.status # "Ready"
    BY <2>1 DEF Served, caches, GroupsKept
  <2>3. ASSUME NEW u \in Threads, Busy(u)', group'[u].name = g
        PROVE  /\ group'[u].status # "Ready"
               /\ at'[u] \in {"replicas", "status"} => ~ Set(u)'.leader
    <3>1. /\ Busy(u)
          /\ group'[u] = group[u]
          /\ \/ at'[u] = at[u] /\ index'[u] = index[u]
             \/ at'[u] \in {"deployment", "service"}
             \/ /\ u = t
                /\ index'[u] = index[u]
                /\ PastService(t)
      BY <2>3 DEF Moved
    <3>2. index'[u] = index[u] => Set(u)' = Set(u)
      BY <3>1 DEF Set, Sets
    <3>3. group[u].status # "Ready" /\ (at[u] \in {"replicas", "status"} => ~ Set(u).leader)
      BY <2>1, <2>3, <3>1 DEF Served
    <3>4. CASE u = t /\ at'[u] # at[u]
      <4>1. UnservedThen(group[t].name)
        BY <2>3, <3>1, <3>4 DEF Unserved, UnservedThen
      <4> QED BY <3>1, <3>2, <3>3, <3>4, <4>1 DEF PastService
    <3> QED BY <2>3, <3>1, <3>2, <3>3, <3>4
  <2> QED BY <2>2, <2>3
<1> QED BY <1>4, <1>5, <1>6, <1>8

-------------------------------------------------------------------------------
(* One lemma for each action of a busy thread.                                 *)

\* A failed call counts; what is at a thread's hands is a deployment.
LEMMA Faulty ==
    ASSUME TypeOK, InjectFault
    PROVE  faults' \in 0..MaxFaults
BY GroupSyncAssumption DEF TypeOK, InjectFault

\* The bounds and the history, where an action leaves them alone.
LEMMA BoundsKept ==
    ASSUME TypeOK
    PROVE  /\ deletions' = deletions => deletions' \in 0..MaxDeletions
           /\ faults' = faults => faults' \in 0..MaxFaults
           /\ crashes' = crashes => crashes' \in 0..MaxCrashes
           /\ missed' = missed => missed' \in BOOLEAN
           /\ deployments' = deployments => deployments' \in [Names -> Deployment]
BY DEF TypeOK

LEMMA PruneStatusKeeps ==
    ASSUME IInv, NEW t \in Threads, PruneStatus(t)
    PROVE  IInv'
<1> USE DEF IInv
<1>1. Busy(t)
  BY DEF PruneStatus, Busy
<1>2. Moved(t)
  BY <1>1, GoOnMoved, AnyGroupType DEF PruneStatus
<1>3. GroupsKept
  <2>1. CASE groups' = groups
    BY <2>1, UnchangedKept
  <2>2. CASE groups' = Updated(group[t], Pruned(group[t]))
    <3>1. Pruned(group[t]).status = "Ready" => ~ Unserved(group[t].name)
      BY <1>1, SetType, PrunedType DEF Served
    <3> QED BY <1>1, <2>2, <3>1, SetType, PrunedType, UpdatedKept
  <2> QED BY <2>1, <2>2 DEF PruneStatus
<1>4. faults' \in 0..MaxFaults
  BY Faulty, BoundsKept DEF PruneStatus
<1> QED
  BY <1>1, <1>2, <1>3, <1>4, MovedKeeps, BoundsKept DEF PruneStatus

LEMMA UpdateStatusKeeps ==
    ASSUME IInv, NEW t \in Threads, UpdateStatus(t)
    PROVE  IInv'
<1> USE DEF IInv
<1>1. Busy(t)
  BY DEF UpdateStatus, Busy
<1>2. Moved(t)
  BY <1>1, NextSetMoved DEF UpdateStatus
<1>3. GroupsKept
  <2>1. CASE groups' = groups
    BY <2>1, UnchangedKept
  <2>2. CASE groups' = Updated(group[t], Recorded(group[t], Set(t)))
    <3>1. Recorded(group[t], Set(t)).status = "Ready" => ~ Unserved(group[t].name)
      BY <1>1, SetType, RecordedType DEF Served, UpdateStatus
    <3> QED BY <1>1, <2>2, <3>1, SetType, RecordedType, UpdatedKept
  <2> QED BY <2>1, <2>2 DEF UpdateStatus
<1>4. faults' \in 0..MaxFaults
  BY Faulty, BoundsKept DEF UpdateStatus
<1> QED
  BY <1>1, <1>2, <1>3, <1>4, MovedKeeps, BoundsKept DEF UpdateStatus

\* The deployment is there: a leader set goes to its service first.
LEMMA AfterDeploymentMoved ==
    ASSUME TypeOK, Known, NEW t \in Threads, Busy(t), NEW d \in Deployment,
           AfterDeployment(t, d)
    PROVE  Moved(t)
<1>1. CASE Set(t).leader
  BY <1>1, GoOnMoved DEF AfterDeployment
<1>2. CASE ~ Set(t).leader
  BY <1>2, GoOnMoved DEF AfterDeployment, PastService
<1> QED BY <1>1, <1>2

LEMMA FindDeploymentKeeps ==
    ASSUME IInv, NEW t \in Threads, FindDeployment(t)
    PROVE  IInv'
<1> USE DEF IInv
<1>1. Busy(t)
  BY DEF FindDeployment, Busy
<1>2. deploymentCache[Set(t).name] \in Deployment
  BY <1>1, SetType DEF TypeOK, SetSpec
<1>3. Moved(t)
  BY <1>1, <1>2, AfterDeploymentMoved DEF FindDeployment
<1> QED
  BY <1>1, <1>3, MovedKeeps, BoundsKept, UnchangedKept DEF FindDeployment, api, bounds

\* What a thread makes for its set is a deployment.
LEMMA MadeType ==
    ASSUME TypeOK, Known, NEW t \in Threads, Busy(t)
    PROVE  LET made == MakeDeployment(group[t], Set(t)) IN
           /\ made \in Deployment
           /\ [deployments EXCEPT ![Set(t).name] = made] \in [Names -> Deployment]
BY SetType, MakeDeploymentType DEF TypeOK

LEMMA CreateDeploymentKeeps ==
    ASSUME IInv, NEW t \in Threads, CreateDeployment(t)
    PROVE  IInv'
<1> USE DEF IInv
<1>1. Busy(t)
  BY DEF CreateDeployment, Busy
<1>2. Moved(t)
  BY <1>1, MadeType, AfterDeploymentMoved, NextSetMoved DEF CreateDeployment
<1>3. deployments' \in [Names -> Deployment]
  BY <1>1, MadeType DEF CreateDeployment, TypeOK
<1>4. faults' \in 0..MaxFaults /\ missed' \in BOOLEAN
  BY Faulty, BoundsKept DEF CreateDeployment
<1> QED
  BY <1>1, <1>2, <1>3, <1>4, MovedKeeps, BoundsKept, UnchangedKept DEF CreateDeployment

\* A service in the cache is at the API server too, while its group is the first.
LEMMA FindServiceKeeps ==
    ASSUME IInv, NEW t \in Threads, FindService(t)
    PROVE  IInv'
<1> USE DEF IInv
<1>1. Busy(t)
  BY DEF FindService, Busy
<1>2. found[t] \in Deployment
  BY DEF TypeOK
<1>3. ~ UnservedThen(group[t].name)
  BY <1>1, SetType DEF Served, FindService, api, Unserved, UnservedThen
<1>4. Moved(t)
  BY <1>1, <1>2, <1>3, GoOnMoved DEF FindService, PastService
<1> QED
  BY <1>1, <1>4, MovedKeeps, BoundsKept, UnchangedKept DEF FindService, api, bounds

LEMMA CreateServiceKeeps ==
    ASSUME IInv, NEW t \in Threads, CreateService(t)
    PROVE  IInv'
<1> USE DEF IInv
<1>1. Busy(t)
  BY DEF CreateService, Busy
<1>2. found[t] \in Deployment /\ group[t].name \in Groups
  BY <1>1, SetType DEF TypeOK
<1>3. Moved(t)
  <2>1. CASE NextSet(t)
    BY <1>1, <2>1, NextSetMoved
  <2>2. CASE ~ NextSet(t)
    <3>1. services'[group[t].name].exists /\ GoOn(t, "replicas", found[t])
      BY <1>2, <2>2 DEF CreateService, TypeOK
    <3>2. ~ UnservedThen(group[t].name)
      BY <3>1 DEF UnservedThen
    <3> QED BY <1>1, <1>2, <3>1, <3>2, GoOnMoved DEF PastService
  <2> QED BY <2>1, <2>2
<1>4. faults' \in 0..MaxFaults /\ missed' \in BOOLEAN
  BY Faulty, BoundsKept DEF CreateService
<1>5. \/ UNCHANGED services
      \/ services' = [services EXCEPT ![group[t].name] =
                         [exists |-> TRUE, uid |-> group[t].uid]]
  BY DEF CreateService
<1> QED
  BY <1>1, <1>3, <1>4, <1>5, MovedKeeps, BoundsKept, UnchangedKept DEF CreateService

LEMMA NotControlledKeeps ==
    ASSUME IInv, NEW t \in Threads, NotControlled(t)
    PROVE  IInv'
<1> USE DEF IInv
<1>1. Busy(t)
  BY DEF NotControlled, Busy
<1>2. Moved(t)
  BY <1>1, NextSetMoved DEF NotControlled
<1> QED
  BY <1>1, <1>2, MovedKeeps, BoundsKept, UnchangedKept DEF NotControlled, api, bounds

\* From the replicas to the status: a thread that is there with a leader set is
\* past the service already.
LEMMA SameReplicasKeeps ==
    ASSUME IInv, NEW t \in Threads, SameReplicas(t)
    PROVE  IInv'
<1> USE DEF IInv
<1>1. Busy(t)
  BY DEF SameReplicas, Busy
<1>2. found[t] \in Deployment
  BY DEF TypeOK
<1>3. PastService(t)
  BY <1>1, SetType DEF Served, SameReplicas, api, Unserved, UnservedThen, PastService
<1>4. Moved(t)
  BY <1>1, <1>2, <1>3, GoOnMoved DEF SameReplicas
<1> QED
  BY <1>1, <1>4, MovedKeeps, BoundsKept, UnchangedKept DEF SameReplicas, api, bounds

LEMMA UpdateReplicasKeeps ==
    ASSUME IInv, NEW t \in Threads, UpdateReplicas(t)
    PROVE  IInv'
<1> USE DEF IInv
<1>1. Busy(t)
  BY DEF UpdateReplicas, Busy
<1>2. Set(t).leader => ~ Unserved(group[t].name)
  BY <1>1, SetType DEF Served, UpdateReplicas
<1>3. Moved(t)
  <2>1. CASE NextSet(t)
    BY <1>1, <2>1, NextSetMoved
  <2>2. CASE ~ NextSet(t)
    <3>1. GoOn(t, "status", MakeDeployment(group[t], Set(t)))
      BY <2>2 DEF UpdateReplicas
    <3>2. PastService(t)
      BY <1>2 DEF UpdateReplicas, Unserved, UnservedThen, PastService
    <3> QED BY <1>1, <3>1, <3>2, MadeType, GoOnMoved
  <2> QED BY <2>1, <2>2
<1>4. deployments' \in [Names -> Deployment]
  BY <1>1, MadeType DEF UpdateReplicas, TypeOK
<1>5. faults' \in 0..MaxFaults
  BY Faulty, BoundsKept DEF UpdateReplicas
<1> QED
  BY <1>1, <1>3, <1>4, <1>5, MovedKeeps, BoundsKept, UnchangedKept DEF UpdateReplicas

-------------------------------------------------------------------------------
(* The other actions.                                                          *)

\* What does not look at threads keeps the fact about their sets.
LEMMA SetKept ==
    ASSUME UNCHANGED <<group, index>>, NEW t \in Threads
    PROVE  Set(t)' = Set(t)
BY DEF Set, Sets

LEMMA GetGroupKeeps ==
    ASSUME IInv, NEW t \in Threads, NEW cg \in queue, GetGroup(t, cg)
    PROVE  IInv'
<1> USE DEF IInv
<1>1. cg \in KnownGroup /\ cg \in Group /\ cg.name \in Groups
  BY DEF Known, KnownGroup, Group
<1>2. 1 \in DOMAIN Sets(cg)
  BY <1>1, SetsType
<1>3. /\ at' \in [Threads -> {"idle", "prune", "deployment", "service",
                               "replicas", "status"}]
      /\ group' = [group EXCEPT ![t] = cg]
      /\ index' = [index EXCEPT ![t] = 1]
      /\ at'[t] \in {"prune", "deployment"}
      /\ \A u \in Threads \ {t} : at'[u] = at[u]
      /\ queue' = queue \ {cg}
      /\ UNCHANGED <<api, caches, found, bounds, missed>>
  BY DEF GetGroup, TypeOK
<1>4. TypeOK'
  BY <1>1, <1>2, <1>3 DEF TypeOK, api, caches, bounds
<1>5. Known'
  BY <1>1, <1>3 DEF Known, api
<1>6. Numbered'
  BY <1>1, <1>3 DEF Numbered, Known, Busy, api, caches
<1>7. \A g \in Groups : Unserved(g)' => Unserved(g)
  BY <1>3 DEF Unserved, api
<1>8. ASSUME NEW u \in Threads, u # t PROVE Set(u)' = Set(u)
  BY <1>3, <1>8 DEF Set, Sets, Known, TypeOK
<1>9. Served'
  BY <1>3, <1>7, <1>8 DEF Served, Busy, api, caches, Known
<1> QED BY <1>4, <1>5, <1>6, <1>9

\* A cache takes over what the API server has.
LEMMA DeliverKeeps ==
    ASSUME IInv, Deliver
    PROVE  IInv'
<1> USE DEF IInv
<1>1. ASSUME NEW n \in Names, DeliverDeployment(n) PROVE IInv'
  <2>1. TypeOK' /\ Known' /\ Numbered'
    BY <1>1 DEF DeliverDeployment, TypeOK, Known, Numbered, Busy, api, thread, bounds
  <2>2. Served'
    BY <1>1, SetKept DEF DeliverDeployment, Served, Unserved, Busy, api, thread
  <2> QED BY <2>1, <2>2
<1>2. ASSUME NEW g \in Groups, DeliverService(g) PROVE IInv'
  <2>1. TypeOK'
    BY <1>2 DEF DeliverService, TypeOK, api, thread, bounds
  <2>2. Known' /\ Numbered'
    BY <1>2 DEF DeliverService, TypeOK, Known, Numbered, Busy, api, thread
  <2>3. Served'
    BY <1>2, SetKept DEF DeliverService, TypeOK, Served, Unserved, Busy, api, thread
  <2> QED BY <2>1, <2>2, <2>3
<1> QED BY <1>1, <1>2 DEF Deliver

LEMMA CreateGroupKeeps ==
    ASSUME IInv, NEW g \in Groups, CreateGroup(g)
    PROVE  IInv'
<1> USE DEF IInv
<1> DEFINE cg == NewGroup(g, TRUE, groups[g].uid + 1, groups[g].rv + 1)
<1>1. groups[g] \in Group /\ groups[g].uid \in Nat
  BY DEF TypeOK, Group
<1>2. /\ cg \in KnownGroup /\ cg \in Group
      /\ cg.name = g /\ cg.uid = groups[g].uid + 1 /\ cg.status = "Created"
      /\ cg.exists
  <2>1. 1 \in DOMAIN Specs[g]
    BY AnyGroupType DEF KnownGroup, NoGroup, NewGroup
  <2>2. groups[g].rv \in Nat
    BY <1>1 DEF Group
  <2>3. cg \in Group
    BY <1>1, <2>2 DEF Group, NewGroup
  <2> QED BY <2>1, <2>3 DEF KnownGroup, NewGroup
<1>3. /\ groups' = [groups EXCEPT ![g] = cg]
      /\ queue' = queue \cup {cg}
      /\ UNCHANGED <<deployments, services, caches, thread, bounds, missed>>
  BY DEF CreateGroup
<1> HIDE DEF cg
<1>4. TypeOK'
  BY <1>2, <1>3 DEF TypeOK, caches, thread, bounds
<1>5. Known'
  BY <1>2, <1>3 DEF Known, thread
<1>6. \A h \in Groups : groups'[h].uid >= groups[h].uid /\ groups'[h].uid \in Nat
  BY <1>1, <1>2, <1>3 DEF TypeOK, Group
<1>7. \A c \in KnownGroup : c.name \in Groups /\ c.uid \in Nat
  BY DEF KnownGroup, Group
<1>8. Numbered'
  <2>1. \A h \in Groups : groups'[h].exists => groups'[h].uid >= 1
    BY <1>1, <1>2, <1>3 DEF Numbered, Known
  <2>2. /\ \A h \in Groups : services'[h].exists => services'[h].uid \in 1..groups'[h].uid
        /\ \A h \in Groups :
              serviceCache'[h].exists => serviceCache'[h].uid \in 1..groups'[h].uid
    BY <1>3, <1>6 DEF Numbered, caches, TypeOK, Service, Group
  <2>3. \A c \in queue' : c.uid \in 1..groups'[c.name].uid
    <3>1. cg.uid \in 1..groups'[cg.name].uid
      BY <1>1, <1>2, <1>3 DEF Known
    <3>2. ASSUME NEW c \in queue PROVE c.uid \in 1..groups'[c.name].uid
      <4>1. c \in KnownGroup /\ c.uid \in 1..groups[c.name].uid
        BY DEF Numbered, Known
      <4> QED BY <4>1, <1>6, <1>7 DEF TypeOK, Group
    <3> QED BY <3>1, <3>2, <1>3
  <2>4. \A u \in Threads : Busy(u)' => group'[u].uid \in 1..groups'[group'[u].name].uid
    <3> SUFFICES ASSUME NEW u \in Threads, Busy(u)
                 PROVE  group[u].uid \in 1..groups'[group[u].name].uid
      BY <1>3 DEF thread, Busy
    <3>1. group[u] \in KnownGroup /\ group[u].uid \in 1..groups[group[u].name].uid
      BY DEF Numbered, Known
    <3> QED BY <3>1, <1>6, <1>7 DEF TypeOK, Group
  <2> QED BY <2>1, <2>2, <2>3, <2>4 DEF Numbered
<1>9. Served'
  <2>1. ASSUME NEW h \in Groups, h # g, Unserved(h)'
        PROVE  Unserved(h) /\ groups'[h] = groups[h]
    BY <1>3, <2>1 DEF Unserved, TypeOK
  <2>2. ASSUME Unserved(g)'
        PROVE  /\ ~ serviceCache[g].exists
               /\ \A c \in queue : c.name # g
               /\ \A t \in Threads : Busy(t) => group[t].name # g
    <3>1. groups[g].uid = 0
      BY <1>1, <1>2, <1>3, <2>2 DEF Unserved, Known
    <3> QED BY <3>1 DEF Numbered
  <2>3. \A t \in Threads : Set(t)' = Set(t)
    BY <1>3, SetKept DEF thread
  <2> QED
    BY <1>2, <1>3, <2>1, <2>2, <2>3 DEF Served, Busy, caches, thread, Known
<1> QED BY <1>4, <1>5, <1>8, <1>9

\* An action that changes, of the objects, groups at most, makes no group Ready
\* and brings none into being, and that keeps caches, queue and threads.
LEMMA GroupsKeptKeeps ==
    ASSUME IInv, GroupsKept, UNCHANGED <<services, caches, queue, thread>>,
           deployments' \in [Names -> Deployment], deletions' \in 0..MaxDeletions,
           missed' \in BOOLEAN, UNCHANGED <<faults, crashes>>
    PROVE  IInv'
<1> USE DEF IInv
<1>1. TypeOK'
  BY DEF TypeOK, GroupsKept, KnownGroup, caches, thread
<1>2. Known'
  BY DEF Known, GroupsKept, thread
<1>3. Numbered'
  <2>1. \A g \in Groups : groups'[g].uid = groups[g].uid /\ (groups'[g].exists => groups[g].exists)
    BY DEF GroupsKept
  <2>2. \A cg \in KnownGroup : cg.name \in Groups
    BY DEF KnownGroup, Group
  <2>3. \A cg \in queue' : cg.uid \in 1..groups'[cg.name].uid
    BY <2>1, <2>2 DEF Numbered, Known
  <2>4. \A t \in Threads : Busy(t)' => group'[t].uid \in 1..groups'[group'[t].name].uid
    BY <2>1, <2>2 DEF Numbered, Known, thread, Busy
  <2> QED BY <2>1, <2>3, <2>4 DEF Numbered, caches
<1>4. \A g \in Groups : Unserved(g)' => Unserved(g)
  BY DEF Unserved, GroupsKept
<1>5. \A t \in Threads : Set(t)' = Set(t)
  BY SetKept DEF thread
<1>6. Served'
  BY <1>4, <1>5 DEF Served, GroupsKept, caches, thread, Busy
<1> QED BY <1>1, <1>2, <1>3, <1>6

LEMMA UpdateGroupKeeps ==
    ASSUME IInv, NEW g \in Groups, UpdateGroup(g)
    PROVE  IInv'
<1> USE DEF IInv
<1> DEFINE new == [groups[g] EXCEPT !.spec = @ + 1, !.rv = @ + 1]
<1>1. groups[g] \in KnownGroup /\ groups[g].name = g
  BY DEF Known
<1>2. groups[g].spec + 1 \in DOMAIN Specs[g]
  BY <1>1, GroupSyncAssumption DEF UpdateGroup, KnownGroup, Group
<1>3. /\ new \in KnownGroup
      /\ new.name = g /\ new.uid = groups[g].uid
      /\ new.exists = groups[g].exists /\ new.status = groups[g].status
  <2>1. groups[g] \in Group /\ groups[g].spec + 1 \in Nat /\ groups[g].rv + 1 \in Nat
    BY <1>1 DEF KnownGroup, Group
  <2>2. new \in Group /\ new.spec = groups[g].spec + 1
    BY <2>1 DEF Group
  <2>3. /\ new.name = g /\ new.uid = groups[g].uid
        /\ new.exists = groups[g].exists /\ new.status = groups[g].status
    BY <1>1, <2>1 DEF Group
  <2> HIDE DEF new
  <2> QED BY <1>1, <1>2, <2>2, <2>3 DEF KnownGroup
<1>4. groups' = [groups EXCEPT ![g] = new]
  BY DEF UpdateGroup
<1> HIDE DEF new
<1>5. GroupsKept
  BY <1>3, <1>4 DEF GroupsKept, Known
<1> QED
  BY <1>5, GroupsKeptKeeps, BoundsKept DEF UpdateGroup, bounds

LEMMA DeleteGroupKeeps ==
    ASSUME IInv, NEW g \in Groups, DeleteGroup(g)
    PROVE  IInv'
<1> USE DEF IInv
<1> DEFINE new == [groups[g] EXCEPT !.exists = FALSE]
<1>1. groups[g] \in KnownGroup /\ groups[g].name = g
  BY DEF Known
<1>2. /\ new \in KnownGroup
      /\ new.name = g /\ new.uid = groups[g].uid
      /\ ~ new.exists /\ new.status = groups[g].status
  BY <1>1 DEF KnownGroup, Group
<1>3. groups' = [groups EXCEPT ![g] = new]
  BY DEF DeleteGroup
<1> HIDE DEF new
<1>4. GroupsKept
  BY <1>2, <1>3 DEF GroupsKept, Known
<1> QED
  BY <1>4, GroupsKeptKeeps, BoundsKept DEF DeleteGroup, bounds

LEMMA DeleteDeploymentKeeps ==
    ASSUME IInv, NEW n \in Names, DeleteDeployment(n) \/ CollectDeployment(n)
    PROVE  IInv'
<1> USE DEF IInv
<1>1. deployments' \in [Names -> Deployment]
  BY AnyGroupType DEF DeleteDeployment, CollectDeployment, TypeOK
<1>2. deletions' \in 0..MaxDeletions /\ missed' \in BOOLEAN
  <2>1. CASE DeleteDeployment(n)
    BY <2>1, GroupSyncAssumption DEF DeleteDeployment, TypeOK
  <2>2. CASE CollectDeployment(n)
    BY <2>2 DEF CollectDeployment, TypeOK, bounds
  <2> QED BY <2>1, <2>2
<1> QED
  BY <1>1, <1>2, GroupsKeptKeeps, UnchangedKept
     DEF DeleteDeployment, CollectDeployment, bounds

\* The garbage collector does not take the service of a first group.
LEMMA CollectServiceKeeps ==
    ASSUME IInv, NEW g \in Groups, CollectService(g)
    PROVE  IInv'
<1> USE DEF IInv
<1>1. TypeOK'
  BY AnyGroupType DEF CollectService, TypeOK, caches, thread, bounds
<1>2. Known' /\ Numbered'
  BY DEF CollectService, Known, Numbered, NoService, Busy, caches, thread, TypeOK
<1>3. \A h \in Groups : Unserved(h)' => Unserved(h)
  BY DEF CollectService, Unserved, Orphaned, Numbered, TypeOK
<1>4. \A t \in Threads : Set(t)' = Set(t)
  BY SetKept DEF CollectService, thread
<1>5. Served'
  BY <1>3, <1>4 DEF Served, CollectService, caches, thread, Busy
<1> QED BY <1>1, <1>2, <1>5

\* A restart empties the service cache and makes every thread idle; the new
\* snapshots are the groups themselves.
LEMMA CrashKeeps ==
    ASSUME IInv, Crash
    PROVE  IInv'
<1> USE DEF IInv
<1>1. TypeOK'
  <2>1. /\ groups' \in [Groups -> Group]
        /\ deployments' \in [Names -> Deployment]
        /\ services' \in [Groups -> Service]
        /\ deploymentCache' \in [Names -> Deployment]
        /\ deletions' \in 0..MaxDeletions
    BY DEF Crash, Restarted, TypeOK, api
  <2>2. serviceCache' \in [Groups -> Service] /\ queue' \subseteq Group
    BY AnyGroupType DEF Crash, Restarted, TypeOK
  <2>3. /\ at' = [t \in Threads |-> "idle"]
        /\ group' \in [Threads -> Group]
        /\ index' \in [Threads -> Nat]
        /\ found' \in [Threads -> Deployment]
    BY AnyGroupType DEF Crash, Restarted, KnownGroup
  <2>4. faults' \in 0..MaxFaults /\ crashes' \in 0..MaxCrashes
    BY GroupSyncAssumption DEF Crash, Restarted, TypeOK
  <2>5. missed' \in BOOLEAN
    BY DEF Crash, Restarted
  <2> QED BY <2>1, <2>2, <2>3, <2>4, <2>5 DEF TypeOK
<1>2. Known'
  BY AnyGroupType DEF Crash, Restarted, Known, api
<1>3. Numbered'
  BY DEF Crash, Restarted, Numbered, Busy, NoService, Known, KnownGroup, Group, api
<1>4. Served'
  BY DEF Crash, Restarted, Served, Unserved, Busy, NoService, Known, api
<1> QED BY <1>1, <1>2, <1>3, <1>4

-------------------------------------------------------------------------------
(* The theorems.                                                               *)

LEMMA InitHolds == Init => IInv
<1> SUFFICES ASSUME Init PROVE IInv
  OBVIOUS
<1> USE DEF Init
<1>1. TypeOK
  <2>1. groups \in [Groups -> Group] /\ group \in [Threads -> Group]
    BY AnyGroupType DEF KnownGroup
  <2>2. /\ deployments \in [Names -> Deployment]
        /\ deploymentCache \in [Names -> Deployment]
        /\ found \in [Threads -> Deployment]
        /\ services \in [Groups -> Service]
        /\ serviceCache \in [Groups -> Service]
    BY AnyGroupType
  <2>3. /\ deletions \in 0..MaxDeletions
        /\ faults \in 0..MaxFaults
        /\ crashes \in 0..MaxCrashes
    BY GroupSyncAssumption
  <2>4. /\ missed \in BOOLEAN
        /\ queue = {}
        /\ at = [t \in Threads |-> "idle"]
        /\ index = [t \in Threads |-> 1]
    OBVIOUS
  <2> HIDE DEF Init
  <2> QED BY <2>1, <2>2, <2>3, <2>4 DEF TypeOK
<1>2. Known
  BY AnyGroupType DEF Known, NoGroup, NewGroup
<1>3. Numbered
  BY DEF Numbered, NoGroup, NewGroup, NoService, Busy
<1>4. Served
  BY DEF Served, Unserved, NoGroup, NewGroup
<1> QED BY <1>1, <1>2, <1>3, <1>4 DEF IInv

LEMMA NextKeeps == IInv /\ [Next]_vars => IInv'
<1> SUFFICES ASSUME IInv, [Next]_vars PROVE IInv'
  OBVIOUS
<1>1. CASE UNCHANGED vars
  <2>1. TypeOK' /\ Known' /\ Numbered'
    BY <1>1 DEF IInv, vars, TypeOK, Known, Numbered, Busy
  <2>2. Served'
    BY <1>1, SetKept DEF IInv, vars, Served, Unserved, Busy
  <2> QED BY <2>1, <2>2 DEF IInv
<1>2. CASE Environment
  BY <1>2, CreateGroupKeeps, UpdateGroupKeeps, DeleteGroupKeeps, CollectServiceKeeps,
     DeleteDeploymentKeeps DEF Environment
<1>3. CASE Deliver
  BY <1>3, DeliverKeeps
<1>4. ASSUME NEW t \in Threads, ProcessNextComputeGroup(t) PROVE IInv'
  BY <1>4, GetGroupKeeps, PruneStatusKeeps, FindDeploymentKeeps, CreateDeploymentKeeps,
     FindServiceKeeps, CreateServiceKeeps, NotControlledKeeps, SameReplicasKeeps,
     UpdateReplicasKeeps, UpdateStatusKeeps DEF ProcessNextComputeGroup
<1>5. CASE Crash
  BY <1>5, CrashKeeps
<1> QED BY <1>1, <1>2, <1>3, <1>4, <1>5 DEF Next

\* All variables of the group controller keep their types, for all groups, specs,
\* threads and bounds; in particular no thread runs past the last set of a group.
THEOREM TypeCorrect == Spec => []TypeOK
<1>1. IInv => TypeOK
  BY DEF IInv
<1> QED BY <1>1, InitHolds, NextKeeps, PTL DEF Spec

\* A group that is the first of its name is never Ready without a service, with
\* any number of threads, failing calls, restarts, and deletions of anything.
THEOREM ReadyGroupsAreServed == Spec => []ReadyIsServed
<1>1. IInv => ReadyIsServed
  BY DEF IInv, Served, Unserved, ReadyIsServed
<1> QED BY <1>1, InitHolds, NextKeeps, PTL DEF Spec

-------------------------------------------------------------------------------
(* What a group worker does to the group objects: it creates and deletes none,  *)
(* since its snapshots are of groups as they were when they were there.         *)

Existing ==
    /\ \A cg \in queue : cg.exists
    /\ \A t \in Threads : Busy(t) => group[t].exists

LEMMA ExistingInit == Init => Existing
BY DEF Init, Existing, Busy

LEMMA WorkerKeepsGroups ==
    ASSUME IInv, Existing, NEW t \in Threads, ProcessNextComputeGroup(t)
    PROVE  \A g \in Groups :
              groups'[g].exists = groups[g].exists /\ groups'[g].uid = groups[g].uid
<1> USE DEF IInv
<1>1. ASSUME NEW new \in KnownGroup, new.name = group[t].name, new.uid = group[t].uid,
             new.exists = group[t].exists, groups' = Updated(group[t], new), Busy(t)
      PROVE  \A g \in Groups :
                groups'[g].exists = groups[g].exists /\ groups'[g].uid = groups[g].uid
  <2> DEFINE made == [new EXCEPT !.rv = group[t].rv + 1]
  <2>1. made.exists = new.exists /\ made.uid = new.uid
    BY DEF KnownGroup, Group
  <2>2. CASE groups' = groups
    BY <2>2
  <2>3. CASE Current(group[t]) /\ groups' = [groups EXCEPT ![group[t].name] = made]
    <3>1. /\ groups[group[t].name].exists /\ group[t].exists
          /\ groups[group[t].name].uid = group[t].uid
      BY <1>1, <2>3 DEF Current, Existing
    <3>2. groups[group[t].name].exists = TRUE /\ made.exists = TRUE
      BY <1>1, <2>1, <3>1, SetType DEF Known, KnownGroup, Group
    <3> HIDE DEF made
    <3> QED BY <1>1, <2>1, <2>3, <3>1, <3>2 DEF Known
  <2> QED BY <1>1, <2>2, <2>3 DEF Updated
<1>2. CASE PruneStatus(t)
  <2>1. Busy(t) /\ (groups' = groups \/ groups' = Updated(group[t], Pruned(group[t])))
    BY <1>2 DEF PruneStatus, Busy
  <2>2. group[t] \in KnownGroup
    BY <2>1, SetType
  <2> QED BY <1>1, <2>1, <2>2, PrunedType
<1>3. CASE UpdateStatus(t)
  <2>1. Busy(t) /\ (groups' = groups \/ groups' = Updated(group[t], Recorded(group[t], Set(t))))
    BY <1>3 DEF UpdateStatus, Busy
  <2>2. group[t] \in KnownGroup /\ Set(t) \in SetSpec
    BY <2>1, SetType
  <2> QED BY <1>1, <2>1, <2>2, RecordedType
<1>4. CASE ~ PruneStatus(t) /\ ~ UpdateStatus(t)
  <2>1. groups' = groups
    BY <1>4 DEF ProcessNextComputeGroup, GetGroup, FindDeployment, CreateDeployment,
         FindService, CreateService, NotControlled, SameReplicas, UpdateReplicas, api
  <2> QED BY <2>1
<1> QED BY <1>2, <1>3, <1>4

LEMMA ExistingStep == IInv /\ Existing /\ [Next]_vars => Existing'
<1> SUFFICES ASSUME IInv, Existing, [Next]_vars PROVE Existing'
  OBVIOUS
<1> USE DEF IInv
<1>1. CASE \E g \in Groups : CreateGroup(g)
  <2>1. PICK g \in Groups : CreateGroup(g)
    BY <1>1
  <2>2. NewGroup(g, TRUE, groups[g].uid + 1, groups[g].rv + 1).exists
    BY DEF NewGroup
  <2> QED BY <2>1, <2>2 DEF CreateGroup, Existing, Busy, thread
<1>2. CASE \E t \in Threads : \E cg \in queue : GetGroup(t, cg)
  <2>1. PICK t \in Threads, cg \in queue : GetGroup(t, cg)
    BY <1>2
  <2> QED BY <2>1 DEF GetGroup, Existing, Busy, TypeOK
<1>3. ASSUME NEW t \in Threads, Busy(t), ProcessNextComputeGroup(t)
      PROVE  Existing'
  <2>1. UNCHANGED queue
    BY <1>3 DEF ProcessNextComputeGroup, Busy, GetGroup, PruneStatus, FindDeployment,
         CreateDeployment, FindService, CreateService, NotControlled, SameReplicas,
         UpdateReplicas, UpdateStatus
  <2>2. NextSet(t) \/ \E to, d : GoOn(t, to, d)
    BY <1>3 DEF ProcessNextComputeGroup, Busy, GetGroup, PruneStatus, FindDeployment,
         CreateDeployment, FindService, CreateService, NotControlled, SameReplicas,
         UpdateReplicas, UpdateStatus, AfterDeployment
  <2>3. \A u \in Threads : Busy(u)' => Busy(u) /\ group'[u] = group[u]
    <3>1. CASE NextSet(t)
      BY <1>3, <3>1, NextSetMoved DEF Moved
    <3>2. CASE \E to, d : GoOn(t, to, d)
      BY <1>3, <3>2 DEF GoOn, Busy, TypeOK
    <3> QED BY <2>2, <3>1, <3>2
  <2> QED BY <2>1, <2>3 DEF Existing
<1>4. CASE Crash
  BY <1>4 DEF Crash, Restarted, Existing, Busy
<1>5. CASE \/ \E g \in Groups : UpdateGroup(g) \/ DeleteGroup(g) \/ CollectService(g)
           \/ \E n \in Names : DeleteDeployment(n) \/ CollectDeployment(n)
           \/ Deliver \/ UNCHANGED vars
  <2>1. UNCHANGED <<queue, at, group>>
    BY <1>5 DEF UpdateGroup, DeleteGroup, CollectService, DeleteDeployment, CollectDeployment,
         Deliver, DeliverDeployment, DeliverService, vars, thread
  <2> QED BY <2>1 DEF Existing, Busy
<1>6. ASSUME NEW t \in Threads, ~ Busy(t), ProcessNextComputeGroup(t)
      PROVE  \E cg \in queue : GetGroup(t, cg)
  BY <1>6 DEF ProcessNextComputeGroup, Busy, PruneStatus, FindDeployment,
       CreateDeployment, FindService, CreateService, NotControlled, SameReplicas,
       UpdateReplicas, UpdateStatus
<1> QED BY <1>1, <1>2, <1>3, <1>4, <1>5, <1>6 DEF Next, Environment

-------------------------------------------------------------------------------
(* What a group's status says of deployments is right, for every set of groups,  *)
(* sets and threads and every number of faults, restarts and deletions of groups, *)
(* where specs are not edited and nobody else deletes deployments.                *)

\* Specs stay as they are, no name is that of two sets of one group, and
\* deployments are deleted by the garbage collector only.
Undisturbed ==
    /\ MaxDeletions = 0
    /\ \A g \in Groups :
          /\ Len(Specs[g]) = 1
          /\ \A i, j \in DOMAIN Specs[g][1] :
                Specs[g][1][i].name = Specs[g][1][j].name => i = j

-------------------------------------------------------------------------------
(* The inductive invariant.                                                    *)

\* The owners that are, or have been.
KnownOwners == {owner \in Owner : owner.uid <= groups[owner.group].uid}

There(owner) == groups[owner.group].exists /\ groups[owner.group].uid = owner.uid

\* The pairs of a name and an owner such that, as long as the owner is there, the
\* deployment is too, and is its own.
Owned == {p \in Names \X Owner :
    /\ p[2] \in KnownOwners
    /\ There(p[2]) => deployments[p[1]].exists /\ deployments[p[1]].owner = p[2]}

\* The objects and snapshots of groups whose status is right.
Sound == {cg \in KnownGroup :
    /\ cg.exists
    /\ OwnerOf(cg) \in KnownOwners
    /\ \A n \in cg.leaders \cup cg.workers : <<n, OwnerOf(cg)>> \in Owned}

\* A deployment is as the only spec of its group has it under the name n.
AsSpecified(n, d) == \E i \in DOMAIN Specs[d.owner.group][1] :
    LET set == Specs[d.owner.group][1][i] IN set.name = n /\ set.replicas = d.replicas

SoundGroups == \A g \in Groups : groups[g].exists => groups[g] \in Sound
SoundDeployments == \A n \in Names : deployments[n].exists =>
    deployments[n].owner \in KnownOwners /\ AsSpecified(n, deployments[n])
SoundCache == \A n \in Names : deploymentCache[n].exists =>
    <<n, deploymentCache[n].owner>> \in Owned /\ AsSpecified(n, deploymentCache[n])
SoundQueue == queue \subseteq Sound

\* What a thread has found, it goes on with until it is done with the set.
Found(t) == <<Set(t).name, found[t].owner>> \in Owned /\ AsSpecified(Set(t).name, found[t])
SoundThreads == \A t \in Threads : Busy(t) =>
    /\ group[t] \in Sound
    /\ at[t] \in {"service", "replicas", "status"} => Found(t)
    /\ at[t] = "status" => found[t].owner = OwnerOf(group[t])

Owning == SoundGroups /\ SoundDeployments /\ SoundCache /\ SoundQueue /\ SoundThreads
OInv == IInv /\ Owning

-------------------------------------------------------------------------------
(* What is known only grows.                                                   *)

LEMMA OwnerOfType ==
    ASSUME NEW cg \in KnownGroup
    PROVE  OwnerOf(cg) \in Owner /\ OwnerOf(cg).group = cg.name /\ OwnerOf(cg).uid = cg.uid
BY DEF OwnerOf, Owner, KnownGroup, Group

LEMMA OwnedIff ==
    ASSUME NEW n \in Names, NEW owner \in Owner
    PROVE  <<n, owner>> \in Owned <=>
              /\ owner \in KnownOwners
              /\ There(owner) => deployments[n].exists /\ deployments[n].owner = owner
BY DEF Owned

\* The owners known stay known, and none of them comes back.
OwnersKept == \A owner \in KnownOwners :
    owner \in KnownOwners' /\ (There(owner)' => There(owner))

\* The deployments of those that stay, stay.
DeploymentsKept == \A owner \in KnownOwners, n \in Names :
    There(owner)' /\ deployments[n].exists /\ deployments[n].owner = owner =>
        deployments'[n].exists /\ deployments'[n].owner = owner

\* Then whatever was right stays right.
Kept ==
    /\ KnownOwners \subseteq KnownOwners'
    /\ Owned \subseteq Owned'
    /\ Sound \subseteq Sound'

LEMMA KeptFrom ==
    ASSUME OwnersKept, DeploymentsKept
    PROVE  Kept
<1>1. KnownOwners \subseteq KnownOwners'
  BY DEF OwnersKept
<1>2. ASSUME NEW p \in Owned PROVE p \in Owned'
  <2>1. /\ p \in Names \X Owner
        /\ p[1] \in Names
        /\ p[2] \in KnownOwners
        /\ There(p[2]) => deployments[p[1]].exists /\ deployments[p[1]].owner = p[2]
    BY DEF Owned
  <2>2. p[2] \in KnownOwners' /\ (There(p[2])' => There(p[2]))
    BY <2>1 DEF OwnersKept
  <2>3. There(p[2])' => deployments'[p[1]].exists /\ deployments'[p[1]].owner = p[2]
    BY <2>1, <2>2 DEF DeploymentsKept
  <2> QED BY <2>1, <2>2, <2>3 DEF Owned
<1>3. Sound \subseteq Sound'
  BY <1>1, <1>2 DEF Sound, OwnerOf
<1> QED BY <1>1, <1>2, <1>3 DEF Kept

LEMMA OwnersStill ==
    ASSUME UNCHANGED groups
    PROVE  OwnersKept
BY DEF OwnersKept, KnownOwners, There

LEMMA DeploymentsStill ==
    ASSUME UNCHANGED deployments
    PROVE  DeploymentsKept
BY DEF DeploymentsKept

\* What stays untouched stays right.
LEMMA GroupsStillSound ==
    ASSUME SoundGroups, Kept, UNCHANGED groups
    PROVE  SoundGroups'
BY DEF SoundGroups, Kept

LEMMA DeploymentsStillSound ==
    ASSUME SoundDeployments, Kept, UNCHANGED deployments
    PROVE  SoundDeployments'
BY DEF SoundDeployments, Kept, AsSpecified

LEMMA CacheStill ==
    ASSUME SoundCache, Kept, UNCHANGED deploymentCache
    PROVE  SoundCache'
BY DEF SoundCache, Kept, AsSpecified

LEMMA QueueStill ==
    ASSUME SoundQueue, Kept, queue' \subseteq queue
    PROVE  SoundQueue'
BY DEF SoundQueue, Kept

\* A thread that an action leaves alone.
SameThread(u) ==
    at'[u] = at[u] /\ group'[u] = group[u] /\ index'[u] = index[u] /\ found'[u] = found[u]

SoundThread(t) ==
    /\ group[t] \in Sound
    /\ at[t] \in {"service", "replicas", "status"} => Found(t)
    /\ at[t] = "status" => found[t].owner = OwnerOf(group[t])

LEMMA SameThreadSound ==
    ASSUME SoundThreads, Kept, NEW u \in Threads, SameThread(u), Busy(u)'
    PROVE  SoundThread(u)'
<1>1. Busy(u) /\ Set(u)' = Set(u)
  BY DEF SameThread, Busy, Set, Sets
<1>2. SoundThread(u)
  BY <1>1 DEF SoundThreads, SoundThread
<1> QED
  BY <1>1, <1>2 DEF SoundThread, SameThread, Kept, Found, AsSpecified, OwnerOf

LEMMA ThreadsStill ==
    ASSUME SoundThreads, Kept, UNCHANGED thread
    PROVE  SoundThreads'
<1>1. \A u \in Threads : SameThread(u)
  BY DEF thread, SameThread
<1> QED BY <1>1, SameThreadSound DEF SoundThreads, SoundThread

\* A thread that goes on with a deployment must know what it is; going to the
\* status, that it is the group's own.
LEMMA GoOnSound ==
    ASSUME TypeOK, SoundThreads, Kept, NEW t \in Threads, Busy(t),
           NEW to \in {"service", "replicas", "status"}, NEW d, GoOn(t, to, d),
           <<Set(t).name, d.owner>> \in Owned', AsSpecified(Set(t).name, d),
           to = "status" => d.owner = OwnerOf(group[t])
    PROVE  SoundThreads'
<1>1. /\ at'[t] = to /\ found'[t] = d /\ group'[t] = group[t] /\ index'[t] = index[t]
      /\ \A u \in Threads \ {t} : SameThread(u)
  BY DEF GoOn, SameThread, TypeOK
<1>2. Set(t)' = Set(t)
  BY <1>1 DEF Set, Sets
<1>3. group[t] \in Sound'
  BY DEF SoundThreads, Kept
<1>4. SoundThread(t)'
  BY <1>1, <1>2, <1>3 DEF SoundThread, Found, AsSpecified, OwnerOf
<1> QED BY <1>1, <1>4, SameThreadSound DEF SoundThreads, SoundThread

\* The next set begins with nothing found.
LEMMA NextSetSound ==
    ASSUME TypeOK, SoundThreads, Kept, NEW t \in Threads, Busy(t), NextSet(t)
    PROVE  SoundThreads'
<1>1. /\ \A u \in Threads \ {t} : SameThread(u)
      /\ \/ at'[t] = "idle"
         \/ at'[t] = "deployment" /\ group'[t] = group[t]
  BY DEF NextSet, SameThread, TypeOK
<1>2. Busy(t)' => SoundThread(t)'
  BY <1>1 DEF SoundThreads, SoundThread, Kept, Busy
<1> QED BY <1>1, <1>2, SameThreadSound DEF SoundThreads, SoundThread

LEMMA OwningInit == Init => Owning
<1> SUFFICES ASSUME Init PROVE Owning
  OBVIOUS
<1>1. \A g \in Groups : ~ groups[g].exists
  BY DEF Init, NoGroup, NewGroup
<1>2. \A n \in Names : ~ deployments[n].exists /\ ~ deploymentCache[n].exists
  BY DEF Init, NoDeployment
<1>3. queue = {} /\ \A t \in Threads : ~ Busy(t)
  BY DEF Init, Busy
<1> QED
  BY <1>1, <1>2, <1>3
  DEF Owning, SoundGroups, SoundDeployments, SoundCache, SoundQueue, SoundThreads
-------------------------------------------------------------------------------
(* Users and the garbage collector.                                            *)

\* A group created under an old name has a UID that no one has known.
LEMMA CreateGroupOwns ==
    ASSUME OInv, NEW g \in Groups, CreateGroup(g), IInv'
    PROVE  Owning'
<1> USE DEF OInv, Owning
<1> DEFINE cg == NewGroup(g, TRUE, groups[g].uid + 1, groups[g].rv + 1)
<1>1. /\ groups' = [groups EXCEPT ![g] = cg]
      /\ queue' = queue \cup {cg}
      /\ UNCHANGED <<deployments, deploymentCache, thread>>
  BY DEF CreateGroup, caches
<1>2. groups'[g] = cg /\ \A h \in Groups \ {g} : groups'[h] = groups[h]
  BY <1>1 DEF IInv, TypeOK
<1>3. /\ groups[g].uid \in Nat /\ cg.uid = groups[g].uid + 1
      /\ cg.name = g /\ cg.exists /\ cg.leaders \cup cg.workers = {}
  BY DEF IInv, TypeOK, Group, NewGroup
<1> HIDE DEF cg
<1>4. cg \in KnownGroup
  BY <1>2 DEF IInv, Known
<1>5. OwnersKept
  <2> SUFFICES ASSUME NEW owner \in KnownOwners
               PROVE  owner \in KnownOwners' /\ (There(owner)' => There(owner))
    BY DEF OwnersKept
  <2>1. /\ owner \in Owner /\ owner.group \in Groups /\ owner.uid \in Nat
        /\ owner.uid <= groups[owner.group].uid
    BY DEF KnownOwners, Owner
  <2>2. CASE owner.group = g
    <3>1. owner.uid <= groups'[owner.group].uid /\ groups'[owner.group].uid # owner.uid
      BY <1>2, <1>3, <2>1, <2>2
    <3> QED BY <2>1, <3>1 DEF KnownOwners, There
  <2>3. CASE owner.group # g
    BY <1>2, <2>1, <2>3 DEF KnownOwners, There
  <2> QED BY <2>2, <2>3
<1>6. Kept
  BY <1>1, <1>5, DeploymentsStill, KeptFrom
<1>7. cg \in Sound'
  <2>1. /\ OwnerOf(cg) \in Owner /\ OwnerOf(cg).group = g
        /\ OwnerOf(cg).uid = cg.uid /\ cg.uid \in Nat
    BY <1>3, <1>4, OwnerOfType
  <2>2. OwnerOf(cg).uid <= groups'[OwnerOf(cg).group].uid
    BY <1>2, <2>1
  <2>3. OwnerOf(cg) \in KnownOwners'
    BY <2>1, <2>2 DEF KnownOwners
  <2> QED BY <1>3, <1>4, <2>3 DEF Sound, OwnerOf
<1>8. SoundGroups'
  BY <1>2, <1>6, <1>7 DEF SoundGroups, Kept
<1>9. SoundQueue'
  BY <1>1, <1>6, <1>7 DEF SoundQueue, Kept
<1> QED BY <1>1, <1>6, <1>8, <1>9, CacheStill, DeploymentsStillSound, ThreadsStill

LEMMA DeleteGroupOwns ==
    ASSUME OInv, NEW g \in Groups, DeleteGroup(g), IInv'
    PROVE  Owning'
<1> USE DEF OInv, Owning
<1>1. /\ groups' = [groups EXCEPT ![g].exists = FALSE]
      /\ UNCHANGED <<deployments, deploymentCache, queue, thread>>
  BY DEF DeleteGroup, caches
<1>2. /\ \A h \in Groups \ {g} : groups'[h] = groups[h]
      /\ ~ groups'[g].exists /\ groups'[g].uid = groups[g].uid
  BY <1>1 DEF IInv, TypeOK, Group
<1>3. OwnersKept
  BY <1>2 DEF OwnersKept, KnownOwners, Owner, There
<1>4. Kept
  BY <1>1, <1>3, DeploymentsStill, KeptFrom
<1>5. SoundGroups'
  BY <1>2, <1>4 DEF SoundGroups, Kept
<1> QED BY <1>1, <1>4, <1>5, CacheStill, QueueStill, DeploymentsStillSound, ThreadsStill

\* The garbage collector takes only deployments whose owner is not there.
LEMMA CollectDeploymentOwns ==
    ASSUME OInv, NEW n \in Names, CollectDeployment(n)
    PROVE  Owning'
<1> USE DEF OInv, Owning
<1>1. /\ ~ There(deployments[n].owner)
      /\ deployments' = [deployments EXCEPT ![n] = NoDeployment]
      /\ UNCHANGED <<groups, deploymentCache, queue, thread>>
  BY DEF CollectDeployment, Orphaned, There, caches
<1>2. /\ \A m \in Names \ {n} : deployments'[m] = deployments[m]
      /\ ~ deployments'[n].exists
  BY <1>1 DEF IInv, TypeOK, NoDeployment
<1>3. DeploymentsKept
  BY <1>1, <1>2 DEF DeploymentsKept, There
<1>4. Kept
  BY <1>1, <1>3, OwnersStill, KeptFrom
<1>5. SoundDeployments'
  <2>1. ASSUME NEW m \in Names, deployments'[m].exists
        PROVE  /\ deployments'[m] = deployments[m]
               /\ deployments[m].owner \in KnownOwners'
               /\ AsSpecified(m, deployments[m])
    BY <1>2, <1>4, <2>1 DEF SoundDeployments, Kept
  <2> QED BY <2>1 DEF SoundDeployments
<1> QED BY <1>1, <1>4, <1>5, CacheStill, QueueStill, GroupsStillSound, ThreadsStill

\* What there is, is its owner's.
LEMMA ThereIsOwned ==
    ASSUME SoundDeployments, NEW n \in Names, deployments[n].exists
    PROVE  <<n, deployments[n].owner>> \in Owned
BY OwnedIff DEF SoundDeployments, KnownOwners

LEMMA DeliverDeploymentOwns ==
    ASSUME OInv, NEW n \in Names, DeliverDeployment(n)
    PROVE  Owning'
<1> USE DEF OInv, Owning
<1>1. /\ deploymentCache' = [deploymentCache EXCEPT ![n] = deployments[n]]
      /\ UNCHANGED <<groups, deployments, queue, thread>>
  BY DEF DeliverDeployment, api
<1>2. Kept
  BY <1>1, OwnersStill, DeploymentsStill, KeptFrom
<1>3. /\ deploymentCache'[n] = deployments[n]
      /\ \A m \in Names \ {n} : deploymentCache'[m] = deploymentCache[m]
  BY <1>1 DEF IInv, TypeOK
<1>4. ASSUME NEW m \in Names, deploymentCache'[m].exists
      PROVE  /\ <<m, deploymentCache'[m].owner>> \in Owned'
             /\ AsSpecified(m, deploymentCache'[m])
  <2>1. CASE m = n
    BY <1>2, <1>3, <1>4, <2>1, ThereIsOwned DEF SoundDeployments, Kept
  <2>2. CASE m # n
    BY <1>2, <1>3, <1>4, <2>2 DEF SoundCache, Kept
  <2> QED BY <2>1, <2>2
<1>5. SoundCache'
  BY <1>4 DEF SoundCache, AsSpecified
<1> QED
  BY <1>1, <1>2, <1>5, QueueStill, GroupsStillSound, DeploymentsStillSound, ThreadsStill

\* Steps that change nothing the status depends on.
LEMMA StillOwns ==
    ASSUME OInv, UNCHANGED <<groups, deployments, deploymentCache, queue, thread>>
    PROVE  Owning'
<1>1. Kept
  BY OwnersStill, DeploymentsStill, KeptFrom
<1> QED
  BY <1>1, CacheStill, QueueStill, GroupsStillSound, DeploymentsStillSound, ThreadsStill
  DEF OInv, Owning
-------------------------------------------------------------------------------
(* A worker.                                                                   *)

\* The set a busy thread has come to is that of the only spec of its group, and
\* no other set of it has its name.
LEMMA OnlySet ==
    ASSUME Undisturbed, OInv, NEW t \in Threads, Busy(t)
    PROVE  /\ group[t] \in Sound /\ group[t] \in KnownGroup /\ group[t].name \in Groups
           /\ Set(t) \in SetSpec /\ Set(t).name \in Names
           /\ index[t] \in DOMAIN Specs[group[t].name][1]
           /\ Set(t) = Specs[group[t].name][1][index[t]]
<1>1. /\ group[t] \in KnownGroup /\ group[t] \in Group
      /\ group[t].name \in Groups /\ Set(t) \in SetSpec
  BY SetType DEF OInv, IInv
<1>2. group[t].spec = 1
  <2>1. /\ Specs[group[t].name] \in Seq(Seq(SetSpec))
        /\ Len(Specs[group[t].name]) = 1
        /\ group[t].spec \in DOMAIN Specs[group[t].name]
    BY <1>1, GroupSyncAssumption DEF Undisturbed, KnownGroup
  <2> QED BY <2>1
<1>3. index[t] \in DOMAIN Sets(group[t])
  BY DEF OInv, IInv, TypeOK, Busy
<1>4. group[t] \in Sound
  BY DEF OInv, Owning, SoundThreads
<1> QED BY <1>1, <1>2, <1>3, <1>4 DEF Set, Sets, SetSpec

\* A worker finds its deployment in the cache, which may lag, but does not err on
\* what is the group's while the group is there.
LEMMA AfterDeploymentOwns ==
    ASSUME TypeOK, SoundThreads, Kept, NEW t \in Threads, Busy(t), NEW d,
           AfterDeployment(t, d),
           <<Set(t).name, d.owner>> \in Owned', AsSpecified(Set(t).name, d)
    PROVE  SoundThreads'
BY GoOnSound DEF AfterDeployment

LEMMA FindDeploymentOwns ==
    ASSUME Undisturbed, OInv, NEW t \in Threads, FindDeployment(t)
    PROVE  Owning'
<1> USE DEF OInv, Owning
<1>1. /\ Busy(t)
      /\ deploymentCache[Set(t).name].exists
      /\ AfterDeployment(t, deploymentCache[Set(t).name])
      /\ UNCHANGED <<groups, deployments, deploymentCache, queue>>
  BY DEF FindDeployment, Busy, api, caches
<1>2. Kept
  BY <1>1, OwnersStill, DeploymentsStill, KeptFrom
<1>3. Set(t).name \in Names
  BY <1>1, OnlySet
<1>4. SoundThreads'
  BY <1>1, <1>2, <1>3, AfterDeploymentOwns DEF SoundCache, Kept, IInv
<1> QED
  BY <1>1, <1>2, <1>4, CacheStill, QueueStill, GroupsStillSound, DeploymentsStillSound

\* What a worker makes is its group's, and as the group's spec has it.
LEMMA MadeFits ==
    ASSUME Undisturbed, OInv, NEW t \in Threads, Busy(t)
    PROVE  LET made == MakeDeployment(group[t], Set(t)) IN
              /\ made.exists
              /\ made.owner = OwnerOf(group[t])
              /\ made.owner \in KnownOwners
              /\ AsSpecified(Set(t).name, made)
BY OnlySet DEF MakeDeployment, AsSpecified, Sound, OwnerOf

\* A deployment is created only where there is none.
LEMMA MakingOwns ==
    ASSUME Undisturbed, OInv, NEW t \in Threads, Busy(t),
           UNCHANGED groups, ~ deployments[Set(t).name].exists,
           deployments' = [deployments EXCEPT ![Set(t).name] =
                              MakeDeployment(group[t], Set(t))]
    PROVE  /\ Kept
           /\ SoundDeployments'
           /\ <<Set(t).name, OwnerOf(group[t])>> \in Owned'
<1> DEFINE n == Set(t).name
           made == MakeDeployment(group[t], Set(t))
<1>1. n \in Names /\ OwnerOf(group[t]) \in Owner
  BY OnlySet, OwnerOfType
<1>2. /\ made.exists /\ made.owner = OwnerOf(group[t])
      /\ made.owner \in KnownOwners /\ AsSpecified(n, made)
  BY MadeFits
<1>3. deployments'[n] = made /\ \A m \in Names \ {n} : deployments'[m] = deployments[m]
  BY <1>1 DEF OInv, IInv, TypeOK
<1> HIDE DEF made, n
<1>4. ~ deployments[n].exists
  BY DEF n
<1>5. DeploymentsKept
  BY <1>3, <1>4 DEF DeploymentsKept
<1>6. Kept
  BY <1>5, OwnersStill, KeptFrom
<1>7. SoundDeployments'
  <2> SUFFICES ASSUME NEW m \in Names, deployments'[m].exists
               PROVE  /\ deployments'[m].owner \in KnownOwners'
                      /\ AsSpecified(m, deployments'[m])
    BY DEF SoundDeployments, AsSpecified
  <2>1. CASE m = n
    BY <1>2, <1>3, <1>6, <2>1 DEF Kept
  <2>2. CASE m # n
    BY <1>3, <1>6, <2>2 DEF OInv, Owning, SoundDeployments, Kept
  <2> QED BY <2>1, <2>2
<1>8. OwnerOf(group[t]) \in KnownOwners'
  BY <1>2, <1>6 DEF Kept
<1>9. <<n, OwnerOf(group[t])>> \in Owned'
  BY <1>1, <1>2, <1>3, <1>8 DEF Owned
<1> QED BY <1>6, <1>7, <1>9 DEF n

LEMMA CreateDeploymentOwns ==
    ASSUME Undisturbed, OInv, NEW t \in Threads, CreateDeployment(t)
    PROVE  Owning'
<1> USE DEF OInv, Owning
<1> DEFINE made == MakeDeployment(group[t], Set(t))
           done == [deployments EXCEPT ![Set(t).name] = made]
<1>1. /\ Busy(t)
      /\ UNCHANGED <<groups, deploymentCache, queue>>
  BY DEF CreateDeployment, Busy, caches
<1>2. \/ /\ ~ deployments[Set(t).name].exists /\ deployments' = done
         /\ AfterDeployment(t, made)
      \/ /\ deployments' = deployments \/ (~ deployments[Set(t).name].exists /\ deployments' = done)
         /\ NextSet(t)
  BY DEF CreateDeployment
<1>3. /\ made.owner = OwnerOf(group[t])
      /\ AsSpecified(Set(t).name, made)
  BY <1>1, MadeFits
<1>4. CASE ~ deployments[Set(t).name].exists /\ deployments' = done
  <2>1. Kept /\ SoundDeployments' /\ <<Set(t).name, OwnerOf(group[t])>> \in Owned'
    BY <1>1, <1>4, MakingOwns
  <2> HIDE DEF made
  <2>2. SoundThreads'
    BY <1>1, <1>2, <1>3, <2>1, AfterDeploymentOwns, NextSetSound DEF IInv
  <2> QED BY <1>1, <2>1, <2>2, CacheStill, QueueStill, GroupsStillSound
<1>5. CASE deployments' = deployments /\ NextSet(t)
  <2>1. Kept
    BY <1>1, <1>5, OwnersStill, DeploymentsStill, KeptFrom
  <2>2. SoundThreads'
    BY <1>1, <1>5, <2>1, NextSetSound DEF IInv
  <2> QED
    BY <1>1, <1>5, <2>1, <2>2, CacheStill, QueueStill, GroupsStillSound, DeploymentsStillSound
<1> QED BY <1>2, <1>4, <1>5

\* The service is looked at between deployment and status, and changes nothing.
LEMMA ServiceOwns ==
    ASSUME Undisturbed, OInv, NEW t \in Threads, FindService(t) \/ CreateService(t)
    PROVE  Owning'
<1> USE DEF OInv, Owning
<1>1. /\ Busy(t) /\ at[t] = "service"
      /\ GoOn(t, "replicas", found[t]) \/ NextSet(t)
      /\ UNCHANGED <<groups, deployments, deploymentCache, queue>>
  BY DEF FindService, CreateService, Busy, api, caches
<1>2. Kept
  BY <1>1, OwnersStill, DeploymentsStill, KeptFrom
<1>3. <<Set(t).name, found[t].owner>> \in Owned' /\ AsSpecified(Set(t).name, found[t])
  BY <1>1, <1>2 DEF SoundThreads, Found, Kept
<1>4. SoundThreads'
  BY <1>1, <1>2, <1>3, GoOnSound, NextSetSound DEF IInv
<1> QED
  BY <1>1, <1>2, <1>4, CacheStill, QueueStill, GroupsStillSound, DeploymentsStillSound

\* The deployment found is the group's, or the set is left.  Its replicas are those
\* of the set: there is nothing to update.
LEMMA ReplicasOwns ==
    ASSUME Undisturbed, OInv, NEW t \in Threads,
           NotControlled(t) \/ SameReplicas(t) \/ UpdateReplicas(t)
    PROVE  Owning'
<1> USE DEF OInv, Owning
<1>1. Busy(t) /\ at[t] = "replicas"
  BY DEF NotControlled, SameReplicas, UpdateReplicas, Busy
<1>2. <<Set(t).name, found[t].owner>> \in Owned /\ AsSpecified(Set(t).name, found[t])
  BY <1>1 DEF SoundThreads, Found
<1>3. ~ UpdateReplicas(t)
  <2>1. SUFFICES ASSUME found[t].owner = OwnerOf(group[t])
                 PROVE  found[t].replicas = Set(t).replicas
    BY DEF UpdateReplicas, IsControlledBy
  <2>2. found[t].owner.group = group[t].name
    BY <2>1 DEF OwnerOf
  <2>3. PICK i \in DOMAIN Specs[group[t].name][1] :
           /\ Specs[group[t].name][1][i].name = Set(t).name
           /\ Specs[group[t].name][1][i].replicas = found[t].replicas
    BY <1>2, <2>2 DEF AsSpecified
  <2>4. /\ group[t].name \in Groups
        /\ index[t] \in DOMAIN Specs[group[t].name][1]
        /\ Set(t) = Specs[group[t].name][1][index[t]]
    BY <1>1, OnlySet
  <2>5. i = index[t]
    BY <2>3, <2>4 DEF Undisturbed
  <2> QED BY <2>3, <2>4, <2>5
<1>4. /\ \/ NextSet(t)
         \/ GoOn(t, "status", found[t]) /\ found[t].owner = OwnerOf(group[t])
      /\ UNCHANGED <<groups, deployments, deploymentCache, queue>>
  BY <1>3 DEF NotControlled, SameReplicas, IsControlledBy, api, caches
<1>5. Kept
  BY <1>4, OwnersStill, DeploymentsStill, KeptFrom
<1>6. SoundThreads'
  BY <1>1, <1>2, <1>4, <1>5, GoOnSound, NextSetSound DEF IInv, Kept
<1> QED
  BY <1>4, <1>5, <1>6, CacheStill, QueueStill, GroupsStillSound, DeploymentsStillSound
\* An update of a group's status, or none at all, keeps every status right if the
\* new one is.
LEMMA UpdatedOwns ==
    ASSUME OInv, IInv', NEW cg \in Sound, NEW new \in KnownGroup,
           new.name = cg.name, new.uid = cg.uid, new.exists,
           \A n \in new.leaders \cup new.workers : <<n, OwnerOf(cg)>> \in Owned,
           groups' = groups \/ groups' = Updated(cg, new),
           UNCHANGED deployments
    PROVE  Kept /\ SoundGroups'
<1> USE DEF OInv, Owning
<1>1. CASE groups' = groups
  BY <1>1, OwnersStill, DeploymentsStill, KeptFrom, GroupsStillSound
<1>2. CASE Current(cg) /\ groups' = [groups EXCEPT ![cg.name] = [new EXCEPT !.rv = cg.rv + 1]]
  <2> DEFINE made == [new EXCEPT !.rv = cg.rv + 1]
  <2>1. /\ cg \in KnownGroup /\ cg.name \in Groups
        /\ OwnerOf(cg) \in KnownOwners
    BY DEF Sound, KnownGroup, Group
  <2>2. groups[cg.name].exists /\ groups[cg.name].uid = cg.uid
    BY <1>2 DEF Current
  <2>3. /\ made.name = cg.name /\ made.uid = cg.uid /\ made.exists
        /\ made.leaders = new.leaders /\ made.workers = new.workers
    BY DEF KnownGroup, Group
  <2> HIDE DEF made
  <2>4. groups'[cg.name] = made /\ \A h \in Groups \ {cg.name} : groups'[h] = groups[h]
    BY <1>2, <2>1 DEF IInv, TypeOK, made
  <2>5. OwnersKept
    BY <2>1, <2>2, <2>3, <2>4 DEF OwnersKept, KnownOwners, Owner, There
  <2>6. Kept
    BY <2>5, DeploymentsStill, KeptFrom
  <2>7. made \in KnownGroup /\ OwnerOf(made) = OwnerOf(cg)
    BY <2>1, <2>3, <2>4 DEF IInv, Known, OwnerOf
  <2>8. made \in Sound'
    BY <2>1, <2>3, <2>6, <2>7 DEF Sound, Kept, OwnerOf
  <2>9. SoundGroups'
    BY <2>4, <2>6, <2>8 DEF SoundGroups, Kept
  <2> QED BY <2>6, <2>9
<1> QED BY <1>1, <1>2 DEF Updated

\* Pruning a status takes names out of it.
LEMMA PruneStatusOwns ==
    ASSUME Undisturbed, OInv, NEW t \in Threads, PruneStatus(t), IInv'
    PROVE  Owning'
<1> USE DEF OInv, Owning
<1> DEFINE new == Pruned(group[t])
<1>1. /\ Busy(t)
      /\ groups' = groups \/ groups' = Updated(group[t], new)
      /\ GoOn(t, "deployment", NoDeployment)
      /\ UNCHANGED <<deployments, deploymentCache, queue>>
  BY DEF PruneStatus, Busy, caches
<1>2. group[t] \in Sound /\ group[t] \in KnownGroup
  BY <1>1, OnlySet
<1>3. /\ new \in KnownGroup
      /\ new.name = group[t].name /\ new.uid = group[t].uid /\ new.exists
  BY <1>2, PrunedType DEF Sound
<1>4. new.leaders \cup new.workers \subseteq group[t].leaders \cup group[t].workers
  BY <1>2 DEF Pruned, KnownGroup, Group
<1> HIDE DEF new
<1>5. \A n \in new.leaders \cup new.workers : <<n, OwnerOf(group[t])>> \in Owned
  BY <1>2, <1>4 DEF Sound
<1>6. Kept /\ SoundGroups'
  BY <1>1, <1>2, <1>3, <1>5, UpdatedOwns
<1>7. SoundThreads'
  <2>1. /\ at'[t] = "deployment" /\ group'[t] = group[t]
        /\ \A u \in Threads \ {t} : SameThread(u)
    BY <1>1 DEF GoOn, SameThread, IInv, TypeOK
  <2>2. SoundThread(t)'
    BY <1>2, <1>6, <2>1 DEF SoundThread, Kept
  <2> QED BY <1>6, <2>1, <2>2, SameThreadSound DEF SoundThreads, SoundThread
<1> QED BY <1>1, <1>6, <1>7, CacheStill, QueueStill, DeploymentsStillSound

\* The name that goes into the status is that of the deployment found.
LEMMA UpdateStatusOwns ==
    ASSUME Undisturbed, OInv, NEW t \in Threads, UpdateStatus(t), IInv'
    PROVE  Owning'
<1> USE DEF OInv, Owning
<1> DEFINE new == Recorded(group[t], Set(t))
<1>1. /\ Busy(t) /\ at[t] = "status"
      /\ groups' = groups \/ groups' = Updated(group[t], new)
      /\ NextSet(t)
      /\ UNCHANGED <<deployments, deploymentCache, queue>>
  BY DEF UpdateStatus, Busy, caches
<1>2. group[t] \in Sound /\ group[t] \in KnownGroup /\ Set(t) \in SetSpec
  BY <1>1, OnlySet
<1>3. /\ new \in KnownGroup
      /\ new.name = group[t].name /\ new.uid = group[t].uid /\ new.exists
  BY <1>2, RecordedType DEF Sound
<1>4. new.leaders \cup new.workers \subseteq
         group[t].leaders \cup group[t].workers \cup {Set(t).name}
  BY <1>2 DEF Recorded, KnownGroup, Group
<1> HIDE DEF new
<1>5. <<Set(t).name, OwnerOf(group[t])>> \in Owned
  BY <1>1 DEF SoundThreads, Found
<1>6. \A n \in new.leaders \cup new.workers : <<n, OwnerOf(group[t])>> \in Owned
  BY <1>2, <1>4, <1>5 DEF Sound
<1>7. Kept /\ SoundGroups'
  BY <1>1, <1>2, <1>3, <1>6, UpdatedOwns
<1>8. SoundThreads'
  BY <1>1, <1>7, NextSetSound DEF IInv
<1> QED BY <1>1, <1>7, <1>8, CacheStill, QueueStill, DeploymentsStillSound

LEMMA GetGroupOwns ==
    ASSUME OInv, NEW t \in Threads, NEW cg \in queue, GetGroup(t, cg)
    PROVE  Owning'
<1> USE DEF OInv, Owning
<1>1. /\ queue' \subseteq queue
      /\ UNCHANGED <<groups, deployments, deploymentCache>>
  BY DEF GetGroup, api, caches
<1>2. Kept
  BY <1>1, OwnersStill, DeploymentsStill, KeptFrom
<1>3. /\ at'[t] \in {"deployment", "prune"} /\ group'[t] = cg
      /\ \A u \in Threads \ {t} : SameThread(u)
  BY DEF GetGroup, SameThread, IInv, TypeOK
<1>4. SoundThread(t)'
  BY <1>2, <1>3 DEF SoundThread, SoundQueue, Kept
<1>5. SoundThreads'
  BY <1>2, <1>3, <1>4, SameThreadSound DEF SoundThreads, SoundThread
<1> QED
  BY <1>1, <1>2, <1>5, CacheStill, QueueStill, GroupsStillSound, DeploymentsStillSound

\* The informers list what there is.
LEMMA CrashOwns ==
    ASSUME OInv, Crash
    PROVE  Owning'
<1> USE DEF OInv, Owning
<1>1. /\ UNCHANGED <<groups, deployments>>
      /\ deploymentCache' = deployments
      /\ queue' = {groups[g] : g \in {h \in Groups : groups[h].exists}}
      /\ \A t \in Threads : ~ Busy(t)'
  BY DEF Crash, Restarted, Busy, api
<1>2. Kept
  BY <1>1, OwnersStill, DeploymentsStill, KeptFrom
<1>3. SoundCache'
  <2>1. \A n \in Names : deployments[n].exists =>
          <<n, deployments[n].owner>> \in Owned' /\ AsSpecified(n, deployments[n])
    BY <1>2, ThereIsOwned DEF SoundDeployments, Kept
  <2> QED BY <1>1, <2>1 DEF SoundCache
<1>4. SoundQueue'
  BY <1>1, <1>2 DEF SoundQueue, SoundGroups, Kept
<1>5. SoundThreads'
  BY <1>1 DEF SoundThreads
<1> QED BY <1>1, <1>2, <1>3, <1>4, <1>5, GroupsStillSound, DeploymentsStillSound

-------------------------------------------------------------------------------
(* The theorem.                                                                *)

LEMMA OwningStep ==
    ASSUME Undisturbed, OInv, [Next]_vars
    PROVE  OInv'
<1>1. IInv'
  BY NextKeeps DEF OInv
<1>2. CASE Environment
  <2>1. ASSUME NEW g \in Groups, UpdateGroup(g) PROVE FALSE
    <3>1. groups[g] \in KnownGroup /\ groups[g].name = g /\ Len(Specs[g]) = 1
      BY DEF Undisturbed, OInv, IInv, Known
    <3>2. Specs[g] \in Seq(Seq(SetSpec))
      BY GroupSyncAssumption
    <3> QED BY <2>1, <3>1, <3>2 DEF UpdateGroup, KnownGroup
  <2>2. ASSUME NEW n \in Names, DeleteDeployment(n) PROVE FALSE
    BY <2>2 DEF DeleteDeployment, Undisturbed, OInv, IInv, TypeOK
  <2>3. ASSUME NEW g \in Groups, CollectService(g) PROVE Owning'
    BY <2>3, StillOwns DEF CollectService, caches
  <2> QED
    BY <1>1, <1>2, <2>1, <2>2, <2>3, CreateGroupOwns, DeleteGroupOwns,
       CollectDeploymentOwns DEF Environment, OInv
<1>3. CASE Deliver
  <2>1. ASSUME NEW g \in Groups, DeliverService(g) PROVE Owning'
    BY <2>1, StillOwns DEF DeliverService, api
  <2> QED BY <1>1, <1>3, <2>1, DeliverDeploymentOwns DEF Deliver, OInv
<1>4. ASSUME NEW t \in Threads, ProcessNextComputeGroup(t) PROVE OInv'
  BY <1>1, <1>4, GetGroupOwns, PruneStatusOwns, FindDeploymentOwns, CreateDeploymentOwns,
     ServiceOwns, ReplicasOwns, UpdateStatusOwns DEF ProcessNextComputeGroup, OInv
<1>5. CASE Crash
  BY <1>1, <1>5, CrashOwns DEF OInv
<1>6. CASE UNCHANGED vars
  <2>1. UNCHANGED <<groups, deployments, deploymentCache, queue, thread>>
    BY <1>6 DEF vars, thread
  <2> QED BY <1>1, <2>1, StillOwns DEF OInv
<1> QED BY <1>2, <1>3, <1>4, <1>5, <1>6 DEF Next

LEMMA OwningIsOwn == OInv => ReadyIsOwn
<1> SUFFICES ASSUME OInv, NEW g \in Groups, groups[g].exists,
                    NEW n \in groups[g].leaders \cup groups[g].workers
             PROVE  deployments[n].exists /\ deployments[n].owner = OwnerOf(groups[g])
  BY DEF ReadyIsOwn
<1>1. groups[g] \in Sound /\ groups[g] \in KnownGroup /\ groups[g].name = g
  BY DEF OInv, IInv, Owning, SoundGroups, Known
<1>2. n \in Names /\ OwnerOf(groups[g]) \in Owner
  BY <1>1, OwnerOfType DEF KnownGroup, Group
<1>3. <<n, OwnerOf(groups[g])>> \in Owned
  BY <1>1 DEF Sound
<1>4. There(OwnerOf(groups[g]))
  BY <1>1 DEF There, OwnerOf
<1> QED BY <1>2, <1>3, <1>4, OwnedIff

\* Where specs are not edited, names are unique within a group, and no one but the
\* garbage collector deletes deployments, a name in the status of a group is that
\* of a deployment this very group controls: with any number of threads on any
\* number of groups that share names, of restarts, failed calls and groups deleted
\* and created again, however old caches and snapshots are (syncComputeGroup and
\* updateComputeGroupStatus).
THEOREM OnlyOwnReady ==
    ASSUME Undisturbed
    PROVE  Spec => []ReadyIsOwn
<1>1. Init => OInv
  BY InitHolds, OwningInit DEF OInv
<1>2. OInv /\ [Next]_vars => OInv'
  BY OwningStep
<1> QED BY <1>1, <1>2, OwningIsOwn, PTL DEF Spec
===============================================================================

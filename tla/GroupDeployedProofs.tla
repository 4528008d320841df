-------------------------- MODULE GroupDeployedProofs --------------------------
(* At rest every group is deployed, for every set of groups, specs and threads    *)
(* and every number of faults, edits, deletions and restarts.                     *)
EXTENDS GroupSyncProofs

\* A name is that of one set of one group, whatever the version of the spec.
DistinctNames ==
    \A g, h \in Groups : \A v \in DOMAIN Specs[g], w \in DOMAIN Specs[h] :
        \A i \in DOMAIN Specs[g][v], j \in DOMAIN Specs[h][w] :
            Specs[g][v][i].name = Specs[h][w][j].name => g = h /\ (v = w => i = j)

--------------------------------------------------------------------------------
(* The inductive invariant.                                                      *)

\* At all times: a deployment has a name that a spec of its owner's gives it.
IsNameOf(g, n) ==
    \E v \in DOMAIN Specs[g] : \E i \in DOMAIN Specs[g][v] : Specs[g][v][i].name = n
Named == \A n \in Names : deployments[n].exists => IsNameOf(deployments[n].owner.group, n)

\* The rest is of the time in which nothing has been missed.  A snapshot is then
\* of the group that is there, with its spec.
Fresh == {cg \in KnownGroup :
    /\ cg.exists
    /\ groups[cg.name].exists
    /\ groups[cg.name].uid = cg.uid
    /\ groups[cg.name].spec = cg.spec}
FreshSnapshots ==
    /\ queue \subseteq Fresh
    /\ \A t \in Threads : Busy(t) => group[t] \in Fresh

\* Nothing waits for the garbage collector, and the caches hold nothing that is
\* gone, or whose owner is another.
OwnersThere ==
    /\ \A n \in Names : deployments[n].exists =>
          ~ Orphaned(deployments[n].owner.group, deployments[n].owner.uid)
    /\ \A g \in Groups : services[g].exists => ~ Orphaned(g, services[g].uid)
CachesThere ==
    /\ \A n \in Names : deploymentCache[n].exists =>
          deployments[n].exists /\ deployments[n].owner = deploymentCache[n].owner
    /\ \A g \in Groups : serviceCache[g].exists => services[g].exists

\* The sets that there should be.
Wanted == {s \in Groups \X Nat : groups[s[1]].exists /\ s[2] \in DOMAIN Sets(groups[s[1]])}
SetOf(s) == Sets(groups[s[1]])[s[2]]
IsThere(s) == deployments[SetOf(s).name].exists
IsScaled(s) == deployments[SetOf(s).name].replicas = SetOf(s).replicas

\* Where the cache lags behind, the deployment is as it should be.
LagIsRight == \A s \in Wanted : IsThere(s) =>
    IsScaled(s) \/ deploymentCache[SetOf(s).name] = deployments[SetOf(s).name]

\* What a thread has found is there, and its group's; if the replicas it has seen
\* are right, they are.
FoundRight(t) ==
    /\ found[t].owner = OwnerOf(group[t])
    /\ deployments[Set(t).name].exists
    /\ found[t].replicas = Set(t).replicas => deployments[Set(t).name].replicas = Set(t).replicas
    /\ at[t] = "service" => Set(t).leader
AllFoundRight ==
    \A t \in Threads : at[t] \in {"service", "replicas", "status"} => FoundRight(t)

\* A set is announced by an object of its group that waits, or by a thread that
\* has it ahead, or is at one of the given places with it.
Announced(s, places) ==
    \/ \E cg \in queue : cg.name = s[1]
    \/ \E t \in Threads :
          /\ Busy(t)
          /\ group[t].name = s[1]
          /\ index[t] < s[2] \/ (index[t] = s[2] /\ at[t] \in places)

\* Of each group there is at most one such object or thread, and a deployment the
\* cache does not know yet is of a set that it has behind it.
Alone ==
    /\ \A c, d \in queue : c.name = d.name => c = d
    /\ \A t \in Threads : Busy(t) => \A cg \in queue : cg.name # group[t].name
    /\ \A t, u \in Threads : Busy(t) /\ Busy(u) /\ group[t].name = group[u].name => t = u
UncachedIsPassed == \A s \in Wanted :
    IsThere(s) /\ ~ deploymentCache[SetOf(s).name].exists => ~ Announced(s, {"prune", "deployment"})

\* What is not as it should be is announced.
DeploymentsComing == \A s \in Wanted :
    IsThere(s) \/ Announced(s, {"prune", "deployment"})
ServicesComing == \A s \in Wanted :
    s[2] # 1 \/ services[s[1]].exists \/ Announced(s, {"prune", "deployment", "service"})
ReplicasComing == \A s \in Wanted :
    SetOf(s).leader \/ IsScaled(s) \/ Announced(s, {"prune", "deployment", "replicas"})

Right == /\ FreshSnapshots /\ OwnersThere /\ CachesThere /\ LagIsRight
         /\ AllFoundRight /\ Alone /\ UncachedIsPassed
Coming == DeploymentsComing /\ ServicesComing /\ ReplicasComing
WhileNotMissed == IInv /\ Named /\ (~ missed => Right /\ Coming)

--------------------------------------------------------------------------------
(* Sets, names and slots.                                                        *)

LEMMA WantedType ==
    ASSUME IInv, NEW s \in Wanted
    PROVE  /\ s[1] \in Groups /\ groups[s[1]].exists
           /\ groups[s[1]] \in KnownGroup /\ groups[s[1]].name = s[1]
           /\ s[2] \in DOMAIN Sets(groups[s[1]])
           /\ s[2] \in 1..Len(Sets(groups[s[1]]))
           /\ s[2] \in Nat /\ s = <<s[1], s[2]>>
           /\ SetOf(s) \in SetSpec /\ SetOf(s).name \in Names
           /\ SetOf(s).leader <=> s[2] = 1
<1>1. s[1] \in Groups /\ s[2] \in Nat /\ s = <<s[1], s[2]>>
  BY DEF Wanted
<1>2. groups[s[1]].exists /\ s[2] \in DOMAIN Sets(groups[s[1]])
  BY DEF Wanted
<1>3. groups[s[1]] \in KnownGroup /\ groups[s[1]].name = s[1]
  BY <1>1 DEF IInv, Known
<1>4. /\ Sets(groups[s[1]]) \in Seq(SetSpec)
      /\ DOMAIN Sets(groups[s[1]]) = 1..Len(Sets(groups[s[1]]))
  BY <1>3, SetsType
<1>5. SetOf(s) \in SetSpec
  BY <1>2, <1>4 DEF SetOf
<1>6. SetOf(s).name \in Names
  BY <1>5 DEF SetSpec
<1>7. SetOf(s).leader <=> s[2] = 1
  <2> DEFINE v == groups[s[1]].spec
  <2>1. v \in DOMAIN Specs[s[1]]
    BY <1>3 DEF KnownGroup
  <2>2. \A i \in DOMAIN Specs[s[1]][v] : Specs[s[1]][v][i].leader <=> i = 1
    BY <1>1, <2>1, GroupSyncAssumption
  <2>3. Sets(groups[s[1]]) = Specs[s[1]][v]
    BY <1>3 DEF Sets
  <2> QED BY <1>2, <2>2, <2>3 DEF SetOf
<1> QED BY <1>1, <1>2, <1>3, <1>4, <1>5, <1>6, <1>7

LEMMA NameOfOne ==
    ASSUME DistinctNames, NEW g \in Groups, NEW h \in Groups,
           NEW v \in DOMAIN Specs[g], NEW w \in DOMAIN Specs[h],
           NEW i \in DOMAIN Specs[g][v], NEW j \in DOMAIN Specs[h][w],
           Specs[g][v][i].name = Specs[h][w][j].name
    PROVE  g = h /\ (v = w => i = j)
BY DEF DistinctNames

LEMMA SameName ==
    ASSUME DistinctNames, IInv, NEW s \in Wanted, NEW r \in Wanted,
           SetOf(s).name = SetOf(r).name
    PROVE  s = r
<1> DEFINE AtOne(q) ==
             /\ q[1] \in Groups
             /\ groups[q[1]].spec \in DOMAIN Specs[q[1]]
             /\ q[2] \in DOMAIN Specs[q[1]][groups[q[1]].spec]
             /\ SetOf(q) = Specs[q[1]][groups[q[1]].spec][q[2]]
<1>1. ASSUME NEW q \in Wanted PROVE AtOne(q)
  <2>1. /\ q[1] \in Groups /\ groups[q[1]] \in KnownGroup /\ groups[q[1]].name = q[1]
        /\ q[2] \in DOMAIN Sets(groups[q[1]])
    BY WantedType
  <2>2. Sets(groups[q[1]]) = Specs[q[1]][groups[q[1]].spec]
    BY <2>1 DEF Sets
  <2> QED BY <2>1, <2>2 DEF SetOf, KnownGroup
<1>2. AtOne(s) /\ AtOne(r)
  BY <1>1
<1>3. s[1] = r[1] /\ (groups[s[1]].spec = groups[r[1]].spec => s[2] = r[2])
  <2> DEFINE g == s[1]  v == groups[s[1]].spec  i == s[2]
             h == r[1]  w == groups[r[1]].spec  j == r[2]
  <2>1. /\ g \in Groups /\ v \in DOMAIN Specs[g] /\ i \in DOMAIN Specs[g][v]
        /\ h \in Groups /\ w \in DOMAIN Specs[h] /\ j \in DOMAIN Specs[h][w]
        /\ Specs[g][v][i].name = Specs[h][w][j].name
    BY <1>2
  <2> HIDE DEF g, v, i, h, w, j
  <2>2. g = h /\ (v = w => i = j)
    BY <2>1, NameOfOne
  <2> QED BY <2>2 DEF g, v, i, h, w, j
<1>4. s = <<s[1], s[2]>> /\ r = <<r[1], r[2]>>
  BY WantedType
<1> QED BY <1>3, <1>4

\* The group and the set a thread is at.
SlotOf(t) == <<group[t].name, index[t]>>

LEMMA SlotType ==
    ASSUME IInv, FreshSnapshots, NEW t \in Threads, Busy(t)
    PROVE  /\ SlotOf(t) \in Wanted /\ SetOf(SlotOf(t)) = Set(t)
           /\ SlotOf(t)[1] = group[t].name /\ SlotOf(t)[2] = index[t]
           /\ group[t] \in KnownGroup /\ group[t] \in Group /\ group[t].name \in Groups
           /\ Sets(groups[group[t].name]) = Sets(group[t])
           /\ OwnerOf(groups[group[t].name]) = OwnerOf(group[t])
           /\ index[t] \in 1..Len(Sets(group[t])) /\ Len(Sets(group[t])) \in Nat
           /\ Set(t) \in SetSpec /\ Set(t).name \in Names
           /\ Set(t).leader <=> index[t] = 1
<1>1. group[t] \in Fresh /\ index[t] \in DOMAIN Sets(group[t])
  BY DEF IInv, TypeOK, FreshSnapshots, Busy
<1>2. group[t] \in KnownGroup /\ group[t] \in Group /\ group[t].name \in Groups
  BY <1>1 DEF Fresh, KnownGroup, Group
<1>3. groups[group[t].name].name = group[t].name /\ groups[group[t].name].exists
  BY <1>1, <1>2 DEF Fresh, IInv, Known
<1>4. Sets(groups[group[t].name]) = Sets(group[t])
  BY <1>1, <1>3 DEF Fresh, Sets
<1>5. OwnerOf(groups[group[t].name]) = OwnerOf(group[t])
  BY <1>1, <1>3 DEF Fresh, OwnerOf
<1>6. index[t] \in 1..Len(Sets(group[t])) /\ Len(Sets(group[t])) \in Nat
  BY <1>1, <1>2, SetsType
<1>7. SlotOf(t) \in Wanted /\ SetOf(SlotOf(t)) = Set(t)
  BY <1>1, <1>2, <1>3, <1>4, <1>6 DEF SlotOf, Wanted, SetOf, Set
<1>8. /\ Set(t) \in SetSpec /\ Set(t).name \in Names
      /\ Set(t).leader <=> index[t] = 1
  BY <1>7, WantedType DEF SlotOf
<1> QED BY <1>1, <1>2, <1>4, <1>5, <1>6, <1>7, <1>8 DEF SlotOf

\* The owner of a deployment is the group that gives its name.
LEMMA OwnerByName ==
    ASSUME DistinctNames, IInv, Named, NEW g \in Groups, NEW w \in DOMAIN Specs[g],
           NEW j \in DOMAIN Specs[g][w], NEW n \in Names, Specs[g][w][j].name = n,
           deployments[n].exists
    PROVE  deployments[n].owner.group = g
<1> DEFINE h == deployments[n].owner.group
<1>1. h \in Groups
  BY DEF IInv, TypeOK, Deployment, Owner
<1>2. PICK v \in DOMAIN Specs[h] : \E i \in DOMAIN Specs[h][v] : Specs[h][v][i].name = n
  BY DEF Named, IsNameOf
<1>3. PICK i \in DOMAIN Specs[h][v] : Specs[h][v][i].name = n
  BY <1>2
<1> HIDE DEF h
<1>4. h = g
  BY <1>1, <1>2, <1>3, NameOfOne
<1> QED BY <1>4 DEF h

\* While nothing has been missed, what has the name of a set is its group's.
LEMMA OwnIfThere ==
    ASSUME DistinctNames, IInv, Named, OwnersThere, NEW s \in Wanted, IsThere(s)
    PROVE  deployments[SetOf(s).name].owner = OwnerOf(groups[s[1]])
<1> DEFINE n == SetOf(s).name
           owner == deployments[n].owner
<1>1. /\ n \in Names /\ deployments[n].exists /\ s[1] \in Groups
      /\ groups[s[1]] \in KnownGroup /\ groups[s[1]].name = s[1]
  BY WantedType DEF IsThere
<1>2. owner \in Owner
  BY <1>1 DEF IInv, TypeOK, Deployment
<1>3. owner.group = s[1]
  <2> DEFINE g == s[1]  w == groups[s[1]].spec  j == s[2]
  <2>1. g \in Groups /\ w \in DOMAIN Specs[g] /\ j \in DOMAIN Specs[g][w]
    BY <1>1, WantedType DEF Sets, KnownGroup
  <2>2. Specs[g][w][j].name = n
    BY <1>1 DEF SetOf, Sets
  <2> HIDE DEF g, w, j, n
  <2>3. deployments[n].owner.group = g
    BY <1>1, <2>1, <2>2, OwnerByName
  <2> QED BY <2>3 DEF g
<1>4. groups[owner.group].uid = owner.uid
  BY <1>1 DEF OwnersThere, Orphaned
<1> QED BY <1>1, <1>2, <1>3, <1>4 DEF OwnerOf, Owner

--------------------------------------------------------------------------------
(* Deployments keep names that their owners give.                                *)

\* A deployment is left alone, deleted, or made by a thread for the set it is at.
MadeBySomeThread ==
    \A n \in Names :
        \/ deployments'[n] = deployments[n]
        \/ ~ deployments'[n].exists
        \/ \E t \in Threads : /\ Busy(t)
                              /\ n = Set(t).name
                              /\ deployments'[n] = MakeDeployment(group[t], Set(t))

LEMMA NamedKept ==
    ASSUME IInv, Named, MadeBySomeThread
    PROVE  Named'
<1> SUFFICES ASSUME NEW n \in Names, deployments'[n].exists
             PROVE  IsNameOf(deployments'[n].owner.group, n)
  BY DEF Named, IsNameOf
<1>1. CASE deployments'[n] = deployments[n]
  BY <1>1 DEF Named
<1>2. ASSUME NEW t \in Threads, Busy(t), n = Set(t).name,
             deployments'[n] = MakeDeployment(group[t], Set(t))
      PROVE  IsNameOf(deployments'[n].owner.group, n)
  <2>1. /\ group[t].spec \in DOMAIN Specs[group[t].name]
        /\ index[t] \in DOMAIN Specs[group[t].name][group[t].spec]
    BY <1>2 DEF IInv, TypeOK, Known, KnownGroup, Busy, Sets
  <2>2. Specs[group[t].name][group[t].spec][index[t]].name = n
    BY <1>2 DEF Set, Sets
  <2>3. IsNameOf(group[t].name, n)
    BY <2>1, <2>2 DEF IsNameOf
  <2> QED BY <1>2, <2>3 DEF MakeDeployment, OwnerOf
<1> QED BY <1>1, <1>2 DEF MadeBySomeThread

LEMMA SameDeployments ==
    ASSUME deployments' = deployments
    PROVE  MadeBySomeThread
BY DEF MadeBySomeThread

LEMMA OneMade ==
    ASSUME IInv, NEW t \in Threads, Busy(t),
           \/ deployments' = deployments
           \/ deployments' = [deployments EXCEPT ![Set(t).name] =
                                 MakeDeployment(group[t], Set(t))]
    PROVE  MadeBySomeThread
BY SetType DEF MadeBySomeThread, IInv, TypeOK, SetSpec

LEMMA OneGone ==
    ASSUME IInv, NEW n \in Names,
           deployments' = [deployments EXCEPT ![n] = NoDeployment]
    PROVE  MadeBySomeThread
BY DEF MadeBySomeThread, NoDeployment, IInv, TypeOK

LEMMA NextNamed ==
    ASSUME IInv, Named, [Next]_vars
    PROVE  Named'
<1>1. CASE UNCHANGED vars
  BY <1>1, SameDeployments, NamedKept DEF vars
<1>2. CASE Environment
  <2>1. ASSUME NEW g \in Groups,
               CreateGroup(g) \/ UpdateGroup(g) \/ DeleteGroup(g) \/ CollectService(g)
        PROVE  deployments' = deployments
    BY <2>1 DEF CreateGroup, UpdateGroup, DeleteGroup, CollectService
  <2>2. ASSUME NEW n \in Names, DeleteDeployment(n) \/ CollectDeployment(n)
        PROVE  MadeBySomeThread
    BY <2>2, OneGone DEF DeleteDeployment, CollectDeployment
  <2> QED BY <1>2, <2>1, <2>2, SameDeployments, NamedKept DEF Environment
<1>3. CASE Deliver
  BY <1>3, SameDeployments, NamedKept DEF Deliver, DeliverDeployment, DeliverService, api
<1>4. ASSUME NEW t \in Threads, ProcessNextComputeGroup(t)
      PROVE  MadeBySomeThread
  <2>1. CASE \/ \E cg \in queue : GetGroup(t, cg)
             \/ PruneStatus(t) \/ FindDeployment(t) \/ FindService(t) \/ CreateService(t)
             \/ NotControlled(t) \/ SameReplicas(t) \/ UpdateStatus(t)
    <3>1. deployments' = deployments
      BY <2>1 DEF GetGroup, PruneStatus, FindDeployment, FindService, CreateService,
                  NotControlled, SameReplicas, UpdateStatus, api
    <3> QED BY <3>1, SameDeployments
  <2>2. CASE CreateDeployment(t)
    BY <2>2, OneMade DEF CreateDeployment, Busy
  <2>3. CASE UpdateReplicas(t)
    BY <2>3, OneMade DEF UpdateReplicas, Busy
  <2> QED BY <1>4, <2>1, <2>2, <2>3 DEF ProcessNextComputeGroup
<1>5. CASE Crash
  BY <1>5, SameDeployments, NamedKept DEF Crash, Restarted, api
<1> QED BY <1>1, <1>2, <1>3, <1>4, <1>5, NamedKept DEF Next

--------------------------------------------------------------------------------
(* What a step of a thread does to the sets, and to what announces them.         *)

\* The groups are those of before, with their specs.
SameGroups ==
    \A g \in Groups : /\ groups'[g].name = groups[g].name
                      /\ groups'[g].exists = groups[g].exists
                      /\ groups'[g].uid = groups[g].uid
                      /\ groups'[g].spec = groups[g].spec

\* Thread t stays with its set, at one of the places.
Stays(t, places) == index'[t] = index[t] /\ at'[t] \in places

\* It stays, or goes to the next set, or the set is the last.
Moves(t) ==
    /\ \A u \in Threads : u # t => /\ at'[u] = at[u] /\ group'[u] = group[u]
                                   /\ index'[u] = index[u] /\ found'[u] = found[u]
    /\ IF at'[t] = "idle"
       THEN index[t] = Len(Sets(group[t]))
       ELSE /\ group'[t] = group[t]
            /\ \/ index'[t] = index[t]
               \/ index'[t] = index[t] + 1 /\ at'[t] = "deployment"

\* What it leaves behind is as it should be.
LeavesRight(t) ==
    /\ at[t] \in {"prune", "deployment"} =>
          Stays(t, {"prune", "deployment"}) \/ deployments'[Set(t).name].exists
    /\ index[t] = 1 /\ at[t] \in {"prune", "deployment", "service"} =>
          Stays(t, {"prune", "deployment", "service"}) \/ services'[group[t].name].exists
    /\ at[t] \in {"prune", "deployment", "replicas"} =>
          \/ Stays(t, {"prune", "deployment", "replicas"})
          \/ Set(t).leader
          \/ deployments'[Set(t).name].replicas = Set(t).replicas

Made(t) ==
    \/ deployments' = deployments
    \/ /\ deployments' = [deployments EXCEPT ![Set(t).name] = MakeDeployment(group[t], Set(t))]
       /\ ~ Stays(t, {"prune", "deployment"})
Serves(t) ==
    \/ services' = services
    \/ services' = [services EXCEPT ![group[t].name] = [exists |-> TRUE, uid |-> group[t].uid]]

ThreadStep(t) ==
    /\ SameGroups
    /\ UNCHANGED <<caches, queue>>
    /\ Moves(t)
    /\ LeavesRight(t)
    /\ Made(t)
    /\ Serves(t)
    /\ Stays(t, {"prune", "deployment"}) => at[t] \in {"prune", "deployment"}
    /\ at'[t] \in {"service", "replicas", "status"} => FoundRight(t)'

\* The sets that there should be depend on the groups and their specs only.
LEMMA SameWanted ==
    ASSUME IInv, SameGroups
    PROVE  /\ Wanted' = Wanted
           /\ \A s \in Wanted : SetOf(s)' = SetOf(s)
           /\ \A g \in Groups : Sets(groups'[g]) = Sets(groups[g])
           /\ Fresh' = Fresh
<1>1. \A g \in Groups : Sets(groups'[g]) = Sets(groups[g])
  BY DEF SameGroups, Sets
<1>2. Wanted' = Wanted
  BY <1>1 DEF Wanted, SameGroups
<1>3. \A s \in Wanted : SetOf(s)' = SetOf(s)
  BY <1>1 DEF Wanted, SetOf
<1>4. Fresh' = Fresh
  BY DEF Fresh, SameGroups, KnownGroup, Group
<1> QED BY <1>1, <1>2, <1>3, <1>4

LEMMA AnnouncedAfter ==
    ASSUME IInv, FreshSnapshots, NEW t \in Threads, Busy(t), Moves(t), queue' = queue,
           NEW places, "deployment" \in places, "idle" \notin places,
           NEW s \in Wanted, Announced(s, places)
    PROVE  \/ Announced(s, places)'
           \/ s = SlotOf(t) /\ at[t] \in places /\ ~ Stays(t, places)
<1>1. CASE \E cg \in queue : cg.name = s[1]
  BY <1>1 DEF Announced
<1>2. ASSUME NEW u \in Threads, u # t, Busy(u), group[u].name = s[1],
             index[u] < s[2] \/ (index[u] = s[2] /\ at[u] \in places)
      PROVE  Announced(s, places)'
  <2>1. at'[u] = at[u] /\ group'[u] = group[u] /\ index'[u] = index[u]
    BY <1>2 DEF Moves
  <2> QED BY <1>2, <2>1 DEF Announced, Busy
<1>3. ASSUME group[t].name = s[1], index[t] < s[2]
      PROVE  Announced(s, places)'
  <2>1. /\ s[2] \in 1..Len(Sets(group[t])) /\ Len(Sets(group[t])) \in Nat
        /\ index[t] \in Nat
    BY <1>3, WantedType, SlotType
  <2>2. at'[t] # "idle" /\ group'[t] = group[t]
    BY <1>3, <2>1 DEF Moves
  <2>3. index'[t] < s[2] \/ (index'[t] = s[2] /\ at'[t] \in places)
    BY <1>3, <2>1, <2>2 DEF Moves
  <2> QED BY <1>3, <2>2, <2>3 DEF Announced, Busy
<1>4. ASSUME group[t].name = s[1], index[t] = s[2], at[t] \in places
      PROVE  Announced(s, places)' \/ (s = SlotOf(t) /\ ~ Stays(t, places))
  <2>1. s = SlotOf(t)
    BY <1>4, WantedType DEF SlotOf
  <2>2. CASE Stays(t, places)
    <3>1. at'[t] # "idle" /\ group'[t] = group[t] /\ index'[t] = s[2] /\ at'[t] \in places
      BY <1>4, <2>2 DEF Stays, Moves
    <3> QED BY <1>4, <3>1 DEF Announced, Busy
  <2> QED BY <2>1, <2>2
<1> QED BY <1>1, <1>2, <1>3, <1>4 DEF Announced

\* A step makes no announcement, and that of the set it makes a deployment for ends.
LEMMA AnnouncedBefore ==
    ASSUME IInv, FreshSnapshots, NEW t \in Threads, Busy(t), Moves(t), queue' = queue,
           Stays(t, {"prune", "deployment"}) => at[t] \in {"prune", "deployment"},
           NEW s \in Wanted, Announced(s, {"prune", "deployment"})'
    PROVE  Announced(s, {"prune", "deployment"})
<1>1. CASE \E cg \in queue : cg.name = s[1]
  BY <1>1 DEF Announced
<1>2. ASSUME NEW u \in Threads, Busy(u)', group'[u].name = s[1],
             \/ index'[u] < s[2]
             \/ index'[u] = s[2] /\ at'[u] \in {"prune", "deployment"}
      PROVE  Announced(s, {"prune", "deployment"})
  <2>1. CASE u # t
    <3>1. at'[u] = at[u] /\ group'[u] = group[u] /\ index'[u] = index[u]
      BY <2>1 DEF Moves
    <3> QED BY <1>2, <3>1 DEF Announced, Busy
  <2>2. CASE u = t
    <3>1. index[t] \in Nat /\ s[2] \in Nat
      BY WantedType, SlotType
    <3>2. /\ group'[t] = group[t]
          /\ \/ index'[t] = index[t]
             \/ index'[t] = index[t] + 1 /\ at'[t] = "deployment"
      BY <1>2, <2>2 DEF Moves, Busy
    <3>3. \/ index[t] < s[2]
          \/ index[t] = s[2] /\ at[t] \in {"prune", "deployment"}
      BY <1>2, <2>2, <3>1, <3>2 DEF Stays
    <3> QED BY <1>2, <2>2, <3>2, <3>3 DEF Announced
  <2> QED BY <2>1, <2>2
<1> QED BY <1>1, <1>2 DEF Announced

LEMMA AloneKept ==
    ASSUME IInv, Alone, NEW t \in Threads, Busy(t), Moves(t), queue' = queue
    PROVE  Alone'
<1>1. \A u \in Threads : Busy(u)' => Busy(u) /\ group'[u] = group[u]
  BY DEF Moves, Busy
<1> QED BY <1>1 DEF Alone

\* Nothing else is announced of the set that a thread is at.
LEMMA SlotAlone ==
    ASSUME IInv, FreshSnapshots, Alone, NEW t \in Threads, Busy(t), Moves(t), queue' = queue,
           ~ Stays(t, {"prune", "deployment"}), NEW s, s = SlotOf(t)
    PROVE  ~ Announced(s, {"prune", "deployment"})'
<1>1. s[1] = group[t].name /\ s[2] = index[t] /\ index[t] \in Nat
  BY SlotType
<1>2. \A cg \in queue' : cg.name # s[1]
  BY <1>1 DEF Alone
<1>3. \A u \in Threads : u # t /\ Busy(u)' => group'[u].name # s[1]
  BY <1>1 DEF Alone, Moves, Busy
<1>4. Busy(t)' => /\ ~ (index'[t] < s[2])
                  /\ ~ (index'[t] = s[2] /\ at'[t] \in {"prune", "deployment"})
  BY <1>1 DEF Moves, Busy, Stays
<1> QED BY <1>2, <1>3, <1>4 DEF Announced

\* The deployments after a step: those that were there are, and their owners are
\* the same; one that has changed is that of the set, as it should be.
LEMMA DeploymentsAfter ==
    ASSUME DistinctNames, IInv, Named, Right, NEW t \in Threads, Busy(t), Made(t)
    PROVE  \A n \in Names :
              /\ deployments[n].exists => /\ deployments'[n].exists
                                          /\ deployments'[n].owner = deployments[n].owner
              /\ \/ deployments'[n] = deployments[n]
                 \/ /\ n = Set(t).name
                    /\ deployments'[n] = MakeDeployment(group[t], Set(t))
                    /\ ~ Stays(t, {"prune", "deployment"})
<1> DEFINE made == MakeDeployment(group[t], Set(t))
<1>1. /\ SlotOf(t) \in Wanted /\ SetOf(SlotOf(t)) = Set(t) /\ Set(t).name \in Names
      /\ SlotOf(t)[1] = group[t].name
      /\ OwnerOf(groups[group[t].name]) = OwnerOf(group[t])
  BY SlotType DEF Right
<1>2. deployments[Set(t).name].exists => deployments[Set(t).name].owner = made.owner
  <2>1. deployments[Set(t).name].exists => IsThere(SlotOf(t))
    BY <1>1 DEF IsThere
  <2>2. IsThere(SlotOf(t)) => deployments[Set(t).name].owner = OwnerOf(groups[group[t].name])
    BY <1>1, OwnIfThere DEF Right
  <2>3. made.owner = OwnerOf(group[t])
    BY DEF MakeDeployment
  <2> QED BY <1>1, <2>1, <2>2, <2>3
<1>3. made.exists
  BY DEF MakeDeployment
<1>4. DOMAIN deployments = Names
  BY DEF IInv, TypeOK
<1> HIDE DEF made
<1>5. \/ deployments' = deployments
      \/ /\ deployments' = [deployments EXCEPT ![Set(t).name] = made]
         /\ ~ Stays(t, {"prune", "deployment"})
  BY DEF Made, made
<1>6. \A n \in Names :
         \/ deployments'[n] = deployments[n]
         \/ /\ n = Set(t).name
            /\ deployments'[n] = made
            /\ ~ Stays(t, {"prune", "deployment"})
  BY <1>4, <1>5
<1>7. \A n \in Names : deployments[n].exists => /\ deployments'[n].exists
                                                /\ deployments'[n].owner = deployments[n].owner
  BY <1>2, <1>3, <1>6
<1> QED BY <1>6, <1>7 DEF made

\* The deployment of a wanted set after a step: as it was, or as it should be, and
\* then the set is the thread's.
LEMMA WantedAfter ==
    ASSUME DistinctNames, IInv, Named, Right, NEW t \in Threads, Busy(t),
           Made(t), SameGroups, NEW s \in Wanted
    PROVE  /\ SetOf(s)' = SetOf(s) /\ SetOf(s).name \in Names
           /\ IsThere(s) => IsThere(s)'
           /\ IsScaled(s) => IsScaled(s)'
           /\ \/ deployments'[SetOf(s).name] = deployments[SetOf(s).name]
              \/ s = SlotOf(t) /\ IsScaled(s)' /\ ~ Stays(t, {"prune", "deployment"})
<1>1. SetOf(s)' = SetOf(s) /\ SetOf(s).name \in Names
  BY SameWanted, WantedType
<1>2. SlotOf(t) \in Wanted /\ SetOf(SlotOf(t)) = Set(t)
  BY SlotType DEF Right
<1> DEFINE n == SetOf(s).name
<1>3. /\ deployments[n].exists => deployments'[n].exists
      /\ \/ deployments'[n] = deployments[n]
         \/ /\ n = Set(t).name
            /\ deployments'[n] = MakeDeployment(group[t], Set(t))
            /\ ~ Stays(t, {"prune", "deployment"})
  BY <1>1, DeploymentsAfter
<1>4. IsThere(s) => IsThere(s)'
  BY <1>1, <1>3 DEF IsThere
<1>5. CASE deployments'[n] = deployments[n]
  <2>1. IsScaled(s) => IsScaled(s)'
    BY <1>1, <1>5 DEF IsScaled
  <2> QED BY <1>1, <1>4, <1>5, <2>1
<1>6. CASE /\ n = Set(t).name
           /\ deployments'[n] = MakeDeployment(group[t], Set(t))
           /\ ~ Stays(t, {"prune", "deployment"})
  <2>1. s = SlotOf(t)
    BY <1>2, <1>6, SameName
  <2>2. IsScaled(s)'
    BY <1>1, <1>2, <1>6, <2>1 DEF IsScaled, MakeDeployment
  <2> QED BY <1>1, <1>4, <1>6, <2>1, <2>2
<1> QED BY <1>3, <1>5, <1>6

LEMMA ThreadKeepsObjects ==
    ASSUME DistinctNames, IInv, Named, Right, NEW t \in Threads, Busy(t), ThreadStep(t)
    PROVE  FreshSnapshots' /\ OwnersThere' /\ CachesThere' /\ LagIsRight'
<1> USE DEF ThreadStep
<1>1. /\ group[t] \in Fresh /\ Set(t).name \in Names
      /\ group[t].name \in Groups
  BY SlotType DEF Right, FreshSnapshots
<1>2. ~ Orphaned(group[t].name, group[t].uid)
  BY <1>1 DEF Fresh, Orphaned
<1>3. \A g \in Groups : \A uid : Orphaned(g, uid)' = Orphaned(g, uid)
  BY DEF Orphaned, SameGroups
<1>4. FreshSnapshots'
  <2>1. \A u \in Threads : Busy(u)' => Busy(u) /\ group'[u] = group[u]
    BY DEF Moves, Busy
  <2> QED BY <2>1, SameWanted DEF Right, FreshSnapshots
<1>5. OwnersThere'
  <2>1. ASSUME NEW n \in Names, deployments'[n].exists
        PROVE  ~ Orphaned(deployments'[n].owner.group, deployments'[n].owner.uid)
    <3>1. CASE deployments'[n] = deployments[n]
      BY <2>1, <3>1 DEF Right, OwnersThere
    <3>2. CASE deployments'[n] = MakeDeployment(group[t], Set(t))
      BY <1>2, <3>2 DEF MakeDeployment, OwnerOf
    <3> QED BY <3>1, <3>2, DeploymentsAfter
  <2>2. ASSUME NEW n \in Names, deployments'[n].exists
        PROVE  deployments'[n].owner.group \in Groups
    <3>1. deployments'[n] \in Deployment
      BY <1>1, MadeType DEF Made, IInv, TypeOK
    <3> QED BY <3>1 DEF Deployment, Owner
  <2>3. ASSUME NEW g \in Groups, services'[g].exists
        PROVE  ~ Orphaned(g, services'[g].uid)
    <3>1. CASE services'[g] = services[g]
      BY <2>3, <3>1 DEF Right, OwnersThere
    <3>2. CASE g = group[t].name /\ services'[g].uid = group[t].uid
      BY <1>2, <3>2
    <3> QED BY <1>1, <3>1, <3>2 DEF Serves, IInv, TypeOK
  <2>4. \A n \in Names : deployments'[n].exists =>
           ~ Orphaned(deployments[n].owner.group, deployments[n].owner.uid)'
    BY <1>3, <2>1, <2>2 DEF Orphaned, SameGroups
  <2>5. \A g \in Groups : services'[g].exists => ~ Orphaned(g, services[g].uid)'
    BY <1>3, <2>3 DEF Orphaned, SameGroups
  <2> QED BY <2>4, <2>5 DEF OwnersThere
<1>6. CachesThere'
  <2>1. \A n \in Names : deploymentCache'[n].exists =>
           deployments'[n].exists /\ deployments'[n].owner = deploymentCache'[n].owner
    BY DeploymentsAfter DEF Right, CachesThere, caches
  <2>2. \A g \in Groups : services[g].exists => services'[g].exists
    BY <1>1 DEF Serves, IInv, TypeOK
  <2>3. \A g \in Groups : serviceCache'[g].exists => services'[g].exists
    BY <2>2 DEF Right, CachesThere, caches
  <2> QED BY <2>1, <2>3 DEF CachesThere
<1>7. LagIsRight'
  <2> SUFFICES ASSUME NEW s \in Wanted, IsThere(s)'
               PROVE  IsScaled(s)' \/ deploymentCache'[SetOf(s).name] = deployments'[SetOf(s).name]
    BY SameWanted, WantedAfter DEF LagIsRight
  <2>1. CASE deployments'[SetOf(s).name] = deployments[SetOf(s).name]
    <3>1. IsThere(s)
      BY <2>1, WantedAfter DEF IsThere
    <3> QED BY <2>1, <3>1, WantedAfter DEF Right, LagIsRight, caches
  <2> QED BY <2>1, WantedAfter
<1> QED BY <1>4, <1>5, <1>6, <1>7

LEMMA ThreadKeepsFound ==
    ASSUME DistinctNames, IInv, Named, Right, NEW t \in Threads, Busy(t), ThreadStep(t)
    PROVE  AllFoundRight'
<1> SUFFICES ASSUME NEW u \in Threads, at'[u] \in {"service", "replicas", "status"}
             PROVE  FoundRight(u)'
  BY DEF AllFoundRight
<1>1. CASE u = t
  BY <1>1 DEF ThreadStep
<1>2. CASE u # t
  <2>1. /\ at'[u] = at[u] /\ group'[u] = group[u]
        /\ index'[u] = index[u] /\ found'[u] = found[u]
    BY <1>2 DEF ThreadStep, Moves
  <2>2. Busy(u) /\ FoundRight(u)
    BY <2>1 DEF Right, AllFoundRight, Busy
  <2>3. Set(u)' = Set(u)
    BY <2>1 DEF Set, Sets
  <2>4. /\ SlotOf(u) \in Wanted /\ SetOf(SlotOf(u)) = Set(u)
        /\ SlotOf(t) \in Wanted
    BY <2>2, SlotType DEF Right
  <2>5. SlotOf(u) # SlotOf(t)
    <3>1. SlotOf(u)[1] = group[u].name /\ SlotOf(t)[1] = group[t].name
      BY DEF SlotOf
    <3>2. group[u].name # group[t].name
      BY <1>2, <2>2 DEF Right, Alone
    <3> QED BY <3>1, <3>2
  <2>6. deployments'[Set(u).name] = deployments[Set(u).name]
    BY <2>4, <2>5, WantedAfter DEF ThreadStep
  <2> QED BY <2>1, <2>2, <2>3, <2>6 DEF FoundRight, OwnerOf
<1> QED BY <1>1, <1>2

LEMMA ThreadKeepsAlone ==
    ASSUME DistinctNames, IInv, Named, Right, NEW t \in Threads, Busy(t), ThreadStep(t)
    PROVE  Alone' /\ UncachedIsPassed'
<1> USE DEF ThreadStep
<1>1. Alone'
  BY AloneKept DEF Right
<1>2. UncachedIsPassed'
  <2> SUFFICES ASSUME NEW s \in Wanted, IsThere(s)', ~ deploymentCache[SetOf(s).name].exists
               PROVE  ~ Announced(s, {"prune", "deployment"})'
    BY SameWanted DEF UncachedIsPassed, caches
  <2>1. CASE deployments'[SetOf(s).name] = deployments[SetOf(s).name]
    <3>1. IsThere(s)
      BY <2>1, WantedAfter DEF IsThere
    <3>2. ~ Announced(s, {"prune", "deployment"})
      BY <3>1 DEF Right, UncachedIsPassed
    <3> QED BY <3>2, AnnouncedBefore DEF Right
  <2>2. CASE s = SlotOf(t) /\ ~ Stays(t, {"prune", "deployment"})
    BY <2>2, SlotAlone DEF Right
  <2> QED BY <2>1, <2>2, WantedAfter
<1> QED BY <1>1, <1>2

LEMMA ThreadKeepsComing ==
    ASSUME DistinctNames, IInv, Named, Right, Coming,
           NEW t \in Threads, Busy(t), ThreadStep(t)
    PROVE  Coming'
<1> USE DEF ThreadStep
<1>1. /\ SetOf(SlotOf(t)) = Set(t) /\ SlotOf(t)[1] = group[t].name
      /\ SlotOf(t)[2] = index[t] /\ group[t].name \in Groups
  BY SlotType DEF Right
<1>2. DeploymentsComing'
  <2> SUFFICES ASSUME NEW s \in Wanted
               PROVE  IsThere(s)' \/ Announced(s, {"prune", "deployment"})'
    BY SameWanted DEF DeploymentsComing
  <2>1. CASE IsThere(s)
    BY <2>1, WantedAfter
  <2>2. CASE Announced(s, {"prune", "deployment"})
    <3>1. \/ Announced(s, {"prune", "deployment"})'
          \/ /\ s = SlotOf(t) /\ at[t] \in {"prune", "deployment"}
             /\ ~ Stays(t, {"prune", "deployment"})
      BY <2>2, AnnouncedAfter DEF Right
    <3>2. ASSUME s = SlotOf(t), at[t] \in {"prune", "deployment"},
                 ~ Stays(t, {"prune", "deployment"})
          PROVE  IsThere(s)'
      <4>1. deployments'[Set(t).name].exists
        BY <3>2 DEF LeavesRight
      <4>2. SetOf(s)' = Set(t)
        BY <1>1, <3>2, WantedAfter
      <4> QED BY <4>1, <4>2 DEF IsThere
    <3> QED BY <3>1, <3>2
  <2> QED BY <2>1, <2>2 DEF Coming, DeploymentsComing
<1>3. ServicesComing'
  <2> SUFFICES ASSUME NEW s \in Wanted, s[2] = 1
               PROVE  \/ services'[s[1]].exists
                      \/ Announced(s, {"prune", "deployment", "service"})'
    BY SameWanted DEF ServicesComing
  <2>1. CASE services[s[1]].exists
    <3>1. DOMAIN services = Groups /\ s[1] \in Groups
      BY WantedType DEF IInv, TypeOK
    <3>2. services'[s[1]].exists
      BY <1>1, <2>1, <3>1 DEF Serves
    <3> QED BY <3>2
  <2>2. CASE Announced(s, {"prune", "deployment", "service"})
    <3>1. \/ Announced(s, {"prune", "deployment", "service"})'
          \/ /\ s = SlotOf(t) /\ at[t] \in {"prune", "deployment", "service"}
             /\ ~ Stays(t, {"prune", "deployment", "service"})
      BY <2>2, AnnouncedAfter DEF Right
    <3> QED BY <1>1, <3>1 DEF LeavesRight
  <2> QED BY <2>1, <2>2 DEF Coming, ServicesComing
<1>4. ReplicasComing'
  <2> SUFFICES ASSUME NEW s \in Wanted, ~ SetOf(s).leader
               PROVE  \/ IsScaled(s)'
                      \/ Announced(s, {"prune", "deployment", "replicas"})'
    <3>1. ASSUME NEW s \in Wanted PROVE SetOf(s)' = SetOf(s)
      BY SameWanted
    <3>2. Wanted' = Wanted
      BY SameWanted
    <3> QED BY <3>1, <3>2 DEF ReplicasComing
  <2>1. CASE IsScaled(s)
    BY <2>1, WantedAfter
  <2>2. CASE Announced(s, {"prune", "deployment", "replicas"})
    <3>1. \/ Announced(s, {"prune", "deployment", "replicas"})'
          \/ /\ s = SlotOf(t) /\ at[t] \in {"prune", "deployment", "replicas"}
             /\ ~ Stays(t, {"prune", "deployment", "replicas"})
      BY <2>2, AnnouncedAfter DEF Right
    <3>2. ASSUME s = SlotOf(t), at[t] \in {"prune", "deployment", "replicas"},
                 ~ Stays(t, {"prune", "deployment", "replicas"})
          PROVE  IsScaled(s)'
      <4>1. deployments'[Set(t).name].replicas = Set(t).replicas
        BY <1>1, <3>2 DEF LeavesRight
      <4>2. SetOf(s)' = Set(t)
        BY <1>1, <3>2, WantedAfter
      <4> QED BY <4>1, <4>2 DEF IsScaled
    <3> QED BY <3>1, <3>2
  <2> QED BY <2>1, <2>2 DEF Coming, ReplicasComing
<1> QED BY <1>2, <1>3, <1>4 DEF Coming

LEMMA ThreadKeeps ==
    ASSUME DistinctNames, IInv, Named, Right, Coming,
           NEW t \in Threads, Busy(t), ThreadStep(t)
    PROVE  Right' /\ Coming'
BY ThreadKeepsObjects, ThreadKeepsFound, ThreadKeepsAlone, ThreadKeepsComing DEF Right

--------------------------------------------------------------------------------
(* Every action of a busy thread is such a step, unless something is missed.     *)

LEMMA NextSetMoves ==
    ASSUME IInv, NEW t \in Threads, Busy(t), NextSet(t)
    PROVE  /\ Moves(t) /\ at'[t] \in {"idle", "deployment"}
           /\ \A places : "idle" \notin places => ~ Stays(t, places)
<1>1. /\ group[t] \in KnownGroup /\ index[t] \in DOMAIN Sets(group[t])
      /\ t \in DOMAIN at /\ t \in DOMAIN group /\ t \in DOMAIN index /\ t \in DOMAIN found
  BY DEF IInv, TypeOK, Known, Busy
<1>2. index[t] \in 1..Len(Sets(group[t])) /\ Len(Sets(group[t])) \in Nat
  BY <1>1, SetsType
<1>3. CASE index[t] < Len(Sets(group[t]))
  <2>1. /\ at' = [at EXCEPT ![t] = "deployment"]
        /\ index' = [index EXCEPT ![t] = index[t] + 1]
        /\ found' = [found EXCEPT ![t] = NoDeployment]
        /\ group' = group
    BY <1>3 DEF NextSet
  <2>2. Moves(t)
    BY <1>1, <2>1 DEF Moves, IInv, TypeOK
  <2>3. index'[t] # index[t] /\ at'[t] = "deployment"
    BY <1>1, <1>2, <2>1
  <2> QED BY <2>2, <2>3 DEF Stays
<1>4. CASE ~ (index[t] < Len(Sets(group[t])))
  <2>1. /\ at' = [at EXCEPT ![t] = "idle"]
        /\ index' = [index EXCEPT ![t] = 1]
        /\ found' = [found EXCEPT ![t] = NoDeployment]
        /\ group' = [group EXCEPT ![t] = AnyGroup]
    BY <1>4 DEF NextSet
  <2>2. index[t] = Len(Sets(group[t]))
    BY <1>2, <1>4
  <2>3. Moves(t) /\ at'[t] = "idle"
    BY <1>1, <2>1, <2>2 DEF Moves, IInv, TypeOK
  <2> QED BY <2>3 DEF Stays
<1> QED BY <1>3, <1>4

LEMMA GoOnMoves ==
    ASSUME IInv, NEW t \in Threads, Busy(t), NEW to, to # "idle", NEW d, GoOn(t, to, d)
    PROVE  /\ Moves(t) /\ at'[t] = to /\ found'[t] = d
           /\ group'[t] = group[t] /\ index'[t] = index[t] /\ Set(t)' = Set(t)
           /\ \A places : Stays(t, places) <=> to \in places
<1>1. /\ at' = [at EXCEPT ![t] = to]
      /\ found' = [found EXCEPT ![t] = d]
      /\ group' = group /\ index' = index
  BY DEF GoOn
<1>2. at'[t] = to /\ found'[t] = d
  BY <1>1 DEF IInv, TypeOK
<1>3. Moves(t)
  BY <1>1, <1>2 DEF Moves, IInv, TypeOK
<1>4. Set(t)' = Set(t)
  BY <1>1 DEF Set, Sets
<1> QED BY <1>1, <1>2, <1>3, <1>4 DEF Stays

LEMMA GroupsUnchanged ==
    ASSUME groups' = groups
    PROVE  SameGroups
BY DEF SameGroups

\* A status update that is accepted is made to the spec that there is.
LEMMA GroupsUpdated ==
    ASSUME IInv, FreshSnapshots, NEW t \in Threads, Busy(t),
           NEW new \in KnownGroup, new.name = group[t].name, new.exists = group[t].exists,
           new.uid = group[t].uid, new.spec = group[t].spec,
           groups' = Updated(group[t], new)
    PROVE  SameGroups
<1>1. CASE groups' = groups
  BY <1>1, GroupsUnchanged
<1>2. CASE groups' = [groups EXCEPT ![group[t].name] = [new EXCEPT !.rv = group[t].rv + 1]]
  <2> DEFINE g == group[t].name
             made == [new EXCEPT !.rv = group[t].rv + 1]
  <2>1. group[t] \in Fresh
    BY DEF FreshSnapshots
  <2>2. /\ made.name = new.name /\ made.exists = new.exists
        /\ made.uid = new.uid /\ made.spec = new.spec
    BY DEF KnownGroup, Group
  <2>3. /\ g \in Groups /\ groups[g].name = g /\ groups[g].exists = group[t].exists
        /\ groups[g].uid = group[t].uid /\ groups[g].spec = group[t].spec
    BY <2>1 DEF Fresh, KnownGroup, Group, IInv, Known
  <2>4. DOMAIN groups = Groups
    BY DEF IInv, TypeOK
  <2> HIDE DEF made
  <2>5. groups' = [groups EXCEPT ![g] = made]
    BY <1>2 DEF made
  <2> QED BY <2>2, <2>3, <2>4, <2>5 DEF SameGroups
<1> QED BY <1>1, <1>2 DEF Updated

LEMMA PruneStatusSteps ==
    ASSUME IInv, Right, NEW t \in Threads, PruneStatus(t)
    PROVE  Busy(t) /\ ThreadStep(t)
<1>1. Busy(t) /\ at[t] = "prune"
  BY DEF PruneStatus, Busy
<1>2. GoOn(t, "deployment", NoDeployment)
  BY DEF PruneStatus
<1>3. SameGroups
  <2>1. group[t] \in KnownGroup
    BY <1>1, SetType DEF IInv
  <2>2. Pruned(group[t]).spec = group[t].spec
    BY <2>1 DEF Pruned, KnownGroup, Group
  <2>3. CASE groups' = Updated(group[t], Pruned(group[t]))
    BY <1>1, <2>1, <2>2, <2>3, PrunedType, GroupsUpdated DEF Right
  <2> QED BY <2>3, GroupsUnchanged DEF PruneStatus
<1>4. Moves(t) /\ at'[t] = "deployment" /\ \A places : Stays(t, places) <=> "deployment" \in places
  BY <1>1, <1>2, GoOnMoves
<1>5. LeavesRight(t)
  BY <1>4 DEF LeavesRight
<1> QED BY <1>1, <1>3, <1>4, <1>5 DEF ThreadStep, PruneStatus, Made, Serves

LEMMA UpdateStatusSteps ==
    ASSUME IInv, Right, NEW t \in Threads, UpdateStatus(t)
    PROVE  Busy(t) /\ ThreadStep(t)
<1>1. Busy(t) /\ at[t] = "status"
  BY DEF UpdateStatus, Busy
<1>2. SameGroups
  <2>1. group[t] \in KnownGroup /\ Set(t) \in SetSpec
    BY <1>1, SetType DEF IInv
  <2>2. Recorded(group[t], Set(t)).spec = group[t].spec
    BY <2>1 DEF Recorded, KnownGroup, Group
  <2>3. CASE groups' = Updated(group[t], Recorded(group[t], Set(t)))
    BY <1>1, <2>1, <2>2, <2>3, RecordedType, GroupsUpdated DEF Right
  <2> QED BY <2>3, GroupsUnchanged DEF UpdateStatus
<1>3. /\ Moves(t) /\ at'[t] \in {"idle", "deployment"}
      /\ ~ Stays(t, {"prune", "deployment"})
  BY <1>1, NextSetMoves DEF UpdateStatus
<1>4. LeavesRight(t)
  BY <1>1 DEF LeavesRight
<1> QED BY <1>1, <1>2, <1>3, <1>4 DEF ThreadStep, UpdateStatus, Made, Serves

\* The deployment is there: with the leaders' it goes to the service, and leaves
\* behind that the deployment is there; with the workers' to the replicas.
LEMMA AfterDeploymentSteps ==
    ASSUME IInv, Right, NEW t \in Threads, Busy(t), at[t] = "deployment",
           NEW d, AfterDeployment(t, d),
           deployments'[Set(t).name].exists, d.owner = OwnerOf(group[t]),
           d.replicas = Set(t).replicas => deployments'[Set(t).name].replicas = Set(t).replicas,
           SameGroups, UNCHANGED <<caches, queue>>, services' = services,
           \/ deployments' = deployments
           \/ deployments' = [deployments EXCEPT ![Set(t).name] = MakeDeployment(group[t], Set(t))]
    PROVE  ThreadStep(t)
<1> DEFINE to == IF Set(t).leader THEN "service" ELSE "replicas"
<1>1. GoOn(t, to, d) /\ to # "idle"
  BY DEF AfterDeployment
<1>2. /\ Moves(t) /\ at'[t] = to /\ found'[t] = d
      /\ group'[t] = group[t] /\ index'[t] = index[t] /\ Set(t)' = Set(t)
      /\ \A places : Stays(t, places) <=> to \in places
  BY <1>1, GoOnMoves
<1>3. LeavesRight(t)
  <2>1. index[t] = 1 => Set(t).leader
    BY SlotType DEF Right
  <2> QED BY <1>2, <2>1 DEF LeavesRight
<1>4. FoundRight(t)'
  BY <1>2 DEF FoundRight, OwnerOf
<1>5. ~ Stays(t, {"prune", "deployment"})
  BY <1>2
<1> QED BY <1>2, <1>3, <1>4, <1>5 DEF ThreadStep, Made, Serves

LEMMA FindDeploymentSteps ==
    ASSUME DistinctNames, IInv, Named, Right, NEW t \in Threads, FindDeployment(t)
    PROVE  Busy(t) /\ ThreadStep(t)
<1>1. Busy(t) /\ at[t] = "deployment"
  BY DEF FindDeployment, Busy
<1>2. /\ SlotOf(t) \in Wanted /\ SetOf(SlotOf(t)) = Set(t) /\ Set(t).name \in Names
      /\ SlotOf(t)[1] = group[t].name
      /\ OwnerOf(groups[group[t].name]) = OwnerOf(group[t])
  BY <1>1, SlotType DEF Right
<1> DEFINE d == deploymentCache[Set(t).name]
<1>3. deployments[Set(t).name].exists /\ deployments[Set(t).name].owner = d.owner
  BY <1>2 DEF Right, CachesThere, FindDeployment
<1>4. IsThere(SlotOf(t))
  BY <1>2, <1>3 DEF IsThere
<1>5. d.owner = OwnerOf(group[t])
  <2>1. deployments[SetOf(SlotOf(t)).name].owner = OwnerOf(groups[SlotOf(t)[1]])
    BY <1>2, <1>4, OwnIfThere DEF Right
  <2> QED BY <1>2, <1>3, <2>1
<1>6. d.replicas = Set(t).replicas => deployments[Set(t).name].replicas = Set(t).replicas
  <2>1. IsScaled(SlotOf(t)) \/ d = deployments[Set(t).name]
    BY <1>2, <1>4 DEF Right, LagIsRight
  <2> QED BY <1>2, <2>1 DEF IsScaled
<1>7. /\ groups' = groups /\ deployments' = deployments /\ services' = services
      /\ UNCHANGED <<caches, queue>>
      /\ AfterDeployment(t, d)
  BY DEF FindDeployment, api
<1> HIDE DEF d
<1>8. ThreadStep(t)
  BY <1>1, <1>3, <1>5, <1>6, <1>7, AfterDeploymentSteps, GroupsUnchanged
<1> QED BY <1>1, <1>8

\* Where the cache does not know the deployment there is none: a thread that has
\* come to a set whose deployment was made before would know it.
LEMMA CreateDeploymentSteps ==
    ASSUME DistinctNames, IInv, Named, Right, NEW t \in Threads, CreateDeployment(t), ~ missed'
    PROVE  Busy(t) /\ ThreadStep(t)
<1>1. Busy(t) /\ at[t] = "deployment" /\ ~ deploymentCache[Set(t).name].exists
  BY DEF CreateDeployment, Busy
<1>2. /\ SlotOf(t) \in Wanted /\ SetOf(SlotOf(t)) = Set(t) /\ Set(t).name \in Names
      /\ SlotOf(t)[1] = group[t].name /\ SlotOf(t)[2] = index[t]
  BY <1>1, SlotType DEF Right
<1>3. ~ deployments[Set(t).name].exists
  <2>1. Announced(SlotOf(t), {"prune", "deployment"})
    BY <1>1, <1>2 DEF Announced
  <2>2. ~ IsThere(SlotOf(t))
    BY <1>1, <1>2, <2>1 DEF Right, UncachedIsPassed
  <2> QED BY <1>2, <2>2 DEF IsThere
<1> DEFINE made == MakeDeployment(group[t], Set(t))
<1>4. /\ deployments' = [deployments EXCEPT ![Set(t).name] = made]
      /\ AfterDeployment(t, made)
      /\ groups' = groups /\ services' = services /\ UNCHANGED <<caches, queue>>
  BY <1>3 DEF CreateDeployment
<1>5. made.exists /\ made.owner = OwnerOf(group[t]) /\ made.replicas = Set(t).replicas
  BY DEF MakeDeployment
<1>6. deployments'[Set(t).name] = made
  BY <1>2, <1>4 DEF IInv, TypeOK
<1>7. ThreadStep(t)
  BY <1>1, <1>4, <1>5, <1>6, AfterDeploymentSteps, GroupsUnchanged
<1> QED BY <1>1, <1>7

\* With the service there, the thread goes on to the replicas, or to the next set.
LEMMA AfterServiceSteps ==
    ASSUME IInv, Right, NEW t \in Threads, Busy(t), at[t] = "service",
           GoOn(t, "replicas", found[t]) \/ NextSet(t),
           services'[group[t].name].exists, Serves(t),
           groups' = groups, UNCHANGED <<caches, queue>>, deployments' = deployments
    PROVE  ThreadStep(t)
<1>1. SameGroups /\ Made(t)
  BY GroupsUnchanged DEF Made
<1>2. LeavesRight(t)
  BY DEF LeavesRight
<1>3. CASE GoOn(t, "replicas", found[t])
  <2>1. /\ Moves(t) /\ at'[t] = "replicas" /\ found'[t] = found[t]
        /\ group'[t] = group[t] /\ index'[t] = index[t] /\ Set(t)' = Set(t)
        /\ ~ Stays(t, {"prune", "deployment"})
    <3> DEFINE d == found[t]
    <3>1. GoOn(t, "replicas", d)
      BY <1>3
    <3> HIDE DEF d
    <3>2. /\ Moves(t) /\ at'[t] = "replicas" /\ found'[t] = d
          /\ group'[t] = group[t] /\ index'[t] = index[t] /\ Set(t)' = Set(t)
          /\ \A places : Stays(t, places) <=> "replicas" \in places
      BY <3>1, GoOnMoves
    <3> QED BY <3>2 DEF d
  <2>2. FoundRight(t)
    BY DEF Right, AllFoundRight
  <2>3. FoundRight(t)'
    BY <2>1, <2>2 DEF FoundRight, OwnerOf
  <2> QED BY <1>1, <1>2, <2>1, <2>3 DEF ThreadStep
<1>4. CASE NextSet(t)
  <2>1. /\ Moves(t) /\ at'[t] \in {"idle", "deployment"}
        /\ ~ Stays(t, {"prune", "deployment"})
    BY <1>4, NextSetMoves
  <2> QED BY <1>1, <1>2, <2>1 DEF ThreadStep
<1> QED BY <1>3, <1>4

LEMMA ServiceSteps ==
    ASSUME IInv, Right, NEW t \in Threads, FindService(t) \/ CreateService(t), ~ missed'
    PROVE  Busy(t) /\ ThreadStep(t)
<1>1. Busy(t) /\ at[t] = "service"
  BY DEF FindService, CreateService, Busy
<1>2. group[t].name \in Groups /\ DOMAIN services = Groups
  BY <1>1, SlotType DEF Right, IInv, TypeOK
<1>3. CASE FindService(t)
  <2>1. services[group[t].name].exists
    BY <1>2, <1>3 DEF Right, CachesThere, FindService
  <2> QED
    BY <1>1, <1>3, <2>1, AfterServiceSteps DEF FindService, Serves, api
<1>4. CASE CreateService(t)
  <2>1. \/ services' = services /\ services[group[t].name].exists
        \/ services' = [services EXCEPT ![group[t].name] = [exists |-> TRUE, uid |-> group[t].uid]]
    BY <1>4 DEF CreateService
  <2>3. services'[group[t].name].exists /\ Serves(t)
    BY <1>2, <2>1 DEF Serves
  <2>2. GoOn(t, "replicas", found[t]) \/ NextSet(t)
    BY <1>4 DEF CreateService
  <2> QED
    BY <1>1, <1>4, <2>2, <2>3, AfterServiceSteps DEF CreateService
<1> QED BY <1>3, <1>4

\* What it has found is its own; what the update overwrites is, too.
LEMMA ReplicasSteps ==
    ASSUME DistinctNames, IInv, Named, Right, NEW t \in Threads,
           NotControlled(t) \/ SameReplicas(t) \/ UpdateReplicas(t), ~ missed'
    PROVE  Busy(t) /\ ThreadStep(t)
<1>1. Busy(t) /\ at[t] = "replicas"
  BY DEF NotControlled, SameReplicas, UpdateReplicas, Busy
<1>2. FoundRight(t)
  BY <1>1 DEF Right, AllFoundRight
<1>3. ~ NotControlled(t)
  BY <1>2 DEF NotControlled, FoundRight, IsControlledBy
<1>4. /\ SlotOf(t) \in Wanted /\ SetOf(SlotOf(t)) = Set(t) /\ Set(t).name \in Names
      /\ SlotOf(t)[1] = group[t].name
      /\ OwnerOf(groups[group[t].name]) = OwnerOf(group[t])
  BY <1>1, SlotType DEF Right
<1>5. CASE SameReplicas(t)
  <2>1. /\ GoOn(t, "status", found[t]) /\ found[t].replicas = Set(t).replicas
        /\ groups' = groups /\ deployments' = deployments /\ services' = services
        /\ UNCHANGED <<caches, queue>>
    BY <1>5 DEF SameReplicas, api
  <2>2. /\ Moves(t) /\ at'[t] = "status" /\ found'[t] = found[t]
        /\ group'[t] = group[t] /\ index'[t] = index[t] /\ Set(t)' = Set(t)
        /\ ~ Stays(t, {"prune", "deployment"})
    <3> DEFINE d == found[t]
    <3>1. GoOn(t, "status", d)
      BY <1>1, <2>1
    <3> HIDE DEF d
    <3>2. /\ Moves(t) /\ at'[t] = "status" /\ found'[t] = d
          /\ group'[t] = group[t] /\ index'[t] = index[t] /\ Set(t)' = Set(t)
          /\ \A places : Stays(t, places) <=> "status" \in places
      BY <1>1, <3>1, GoOnMoves
    <3> QED BY <3>2 DEF d
  <2>3. LeavesRight(t)
    BY <1>1, <1>2, <2>1 DEF LeavesRight, FoundRight
  <2>4. FoundRight(t)'
    BY <1>2, <2>1, <2>2 DEF FoundRight, OwnerOf
  <2> QED BY <1>1, <2>1, <2>2, <2>3, <2>4, GroupsUnchanged DEF ThreadStep, Made, Serves
<1>6. CASE UpdateReplicas(t)
  <2> DEFINE made == MakeDeployment(group[t], Set(t))
  <2>1. /\ deployments[Set(t).name].exists
        /\ deployments[Set(t).name].owner.group = group[t].name
    <3>1. deployments[Set(t).name].exists
      BY <1>2 DEF FoundRight
    <3>2. IsThere(SlotOf(t))
      BY <1>4, <3>1 DEF IsThere
    <3>3. deployments[SetOf(SlotOf(t)).name].owner = OwnerOf(groups[SlotOf(t)[1]])
      BY <1>4, <3>2, OwnIfThere DEF Right
    <3>4. deployments[Set(t).name].owner = OwnerOf(group[t])
      BY <1>4, <3>3
    <3> QED BY <3>1, <3>4 DEF OwnerOf
  <2>2. /\ deployments' = [deployments EXCEPT ![Set(t).name] = made]
        /\ GoOn(t, "status", made)
        /\ groups' = groups /\ services' = services /\ UNCHANGED <<caches, queue>>
    BY <1>6, <2>1 DEF UpdateReplicas
  <2>3. deployments'[Set(t).name] = made
    BY <1>4, <2>2 DEF IInv, TypeOK
  <2>4. made.exists /\ made.owner = OwnerOf(group[t]) /\ made.replicas = Set(t).replicas
    BY DEF MakeDeployment
  <2>5. /\ Moves(t) /\ at'[t] = "status" /\ found'[t] = made
        /\ group'[t] = group[t] /\ index'[t] = index[t] /\ Set(t)' = Set(t)
        /\ ~ Stays(t, {"prune", "deployment"})
    <3>1. GoOn(t, "status", made)
      BY <2>2
    <3> HIDE DEF made
    <3>2. /\ Moves(t) /\ at'[t] = "status" /\ found'[t] = made
          /\ group'[t] = group[t] /\ index'[t] = index[t] /\ Set(t)' = Set(t)
          /\ \A places : Stays(t, places) <=> "status" \in places
      BY <1>1, <3>1, GoOnMoves
    <3> QED BY <3>2
  <2>6. LeavesRight(t)
    BY <1>1, <2>3, <2>4 DEF LeavesRight
  <2> HIDE DEF made
  <2>7. FoundRight(t)'
    <3>1. deployments'[Set(t)'.name] = made /\ Set(t)'.replicas = Set(t).replicas
      BY <2>3, <2>5
    <3>2. OwnerOf(group[t])' = OwnerOf(group[t])
      BY <2>5 DEF OwnerOf
    <3> QED BY <2>4, <2>5, <3>1, <3>2 DEF FoundRight
  <2>8. Made(t) /\ Serves(t) /\ SameGroups
    BY <2>2, <2>5, GroupsUnchanged DEF Made, Serves, made
  <2> QED BY <1>1, <2>2, <2>5, <2>6, <2>7, <2>8 DEF ThreadStep
<1> QED BY <1>3, <1>5, <1>6

--------------------------------------------------------------------------------
(* The other actions.                                                            *)

\* A thread takes over the announcements of the object it gets.
LEMMA GetGroupAnnounces ==
    ASSUME IInv, Right, NEW t \in Threads, NEW cg \in queue, GetGroup(t, cg),
           NEW places, {"prune", "deployment"} \subseteq places,
           NEW s \in Wanted
    PROVE  Announced(s, places)' <=> Announced(s, places)
<1>1. /\ at[t] = "idle" /\ ~ Busy(t)
      /\ at'[t] \in {"prune", "deployment"} /\ group'[t] = cg /\ index'[t] = 1
      /\ queue' = queue \ {cg}
      /\ \A u \in Threads : u # t => /\ at'[u] = at[u] /\ group'[u] = group[u]
                                     /\ index'[u] = index[u]
  BY DEF GetGroup, Busy, IInv, TypeOK
<1>2. s[2] \in Nat /\ 1 <= s[2]
  BY WantedType
<1>3. CASE cg.name = s[1]
  <2>1. Announced(s, places)
    BY <1>3 DEF Announced
  <2>2. Busy(t)' /\ group'[t].name = s[1]
    BY <1>1, <1>3 DEF Busy
  <2>3. index'[t] < s[2] \/ (index'[t] = s[2] /\ at'[t] \in places)
    BY <1>1, <1>2
  <2> QED BY <2>1, <2>2, <2>3 DEF Announced
<1>4. CASE cg.name # s[1]
  <2>1. (\E c \in queue' : c.name = s[1]) <=> (\E c \in queue : c.name = s[1])
    BY <1>1, <1>4
  <2>2. \A u \in Threads :
           (/\ Busy(u)'
            /\ group'[u].name = s[1]
            /\ index'[u] < s[2] \/ (index'[u] = s[2] /\ at'[u] \in places))
           <=> (/\ Busy(u)
                /\ group[u].name = s[1]
                /\ index[u] < s[2] \/ (index[u] = s[2] /\ at[u] \in places))
    BY <1>1, <1>4 DEF Busy
  <2> QED BY <2>1, <2>2 DEF Announced
<1> QED BY <1>3, <1>4

LEMMA GetGroupComes ==
    ASSUME IInv, Right, Coming, NEW t \in Threads, NEW cg \in queue, GetGroup(t, cg)
    PROVE  Right' /\ Coming'
<1>1. /\ at[t] = "idle" /\ ~ Busy(t)
      /\ at'[t] \in {"prune", "deployment"} /\ group'[t] = cg
      /\ queue' = queue \ {cg}
      /\ \A u \in Threads : u # t => /\ at'[u] = at[u] /\ group'[u] = group[u]
                                     /\ index'[u] = index[u] /\ found'[u] = found[u]
      /\ groups' = groups /\ deployments' = deployments /\ services' = services
      /\ deploymentCache' = deploymentCache /\ serviceCache' = serviceCache
  BY DEF GetGroup, Busy, IInv, TypeOK, api, caches
<1>2. /\ Wanted' = Wanted /\ Fresh' = Fresh
      /\ \A s \in Wanted : /\ SetOf(s)' = SetOf(s)
                           /\ IsThere(s)' = IsThere(s) /\ IsScaled(s)' = IsScaled(s)
  <2>1. Wanted' = Wanted /\ Fresh' = Fresh /\ \A s \in Wanted : SetOf(s)' = SetOf(s)
    BY <1>1, GroupsUnchanged, SameWanted
  <2> QED BY <1>1, <2>1 DEF IsThere, IsScaled
<1>3. FreshSnapshots'
  BY <1>1, <1>2 DEF Right, FreshSnapshots, Busy
<1>4. OwnersThere' /\ CachesThere'
  BY <1>1 DEF Right, OwnersThere, CachesThere, Orphaned
<1>5. LagIsRight'
  BY <1>1, <1>2 DEF Right, LagIsRight
<1>6. AllFoundRight'
  <2> SUFFICES ASSUME NEW u \in Threads, at'[u] \in {"service", "replicas", "status"}
               PROVE  FoundRight(u)'
    BY DEF AllFoundRight
  <2>1. u # t
    BY <1>1
  <2>2. FoundRight(u) /\ Set(u)' = Set(u)
    BY <1>1, <2>1 DEF Right, AllFoundRight, Set, Sets
  <2> QED BY <1>1, <2>1, <2>2 DEF FoundRight, OwnerOf
<1>7. Alone'
  BY <1>1 DEF Right, Alone, Busy
<1>8. UncachedIsPassed'
  <2> SUFFICES ASSUME NEW s \in Wanted, IsThere(s), ~ deploymentCache[SetOf(s).name].exists
               PROVE  ~ Announced(s, {"prune", "deployment"})'
    BY <1>1, <1>2 DEF UncachedIsPassed
  <2> QED BY GetGroupAnnounces DEF Right, UncachedIsPassed
<1>9. Coming'
  <2>1. \A s \in Wanted :
           /\ Announced(s, {"prune", "deployment"})' <=> Announced(s, {"prune", "deployment"})
           /\ Announced(s, {"prune", "deployment", "service"})' <=>
                 Announced(s, {"prune", "deployment", "service"})
           /\ Announced(s, {"prune", "deployment", "replicas"})' <=>
                 Announced(s, {"prune", "deployment", "replicas"})
    BY GetGroupAnnounces
  <2>2. DeploymentsComing'
    BY <1>2, <2>1 DEF Coming, DeploymentsComing
  <2>3. ServicesComing'
    BY <1>1, <1>2, <2>1 DEF Coming, ServicesComing
  <2>4. ReplicasComing'
    BY <1>2, <2>1 DEF Coming, ReplicasComing
  <2> QED BY <2>2, <2>3, <2>4 DEF Coming
<1> QED BY <1>3, <1>4, <1>5, <1>6, <1>7, <1>8, <1>9 DEF Right

\* Nothing that is announced depends on objects and caches.
LEMMA SameAnnouncements ==
    ASSUME UNCHANGED <<queue, thread>>, NEW s, NEW places
    PROVE  Announced(s, places)' <=> Announced(s, places)
BY DEF Announced, Busy, thread

LEMMA DeliverComes ==
    ASSUME IInv, Right, Coming, Deliver
    PROVE  Right' /\ Coming'
<1>1. /\ groups' = groups /\ deployments' = deployments /\ services' = services
      /\ queue' = queue /\ UNCHANGED thread
  BY DEF Deliver, DeliverDeployment, DeliverService, api
<1>2. \A n \in Names : \/ deploymentCache'[n] = deploymentCache[n]
                       \/ deploymentCache'[n] = deployments[n]
  BY DEF Deliver, DeliverDeployment, DeliverService, IInv, TypeOK
<1>3. \A g \in Groups : \/ serviceCache'[g] = serviceCache[g]
                        \/ serviceCache'[g] = services[g]
  BY DEF Deliver, DeliverDeployment, DeliverService, IInv, TypeOK
<1>4. /\ Wanted' = Wanted /\ Fresh' = Fresh
      /\ \A s \in Wanted : /\ SetOf(s)' = SetOf(s) /\ SetOf(s).name \in Names
                           /\ IsThere(s)' = IsThere(s) /\ IsScaled(s)' = IsScaled(s)
  <2>1. Wanted' = Wanted /\ Fresh' = Fresh /\ \A s \in Wanted : SetOf(s)' = SetOf(s)
    BY <1>1, GroupsUnchanged, SameWanted
  <2> QED BY <1>1, <2>1, WantedType DEF IsThere, IsScaled
<1>5. FreshSnapshots' /\ Alone'
  BY <1>1, <1>4 DEF Right, FreshSnapshots, Alone, Busy, thread
<1>6. OwnersThere'
  BY <1>1 DEF Right, OwnersThere, Orphaned
<1>7. CachesThere'
  BY <1>1, <1>2, <1>3 DEF Right, CachesThere
<1>8. LagIsRight'
  BY <1>1, <1>2, <1>4 DEF Right, LagIsRight
<1>9. AllFoundRight'
  BY <1>1 DEF Right, AllFoundRight, FoundRight, Set, Sets, OwnerOf, thread
<1>10. UncachedIsPassed'
  <2> SUFFICES ASSUME NEW s \in Wanted, IsThere(s), ~ deploymentCache'[SetOf(s).name].exists
               PROVE  ~ Announced(s, {"prune", "deployment"})'
    BY <1>4 DEF UncachedIsPassed
  <2>1. ~ deploymentCache[SetOf(s).name].exists
    BY <1>2, <1>4 DEF IsThere
  <2> QED BY <1>1, <2>1, SameAnnouncements DEF Right, UncachedIsPassed
<1>11. Coming'
  <2>1. DeploymentsComing'
    BY <1>1, <1>4, SameAnnouncements DEF Coming, DeploymentsComing
  <2>2. ServicesComing'
    BY <1>1, <1>4, SameAnnouncements DEF Coming, ServicesComing
  <2>3. ReplicasComing'
    BY <1>1, <1>4, SameAnnouncements DEF Coming, ReplicasComing
  <2> QED BY <2>1, <2>2, <2>3 DEF Coming
<1> QED BY <1>5, <1>6, <1>7, <1>8, <1>9, <1>10, <1>11 DEF Right

\* A new group has no deployments: those of an earlier one would have been left
\* to the garbage collector, and the deletion of that one missed.
LEMMA CreateGroupComes ==
    ASSUME DistinctNames, IInv, Named, IInv', Named', Right, Coming,
           NEW g \in Groups, CreateGroup(g)
    PROVE  Right' /\ Coming'
<1> DEFINE cg == NewGroup(g, TRUE, groups[g].uid + 1, groups[g].rv + 1)
<1>1. /\ groups' = [groups EXCEPT ![g] = cg] /\ queue' = queue \cup {cg}
      /\ deployments' = deployments /\ services' = services
      /\ deploymentCache' = deploymentCache /\ serviceCache' = serviceCache
      /\ UNCHANGED thread /\ ~ groups[g].exists
  BY DEF CreateGroup, caches
<1>2. cg.exists /\ cg.name = g
  BY DEF NewGroup
<1> HIDE DEF cg
<1>3. groups'[g] = cg /\ \A h \in Groups : h # g => groups'[h] = groups[h]
  BY <1>1 DEF IInv, TypeOK
<1>4. \A h \in Groups : \A uid : ~ Orphaned(h, uid) => h # g
  BY <1>1 DEF Orphaned
<1>5. /\ \A c \in queue : c.name # g
      /\ \A t \in Threads : Busy(t) => group[t].name # g
  BY <1>1 DEF Right, FreshSnapshots, Fresh
<1>6. FreshSnapshots'
  <2>1. cg \in KnownGroup
    BY <1>1 DEF IInv, Known
  <2>2. cg \in Fresh'
    BY <1>2, <1>3, <2>1 DEF Fresh
  <2>3. ASSUME NEW c \in Fresh, c.name # g PROVE c \in Fresh'
    BY <1>3, <2>3 DEF Fresh, KnownGroup, Group
  <2>4. queue' \subseteq Fresh'
    BY <1>1, <1>5, <2>2, <2>3 DEF Right, FreshSnapshots
  <2>5. \A t \in Threads : Busy(t)' => group'[t] \in Fresh'
    BY <1>1, <1>5, <2>3 DEF Right, FreshSnapshots, Busy, thread
  <2> QED BY <2>4, <2>5 DEF FreshSnapshots
<1>7. OwnersThere'
  <2>1. \A h \in Groups : \A uid : ~ Orphaned(h, uid) => ~ Orphaned(h, uid)'
    BY <1>3, <1>4 DEF Orphaned
  <2>2. \A n \in Names : deployments[n].owner.group \in Groups
    BY DEF IInv, TypeOK, Deployment, Owner
  <2>3. ASSUME NEW n \in Names, deployments'[n].exists
        PROVE  ~ Orphaned(deployments[n].owner.group, deployments[n].owner.uid)'
    <3>1. ~ Orphaned(deployments[n].owner.group, deployments[n].owner.uid)
      BY <1>1, <2>3 DEF Right, OwnersThere
    <3> QED BY <1>1, <1>3, <1>4, <2>2, <3>1 DEF Orphaned
  <2>4. ASSUME NEW h \in Groups, services'[h].exists
        PROVE  ~ Orphaned(h, services[h].uid)'
    <3>1. ~ Orphaned(h, services[h].uid)
      BY <1>1, <2>4 DEF Right, OwnersThere
    <3> QED BY <1>1, <1>3, <1>4, <3>1 DEF Orphaned
  <2> QED BY <2>3, <2>4 DEF OwnersThere
<1>8. CachesThere'
  BY <1>1 DEF Right, CachesThere
<1>9. ASSUME NEW s \in Wanted', s[1] # g
      PROVE  s \in Wanted /\ SetOf(s)' = SetOf(s)
  <2>1. s[1] \in Groups /\ groups'[s[1]] = groups[s[1]]
    BY <1>3, <1>9 DEF Wanted
  <2> QED BY <1>9, <2>1 DEF Wanted, SetOf, Sets
<1>10. ASSUME NEW s \in Wanted', s[1] = g
       PROVE  ~ IsThere(s)'
  <2> SUFFICES ASSUME IsThere(s)' PROVE FALSE
    OBVIOUS
  <2>1. /\ s[2] \in DOMAIN Specs[g][1]
        /\ SetOf(s)' = Specs[g][1][s[2]]
    <3>1. Sets(cg) = Specs[g][1]
      BY DEF Sets, NewGroup, cg
    <3>2. Sets(groups'[s[1]]) = Sets(cg)
      BY <1>3, <1>10
    <3>3. s[2] \in DOMAIN Sets(groups'[s[1]])
      BY <1>10 DEF Wanted
    <3>4. SetOf(s)' = Sets(groups'[s[1]])[s[2]]
      BY DEF SetOf, Sets
    <3> QED BY <3>1, <3>2, <3>3, <3>4
  <2>2. 1 \in DOMAIN Specs[g] /\ Specs[g][1] \in Seq(SetSpec)
    <3>1. 1 \in DOMAIN Specs[g]
      BY AnyGroupType DEF KnownGroup, NoGroup, NewGroup
    <3>2. Specs[g] \in Seq(Seq(SetSpec))
      BY GroupSyncAssumption
    <3> QED BY <3>1, <3>2
  <2> DEFINE i == s[2]
             n == Specs[g][1][i].name
  <2>3. i \in DOMAIN Specs[g][1] /\ n \in Names
    <3>1. i \in DOMAIN Specs[g][1]
      BY <2>1
    <3> HIDE DEF i
    <3>2. Specs[g][1][i] \in SetSpec
      BY <2>2, <3>1
    <3> QED BY <3>1, <3>2 DEF SetSpec
  <2>4. deployments[n].exists
    <3>1. deployments'[SetOf(s)'.name].exists
      BY DEF IsThere
    <3> QED BY <1>1, <2>1, <3>1
  <2>5. deployments[n].owner.group = g
    <3> DEFINE w == 1
    <3>1. w \in DOMAIN Specs[g] /\ i \in DOMAIN Specs[g][w] /\ Specs[g][w][i].name = n
      BY <2>2, <2>3
    <3> HIDE DEF i, w, n
    <3> QED BY <2>3, <2>4, <3>1, OwnerByName
  <2> HIDE DEF n
  <2> QED BY <1>1, <2>3, <2>4, <2>5 DEF Right, OwnersThere, Orphaned
<1>11. LagIsRight'
  <2> SUFFICES ASSUME NEW s \in Wanted', IsThere(s)'
               PROVE  IsScaled(s)' \/ (deploymentCache[SetOf(s).name] = deployments[SetOf(s).name])'
    BY DEF LagIsRight
  <2>1. s[1] # g
    BY <1>10
  <2>2. s \in Wanted /\ SetOf(s)' = SetOf(s)
    BY <1>9, <2>1
  <2> QED BY <1>1, <2>2 DEF Right, LagIsRight, IsThere, IsScaled
<1>12. AllFoundRight'
  BY <1>1 DEF Right, AllFoundRight, FoundRight, Set, Sets, OwnerOf, thread
<1>13. Alone'
  BY <1>1, <1>2, <1>5 DEF Right, Alone, Busy, thread
<1>14. ASSUME NEW s \in Wanted', s[1] # g, NEW places
       PROVE  Announced(s, places)' <=> Announced(s, places)
  BY <1>1, <1>2, <1>14 DEF Announced, Busy, thread
<1>15. UncachedIsPassed'
  <2> SUFFICES ASSUME NEW s \in Wanted', IsThere(s)', ~ deploymentCache'[SetOf(s)'.name].exists
               PROVE  ~ Announced(s, {"prune", "deployment"})'
    BY DEF UncachedIsPassed
  <2>1. s[1] # g
    BY <1>10
  <2>2. s \in Wanted /\ SetOf(s)' = SetOf(s)
    BY <1>9, <2>1
  <2> QED BY <1>1, <1>14, <2>1, <2>2 DEF Right, UncachedIsPassed, IsThere
<1>16. ASSUME NEW s \in Wanted', s[1] = g, NEW places
       PROVE  Announced(s, places)'
  BY <1>1, <1>2, <1>16 DEF Announced
<1>17. Coming'
  <2>1. DeploymentsComing'
    <3> SUFFICES ASSUME NEW s \in Wanted'
                 PROVE  IsThere(s)' \/ Announced(s, {"prune", "deployment"})'
      BY DEF DeploymentsComing
    <3> QED BY <1>1, <1>9, <1>14, <1>16 DEF Coming, DeploymentsComing, IsThere
  <2>2. ServicesComing'
    <3> SUFFICES ASSUME NEW s \in Wanted'
                 PROVE  \/ s[2] # 1 \/ services'[s[1]].exists
                        \/ Announced(s, {"prune", "deployment", "service"})'
      BY DEF ServicesComing
    <3> QED BY <1>1, <1>9, <1>14, <1>16 DEF Coming, ServicesComing
  <2>3. ReplicasComing'
    <3> SUFFICES ASSUME NEW s \in Wanted'
                 PROVE  \/ SetOf(s)'.leader \/ IsScaled(s)'
                        \/ Announced(s, {"prune", "deployment", "replicas"})'
      BY DEF ReplicasComing
    <3> QED BY <1>1, <1>9, <1>14, <1>16 DEF Coming, ReplicasComing, IsScaled
  <2> QED BY <2>1, <2>2, <2>3 DEF Coming
<1> QED BY <1>6, <1>7, <1>8, <1>11, <1>12, <1>13, <1>15, <1>17 DEF Right

\* After a restart that misses nothing every group is in the queue, and the cache
\* of deployments is not behind.
LEMMA CrashComes ==
    ASSUME IInv, IInv', Crash, ~ missed'
    PROVE  Right' /\ Coming'
<1>1. /\ queue' = {groups[g] : g \in {h \in Groups : groups[h].exists}}
      /\ groups' = groups /\ deployments' = deployments /\ services' = services
      /\ deploymentCache' = deployments
      /\ serviceCache' = [g \in Groups |-> NoService]
      /\ at' = [t \in Threads |-> "idle"]
  BY DEF Crash, Restarted, api
<1>2. \A t \in Threads : at'[t] = "idle"
  BY <1>1
<1>3. \A g \in Groups : groups[g] \in KnownGroup /\ groups[g].name = g
  BY DEF IInv, Known
<1>4. /\ \A n \in Names : deployments[n].exists =>
            ~ Orphaned(deployments[n].owner.group, deployments[n].owner.uid)
      /\ \A g \in Groups : services[g].exists => ~ Orphaned(g, services[g].uid)
  BY DEF Crash, Restarted
<1>5. FreshSnapshots'
  BY <1>1, <1>2, <1>3 DEF FreshSnapshots, Fresh, Busy
<1>6. OwnersThere'
  BY <1>1, <1>4 DEF OwnersThere, Orphaned
<1>7. CachesThere'
  BY <1>1 DEF CachesThere, NoService
<1>8. LagIsRight'
  BY <1>1 DEF LagIsRight
<1>9. AllFoundRight'
  BY <1>2 DEF AllFoundRight
<1>10. Alone'
  BY <1>1, <1>2, <1>3 DEF Alone, Busy
<1>11. UncachedIsPassed'
  BY <1>1 DEF UncachedIsPassed, IsThere
<1>12. ASSUME NEW s \in Wanted', NEW places
       PROVE  Announced(s, places)'
  <2>1. s[1] \in Groups /\ groups[s[1]].exists
    BY <1>1, <1>12 DEF Wanted
  <2>2. groups[s[1]] \in queue' /\ groups[s[1]].name = s[1]
    BY <1>1, <1>3, <2>1
  <2> QED BY <2>2 DEF Announced
<1>13. Coming'
  BY <1>12 DEF Coming, DeploymentsComing, ServicesComing, ReplicasComing
<1> QED BY <1>5, <1>6, <1>7, <1>8, <1>9, <1>10, <1>11, <1>13 DEF Right

--------------------------------------------------------------------------------
(* The theorem.                                                                  *)

LEMMA InitNotMissed == Init => WhileNotMissed
<1> SUFFICES ASSUME Init PROVE WhileNotMissed
  OBVIOUS
<1>1. IInv
  BY InitHolds
<1>2. /\ \A n \in Names : ~ deployments[n].exists
      /\ \A g \in Groups : ~ services[g].exists /\ ~ groups[g].exists
      /\ deploymentCache = deployments /\ serviceCache = services
      /\ queue = {} /\ \A t \in Threads : at[t] = "idle"
  BY DEF Init, NoDeployment, NoService, NoGroup, NewGroup
<1>3. Named
  BY <1>2 DEF Named
<1>4. Wanted = {}
  BY <1>2 DEF Wanted
<1>5. Coming
  BY <1>4 DEF Coming, DeploymentsComing, ServicesComing, ReplicasComing
<1>6. FreshSnapshots /\ OwnersThere /\ CachesThere /\ AllFoundRight /\ Alone
  BY <1>2 DEF FreshSnapshots, OwnersThere, CachesThere, AllFoundRight, Alone, Busy
<1>7. LagIsRight /\ UncachedIsPassed
  BY <1>4 DEF LagIsRight, UncachedIsPassed
<1> QED BY <1>1, <1>3, <1>5, <1>6, <1>7 DEF WhileNotMissed, Right

\* Only a restart makes up for what has been missed.
LEMMA MissedStays ==
    ASSUME IInv, Next, ~ Crash, ~ missed'
    PROVE  ~ missed
<1>1. CASE Environment
  BY <1>1 DEF Environment, CreateGroup, UpdateGroup, DeleteGroup, CollectService,
              DeleteDeployment, CollectDeployment
<1>2. CASE Deliver
  BY <1>2 DEF Deliver, DeliverDeployment, DeliverService
<1>3. ASSUME NEW t \in Threads, ProcessNextComputeGroup(t)
      PROVE  ~ missed
  <2>1. CASE \/ \E cg \in queue : GetGroup(t, cg)
             \/ PruneStatus(t) \/ FindDeployment(t) \/ FindService(t)
             \/ NotControlled(t) \/ SameReplicas(t) \/ UpdateStatus(t)
    BY <2>1 DEF GetGroup, PruneStatus, FindDeployment, FindService,
                NotControlled, SameReplicas, UpdateStatus
  <2>2. CASE CreateDeployment(t)
    BY <2>2 DEF CreateDeployment
  <2>3. CASE CreateService(t)
    BY <2>3 DEF CreateService
  <2>4. CASE UpdateReplicas(t)
    BY <2>4 DEF UpdateReplicas
  <2> QED BY <1>3, <2>1, <2>2, <2>3, <2>4 DEF ProcessNextComputeGroup
<1> QED BY <1>1, <1>2, <1>3 DEF Next

LEMMA NextNotMissed ==
    ASSUME DistinctNames, WhileNotMissed, [Next]_vars
    PROVE  WhileNotMissed'
<1>1. IInv /\ IInv' /\ Named /\ Named'
  BY NextKeeps, NextNamed DEF WhileNotMissed
<1> SUFFICES ASSUME ~ missed' PROVE Right' /\ Coming'
  BY <1>1 DEF WhileNotMissed
<1>2. CASE UNCHANGED vars
  <2>1. ~ missed /\ Right /\ Coming
    BY <1>2 DEF vars, WhileNotMissed
  <2>2. Right'
    <3>1. FreshSnapshots' /\ OwnersThere' /\ CachesThere' /\ Alone'
      BY <1>2, <2>1 DEF vars, Right, FreshSnapshots, Fresh, OwnersThere, Orphaned,
                        CachesThere, Alone, Busy
    <3>2. LagIsRight' /\ AllFoundRight'
      BY <1>2, <2>1 DEF vars, Right, LagIsRight, Wanted, IsThere, IsScaled, SetOf, Sets,
                        AllFoundRight, FoundRight, Set, OwnerOf
    <3>3. UncachedIsPassed'
      BY <1>2, <2>1 DEF vars, Right, UncachedIsPassed, Wanted, IsThere, SetOf, Sets,
                        Announced, Busy
    <3> QED BY <3>1, <3>2, <3>3 DEF Right
  <2>3. Coming'
    <3>1. DeploymentsComing'
      BY <1>2, <2>1 DEF vars, Coming, DeploymentsComing, Wanted, IsThere, SetOf, Sets,
                        Announced, Busy
    <3>2. ServicesComing'
      BY <1>2, <2>1 DEF vars, Coming, ServicesComing, Wanted, Sets, Announced, Busy
    <3>3. ReplicasComing'
      BY <1>2, <2>1 DEF vars, Coming, ReplicasComing, Wanted, IsScaled, SetOf, Sets,
                        Announced, Busy
    <3> QED BY <3>1, <3>2, <3>3 DEF Coming
  <2> QED BY <2>2, <2>3
<1>3. CASE Crash
  BY <1>1, <1>3, CrashComes
<1>4. CASE Next /\ ~ Crash
  <2>1. Right /\ Coming
    BY <1>1, <1>4, MissedStays DEF WhileNotMissed
  <2>2. CASE Environment
    <3>1. ASSUME NEW g \in Groups, CreateGroup(g) PROVE Right' /\ Coming'
      BY <1>1, <2>1, <3>1, CreateGroupComes
    <3>2. ASSUME NEW g \in Groups, UpdateGroup(g) \/ DeleteGroup(g) PROVE FALSE
      BY <3>2 DEF UpdateGroup, DeleteGroup
    <3>3. ASSUME NEW n \in Names, DeleteDeployment(n) PROVE FALSE
      BY <3>3 DEF DeleteDeployment
    <3>4. ASSUME NEW g \in Groups, CollectService(g) PROVE FALSE
      BY <2>1, <3>4 DEF CollectService, Right, OwnersThere
    <3>5. ASSUME NEW n \in Names, CollectDeployment(n) PROVE FALSE
      BY <2>1, <3>5 DEF CollectDeployment, Right, OwnersThere
    <3> QED BY <2>2, <3>1, <3>2, <3>3, <3>4, <3>5 DEF Environment
  <2>3. CASE Deliver
    BY <1>1, <2>1, <2>3, DeliverComes
  <2>4. ASSUME NEW t \in Threads, ProcessNextComputeGroup(t) PROVE Right' /\ Coming'
    <3>1. ASSUME NEW cg \in queue, GetGroup(t, cg) PROVE Right' /\ Coming'
      BY <1>1, <2>1, <3>1, GetGroupComes
    <3>2. ASSUME ~ \E cg \in queue : GetGroup(t, cg) PROVE Busy(t) /\ ThreadStep(t)
      BY <1>1, <2>1, <2>4, <3>2, PruneStatusSteps, FindDeploymentSteps,
         CreateDeploymentSteps, ServiceSteps, ReplicasSteps, UpdateStatusSteps
         DEF ProcessNextComputeGroup
    <3> QED BY <1>1, <2>1, <3>1, <3>2, ThreadKeeps
  <2> QED BY <1>4, <2>2, <2>3, <2>4 DEF Next
<1> QED BY <1>2, <1>3, <1>4

\* What nothing announces is as it should be.
LEMMA QuietIsDeployed ==
    ASSUME DistinctNames, WhileNotMissed
    PROVE  DeployedWhenQuiet
<1> SUFFICES ASSUME Quiet, ~ missed, NEW g \in Groups, groups[g].exists
             PROVE  /\ services[g].exists
                    /\ \A i \in DOMAIN Sets(groups[g]) :
                          LET set == Sets(groups[g])[i] IN
                          /\ Deployed(groups[g], set)
                          /\ ~ set.leader => deployments[set.name].replicas = set.replicas
  BY DEF DeployedWhenQuiet
<1>1. IInv /\ Named /\ Right /\ Coming
  BY DEF WhileNotMissed
<1>2. \A s \in Wanted : \A places : ~ Announced(s, places)
  BY DEF Quiet, Announced, Busy
<1>3. groups[g] \in KnownGroup
  BY <1>1 DEF IInv, Known
<1>4. ASSUME NEW i \in DOMAIN Sets(groups[g])
      PROVE  <<g, i>> \in Wanted
  BY <1>3, <1>4, SetsType DEF Wanted
<1>5. services[g].exists
  <2>1. <<g, 1>> \in Wanted
    BY <1>3, <1>4, SetsType
  <2> QED BY <1>1, <1>2, <2>1 DEF Coming, ServicesComing
<1>6. ASSUME NEW i \in DOMAIN Sets(groups[g])
      PROVE  /\ Deployed(groups[g], Sets(groups[g])[i])
             /\ ~ Sets(groups[g])[i].leader =>
                   deployments[Sets(groups[g])[i].name].replicas = Sets(groups[g])[i].replicas
  <2> DEFINE s == <<g, i>>
  <2>1. s \in Wanted /\ SetOf(s) = Sets(groups[g])[i] /\ s[1] = g
    BY <1>4 DEF SetOf
  <2> HIDE DEF s
  <2>2. IsThere(s)
    BY <1>1, <1>2, <2>1 DEF Coming, DeploymentsComing
  <2>3. deployments[SetOf(s).name].owner = OwnerOf(groups[g])
    BY <1>1, <2>1, <2>2, OwnIfThere DEF Right
  <2>4. SetOf(s).leader \/ IsScaled(s)
    BY <1>1, <1>2, <2>1 DEF Coming, ReplicasComing
  <2> QED BY <2>1, <2>2, <2>3, <2>4 DEF Deployed, IsControlledBy, IsThere, IsScaled
<1> QED BY <1>5, <1>6

\* At rest every group has its service and every set its own deployment with the
\* replicas of the spec: for any number of threads, restarts, failed calls, edits
\* and deletions, as long as no two sets can have one name, and unless something
\* has happened since the start that the controller does not react to or retry.
THEOREM DeploysWhenQuiet ==
    ASSUME DistinctNames
    PROVE  Spec => []DeployedWhenQuiet
<1>1. WhileNotMissed /\ [Next]_vars => WhileNotMissed'
  BY NextNotMissed
<1>2. WhileNotMissed => DeployedWhenQuiet
  BY QuietIsDeployed
<1> QED BY <1>1, <1>2, InitNotMissed, PTL DEF Spec
================================================================================

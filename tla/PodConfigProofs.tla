----------------------------- MODULE PodConfigProofs -----------------------------
(* Proofs about PodConfig, for every set of groups and every instance spec.        *)
EXTENDS PodConfig, TLAPS

\* Deployments, services and refusals are those of the sets in the groups' specs.
DeploymentsMade ==
    \A d \in deployments : \E g \in Groups : \E i \in DOMAIN sets[g] : d = MakeDeployment(g, i)

ServicesMade ==
    \A s \in services : \E g \in Groups :
        1 \in DOMAIN sets[g] /\ s = MakeService(g.name, MakeDeployment(g, 1))

RefusalsMade ==
    \A r \in refused :
        /\ r.group \in Groups
        /\ r.set \in DOMAIN sets[r.group]
        /\ IF r.kind = "deployment" THEN ~ AdmitsDeployment(MakeDeployment(r.group, r.set))
           ELSE ~ AdmitsService(MakeService(r.group.name, MakeDeployment(r.group, r.set)))

Made == DeploymentsMade /\ ServicesMade /\ RefusalsMade

\* A spec, once written, is not written again (groups are only created here).
SetsKept == \A g \in Groups : sets[g] # <<>> => sets'[g] = sets[g]

LEMMA SpecOfSet ==
  ASSUME TypeOK, NEW g \in Groups, NEW i \in DOMAIN sets[g]
  PROVE  sets[g][i] \in Instance /\ i \in Nat /\ 1 \in DOMAIN sets[g]
  BY DEF TypeOK

\* Two names are the same if a namespace in front of them makes them so.
LEMMA Cancel ==
  ASSUME NEW a \in Seq(STRING), NEW b \in Seq(STRING), NEW c \in Seq(STRING),
         a \o b = a \o c
  PROVE  b = c
<1>1. Len(b) = Len(c)
  <2>1. Len(a \o b) = Len(a) + Len(b) /\ Len(a \o c) = Len(a) + Len(c)
    OBVIOUS
  <2> QED  BY <2>1
<1>2. ASSUME NEW i \in 1..Len(b)
      PROVE  b[i] = c[i]
  <2>1. (a \o b)[Len(a) + i] = b[i]
    OBVIOUS
  <2>2. (a \o c)[Len(a) + i] = c[i]
    BY <1>1
  <2> QED  BY <2>1, <2>2
<1>3. /\ b = [i \in 1..Len(b) |-> b[i]]
      /\ c = [i \in 1..Len(c) |-> c[i]]
  OBVIOUS
<1> QED  BY <1>1, <1>2, <1>3

\* Every step keeps the specs that are written.
LEMMA StepKeepsSets ==
  ASSUME TypeOK, [Next]_vars
  PROVE  SetsKept
<1>1. ASSUME NEW g \in Groups, CreateGroup(g)
      PROVE  SetsKept
  BY <1>1 DEF CreateGroup, SetsKept, TypeOK
<1>2. ASSUME NEW g \in Groups, Sync(g)
      PROVE  SetsKept
  BY <1>2 DEF Sync, SetsKept
<1>3. ASSUME NEW op, NEW l \in deployments, NEW f \in deployments, Post(op, l, f)
      PROVE  SetsKept
  BY <1>3 DEF Post, SetsKept
<1>4. CASE UNCHANGED vars
  BY <1>4 DEF vars, SetsKept
<1> QED  BY <1>1, <1>2, <1>3, <1>4 DEF Next

LEMMA KeptSet ==
  ASSUME TypeOK, SetsKept, NEW g \in Groups, NEW i \in DOMAIN sets[g]
  PROVE  sets'[g] = sets[g] /\ MakeDeployment(g, i)' = MakeDeployment(g, i)
<1>1. sets[g] # <<>>
  BY DEF TypeOK
<1>2. sets'[g] = sets[g]
  BY <1>1 DEF SetsKept
<1> QED  BY <1>2 DEF MakeDeployment

\* What BuildPodConfig finds in the environment is what the spec says, and what
\* the ports of the container say.
LEMMA ConfigOfSet ==
  ASSUME TypeOK, NEW g \in Groups, NEW i \in DOMAIN sets[g]
  PROVE  LET d == MakeDeployment(g, i) IN
         /\ BuildPodConfig(d) = [HTTPPort |-> Digits(sets[g][i].httpPort),
                                 RPCPort |-> Digits(sets[g][i].rpcPort),
                                 Priority |-> Digits(sets[g][i].priority)]
         /\ d.container.ports[d.container.probe] = sets[g][i].httpPort
         /\ d.container.ports.rpc = sets[g][i].rpcPort
         /\ d.namespace = g.namespace
         /\ d.name = [group |-> g.name, set |-> i]
         /\ PodOf(d) \in Pod
<1>1. PodOf(MakeDeployment(g, i)) \in Pod
  BY SpecOfSet, PodConfigAssumption DEF PodOf, MakeDeployment, Pod, SetNames
<1> QED
  BY <1>1 DEF MakeDeployment, BuildPodConfig, PortIn, convertInstanceSpecToPodSpec, makeEnvs, makePorts

\* What a request says, in terms of the specs it was made from.
LEMMA RequestOfSets ==
  ASSUME TypeOK, DeploymentsMade, NEW op \in {"add", "remove"},
         NEW l \in deployments, NEW f \in deployments, Post(op, l, f)
  PROVE  request' \in Request /\ RequestsReach'
<1>1a. PICK g \in Groups : \E i \in DOMAIN sets[g] : l = MakeDeployment(g, i)
  BY DEF DeploymentsMade
<1>1. PICK i \in DOMAIN sets[g] : l = MakeDeployment(g, i)
  BY <1>1a
<1>2a. PICK h \in Groups : \E j \in DOMAIN sets[h] : f = MakeDeployment(h, j)
  BY DEF DeploymentsMade
<1>2. PICK j \in DOMAIN sets[h] : f = MakeDeployment(h, j)
  BY <1>2a
<1>3. /\ BuildPodConfig(l).HTTPPort = Digits(sets[g][i].httpPort)
      /\ l.container.ports[l.container.probe] = sets[g][i].httpPort
      /\ PodOf(l) \in Pod
  <2>1. BuildPodConfig(l).HTTPPort = Digits(sets[g][i].httpPort)
    <3>1. BuildPodConfig(l) = [HTTPPort |-> Digits(sets[g][i].httpPort),
                               RPCPort |-> Digits(sets[g][i].rpcPort),
                               Priority |-> Digits(sets[g][i].priority)]
      BY <1>1, ConfigOfSet, Zenon
    <3> QED  BY <3>1
  <2>2. l.container.ports[l.container.probe] = sets[g][i].httpPort
    BY <1>1, ConfigOfSet, Zenon
  <2> QED  BY <1>1, <2>1, <2>2, ConfigOfSet
<1>4. /\ BuildPodConfig(f).RPCPort = Digits(sets[h][j].rpcPort)
      /\ BuildPodConfig(f).Priority = Digits(sets[h][j].priority)
      /\ f.container.ports.rpc = sets[h][j].rpcPort
      /\ f.namespace = h.namespace /\ f.name = [group |-> h.name, set |-> j]
      /\ PodOf(f) \in Pod
  BY <1>2, ConfigOfSet
<1>5. request' = [op |-> op, to |-> PodOf(l), port |-> Digits(sets[g][i].httpPort),
                  node |-> PodOf(f), rpcPort |-> Digits(sets[h][j].rpcPort),
                  priority |-> sets[h][j].priority]
  BY <1>3, <1>4 DEF Post, ClusterNodeRequest, Atoi, Digits
<1>6. /\ sets[g][i].httpPort \in Nat
      /\ sets[h][j].rpcPort \in Nat /\ sets[h][j].priority \in Nat
  BY SpecOfSet DEF Instance
<1>7. request' \in Request
  BY <1>3, <1>4, <1>5, <1>6 DEF Request, Number, Digits
<1>8. UNCHANGED <<sets, deployments>> /\ IsGroupLeader(l) /\ IsGroupWorker(f)
  BY DEF Post
<1>9. RequestsReach'
  BY <1>3, <1>4, <1>5, <1>8 DEF RequestsReach, Atoi, Digits, IsGroupLeader, IsGroupWorker, PodOf
<1> QED  BY <1>7, <1>9

\* A synced set is a set of the spec: its deployment can be built.
LEMMA SyncOfSet ==
  ASSUME TypeOK, NEW g \in Groups, Sync(g)
  PROVE  LET i == synced[g] + 1 IN
         /\ i \in DOMAIN sets[g] /\ 1 \in DOMAIN sets[g]
         /\ UNCHANGED <<sets, request>>
         /\ deployments' \in {deployments, deployments \cup {MakeDeployment(g, i)}}
         /\ services' \in {services, services \cup {MakeService(g.name, MakeDeployment(g, 1))}}
         /\ \/ refused' = refused
            \/ /\ refused' = refused \cup {Refusal(g, i, "deployment")}
               /\ ~ AdmitsDeployment(MakeDeployment(g, i))
            \/ /\ refused' = refused \cup {Refusal(g, i, "service")}
               /\ ~ AdmitsService(MakeService(g.name, MakeDeployment(g, i)))
<1>1. /\ synced[g] \in Nat /\ sets[g] \in Seq(Instance) /\ synced[g] < Len(sets[g])
  BY DEF TypeOK, Sync
<1>2. synced[g] + 1 \in DOMAIN sets[g] /\ 1 \in DOMAIN sets[g]
  BY <1>1
<1> QED  BY <1>2 DEF Sync

--------------------------------------------------------------------------------
(* Type correctness.                                                            *)

LEMMA TypeInit ==
  Init => TypeOK
  BY PodConfigAssumption DEF Init, TypeOK

LEMMA TypeNext ==
  ASSUME TypeOK, Made, [Next]_vars
  PROVE  TypeOK'
<1>1. ASSUME NEW g \in Groups, CreateGroup(g)
      PROVE  TypeOK'
  <2>1. PICK specs \in SpecsOf[g] : sets' = [sets EXCEPT ![g] = specs]
    BY <1>1 DEF CreateGroup
  <2>2. specs \in Seq(Instance)
    BY <2>1, PodConfigAssumption
  <2>3. sets[g] = <<>> /\ UNCHANGED <<synced, deployments, services, refused, request>>
    BY <1>1 DEF CreateGroup
  <2>4. \A h \in Groups : synced'[h] <= Len(sets'[h])
    BY <2>1, <2>2, <2>3 DEF TypeOK
  <2> QED  BY <2>1, <2>2, <2>3, <2>4 DEF TypeOK
<1>2. ASSUME NEW g \in Groups, Sync(g)
      PROVE  TypeOK'
  <2> DEFINE i == synced[g] + 1
  <2>1. /\ i \in DOMAIN sets[g] /\ UNCHANGED <<sets, request>>
        /\ deployments' \in {deployments, deployments \cup {MakeDeployment(g, i)}}
    BY <1>2, SyncOfSet
  <2>2. i \in Nat /\ i <= Len(sets[g])
    BY <2>1 DEF TypeOK
  <2>3. synced' \in [Groups -> Nat] /\ \A h \in Groups : synced'[h] <= Len(sets'[h])
    BY <1>2, <2>1, <2>2 DEF Sync, TypeOK
  <2>4. refused' \subseteq [group : Groups, set : Nat, kind : {"deployment", "service"}]
    <3>1. \/ refused' = refused
          \/ \E kind \in {"deployment", "service"} : refused' = refused \cup {Refusal(g, i, kind)}
      BY <1>2, SyncOfSet
    <3> QED  BY <2>2, <3>1 DEF TypeOK, Refusal
  <2>5. \A d \in deployments' : PodOf(d) \in Pod
    BY <2>1, ConfigOfSet DEF TypeOK
  <2> QED  BY <2>1, <2>3, <2>4, <2>5 DEF TypeOK
<1>3. ASSUME NEW op \in {"add", "remove"}, NEW l \in deployments, NEW f \in deployments,
             Post(op, l, f)
      PROVE  TypeOK'
  BY <1>3, RequestOfSets DEF Made, TypeOK, Post
<1>4. CASE UNCHANGED vars
  BY <1>4 DEF vars, TypeOK
<1> QED  BY <1>1, <1>2, <1>3, <1>4 DEF Next

--------------------------------------------------------------------------------
(* What is at the API server, and what it has refused, is made of the specs.    *)

LEMMA MadeNext ==
  ASSUME TypeOK, Made, [Next]_vars
  PROVE  Made'
<1> USE StepKeepsSets, KeptSet
<1>1. \A g \in Groups : \A i \in DOMAIN sets[g] :
         /\ i \in DOMAIN sets'[g] /\ sets'[g] = sets[g]
         /\ MakeDeployment(g, i)' = MakeDeployment(g, i)
  OBVIOUS
<1>2. ASSUME UNCHANGED <<deployments, services, refused>>
      PROVE  Made'
  <2>1. DeploymentsMade'
    BY <1>1, <1>2 DEF Made, DeploymentsMade
  <2>2. ServicesMade'
    BY <1>1, <1>2 DEF Made, ServicesMade
  <2>3. RefusalsMade'
    BY <1>1, <1>2 DEF Made, RefusalsMade
  <2> QED  BY <2>1, <2>2, <2>3 DEF Made
<1>3. ASSUME NEW g \in Groups, Sync(g)
      PROVE  Made'
  <2> DEFINE i == synced[g] + 1
  <2>1. /\ i \in DOMAIN sets[g] /\ 1 \in DOMAIN sets[g]
        /\ UNCHANGED sets
        /\ deployments' \in {deployments, deployments \cup {MakeDeployment(g, i)}}
        /\ services' \in {services, services \cup {MakeService(g.name, MakeDeployment(g, 1))}}
    BY <1>3, SyncOfSet
  <2> HIDE DEF i
  <2>2. DeploymentsMade'
    BY <1>1, <2>1 DEF Made, DeploymentsMade
  <2>3. ServicesMade'
    BY <1>1, <2>1 DEF Made, ServicesMade
  <2>4. RefusalsMade'
    <3>1. ASSUME NEW r \in refused
          PROVE  /\ r.group \in Groups
                 /\ r.set \in DOMAIN sets'[r.group]
                 /\ IF r.kind = "deployment"
                    THEN ~ AdmitsDeployment(MakeDeployment(r.group, r.set)')
                    ELSE ~ AdmitsService(MakeService(r.group.name, MakeDeployment(r.group, r.set)'))
      BY <1>1, <3>1 DEF Made, RefusalsMade
    <3>2. \/ refused' = refused
          \/ /\ refused' = refused \cup {Refusal(g, i, "deployment")}
             /\ ~ AdmitsDeployment(MakeDeployment(g, i))
          \/ /\ refused' = refused \cup {Refusal(g, i, "service")}
             /\ ~ AdmitsService(MakeService(g.name, MakeDeployment(g, i)))
      BY <1>3, SyncOfSet DEF i
    <3>3. ASSUME NEW r \in refused'
          PROVE  /\ r.group \in Groups
                 /\ r.set \in DOMAIN sets'[r.group]
                 /\ IF r.kind = "deployment"
                    THEN ~ AdmitsDeployment(MakeDeployment(r.group, r.set)')
                    ELSE ~ AdmitsService(MakeService(r.group.name, MakeDeployment(r.group, r.set)'))
      BY <1>1, <2>1, <3>1, <3>2 DEF Refusal
    <3> QED  BY <3>3 DEF RefusalsMade, AdmitsDeployment, AdmitsService, MakeService, makeServicePorts
  <2> QED  BY <2>2, <2>3, <2>4 DEF Made
<1>4. ASSUME NEW g \in Groups, CreateGroup(g)
      PROVE  Made'
  BY <1>2, <1>4 DEF CreateGroup
<1>5. ASSUME NEW op, NEW l \in deployments, NEW f \in deployments, Post(op, l, f)
      PROVE  Made'
  BY <1>2, <1>5 DEF Post
<1>6. CASE UNCHANGED vars
  BY <1>2, <1>6 DEF vars
<1> QED  BY <1>3, <1>4, <1>5, <1>6 DEF Next

\* Every state has its types, and is made of the specs.
THEOREM TypeAndMade ==
  Spec => [](TypeOK /\ Made)
<1>1. Init => TypeOK /\ Made
  BY TypeInit DEF Init, Made, DeploymentsMade, ServicesMade, RefusalsMade
<1>2. TypeOK /\ Made /\ [Next]_vars => (TypeOK /\ Made)'
  BY TypeNext, MadeNext
<1> QED  BY <1>1, <1>2, PTL DEF Spec

\* TypeOK holds for every group and every instance spec.
THEOREM TypeCorrect ==
  Spec => []TypeOK
  BY TypeAndMade, PTL

--------------------------------------------------------------------------------
(* What the controllers rely on.                                                *)

\* Only a memory limit under the memory makes the API server refuse a deployment:
\* the CPU limit of makeResourceRequirements is not under its request.
LEMMA RefusedDeployment ==
  ASSUME TypeOK, NEW g \in Groups, NEW i \in DOMAIN sets[g],
         ~ AdmitsDeployment(MakeDeployment(g, i))
  PROVE  sets[g][i].memoryLimit < sets[g][i].memory
<1> DEFINE spec == sets[g][i]
           r == makeResourceRequirements(spec)
<1>1. MakeDeployment(g, i).container.resources = r
  BY DEF MakeDeployment, convertInstanceSpecToPodSpec
<1>2. \/ ~ (r.requests.cpu <= r.limits.cpu)
      \/ ~ (r.requests.memory <= r.limits.memory)
  BY <1>1 DEF AdmitsDeployment
<1>3. /\ r.requests.cpu = getMilliCPU(spec.cores)
      /\ r.limits.cpu = fillblank(spec.coreLimit, getMilliCPU(spec.cores))
      /\ r.requests.memory = spec.memory /\ r.limits.memory = spec.memoryLimit
  BY DEF makeResourceRequirements
<1>4. /\ spec.cores \in Nat /\ spec.coreLimit \in Nat \cup {Unset}
      /\ spec.memory \in Nat /\ spec.memoryLimit \in Nat
  BY SpecOfSet DEF Instance
<1>5. r.requests.cpu <= r.limits.cpu
  BY <1>3, <1>4 DEF getMilliCPU, fillblank
<1> QED  BY <1>2, <1>3, <1>4, <1>5

\* Only a port used twice makes it refuse a service.
LEMMA RefusedService ==
  ASSUME TypeOK, NEW g \in Groups, NEW k \in DOMAIN sets[g],
         ~ AdmitsService(MakeService(g.name, MakeDeployment(g, k)))
  PROVE  LET spec == sets[g][k]
             ports == <<spec.httpPort, spec.mysqlPort, spec.clickhousePort,
                        spec.rpcPort, spec.metricsPort>>
         IN  \E i, j \in 1..5 : i # j /\ ports[i] = ports[j]
<1> DEFINE spec == sets[g][k]
           p == makePorts(spec)
           names == {"metrics", "http", "rpc", "mysql", "clickhouse"}
<1>1. MakeService(g.name, MakeDeployment(g, k)).ports =
          [n \in names |-> [port |-> p[n], targetPort |-> p[n]]]
  BY DEF MakeService, makeServicePorts, MakeDeployment, convertInstanceSpecToPodSpec
<1>2. PICK m \in names, n \in names : m # n /\ p[m] = p[n]
  BY <1>1 DEF AdmitsService
<1>3. /\ p["http"] = spec.httpPort /\ p["mysql"] = spec.mysqlPort
      /\ p["clickhouse"] = spec.clickhousePort /\ p["rpc"] = spec.rpcPort
      /\ p["metrics"] = spec.metricsPort
  BY DEF makePorts
<1> HIDE DEF p, spec
<1> QED  BY <1>2, <1>3 DEF spec

\* RefusedForCause: no combination of cores and CPU limit is refused.
THEOREM OnlyRefusedForCause ==
  Spec => []RefusedForCause
<1>1. TypeOK /\ Made => RefusedForCause
  <2> SUFFICES ASSUME TypeOK, RefusalsMade, NEW r \in refused
               PROVE  LET spec == sets[r.group][r.set]
                          ports == <<spec.httpPort, spec.mysqlPort, spec.clickhousePort,
                                     spec.rpcPort, spec.metricsPort>> IN
                      IF r.kind = "deployment" THEN spec.memoryLimit < spec.memory
                      ELSE \E i, j \in 1..5 : i # j /\ ports[i] = ports[j]
    BY DEF Made, RefusedForCause
  <2>1. /\ r.group \in Groups /\ r.set \in DOMAIN sets[r.group]
        /\ r.kind = "deployment" => ~ AdmitsDeployment(MakeDeployment(r.group, r.set))
        /\ r.kind # "deployment" =>
              ~ AdmitsService(MakeService(r.group.name, MakeDeployment(r.group, r.set)))
    BY DEF RefusalsMade
  <2>2. CASE r.kind = "deployment"
    BY <2>1, <2>2, RefusedDeployment
  <2>3. CASE r.kind # "deployment"
    BY <2>1, <2>3, RefusedService, Zenon
  <2> QED  BY <2>2, <2>3
<1> QED  BY <1>1, TypeAndMade, PTL

\* Two groups in one namespace do not have one key.
LEMMA KeysDiffer ==
  ASSUME NEW g \in Groups, NEW h \in Groups,
         g.namespace = h.namespace, GroupKey(g) = GroupKey(h)
  PROVE  g = h
<1>1. /\ g.namespace \in Seq(STRING) /\ g.name \in Seq(STRING) /\ h.name \in Seq(STRING)
  BY PodConfigAssumption
<1>2. g.name = h.name
  BY <1>1, Cancel DEF GroupKey
<1> QED  BY <1>2, PodConfigAssumption

\* The service of g selects the deployment of its leaders and no other.
LEMMA SelectsLeaders ==
  ASSUME TypeOK, NEW g \in Groups, 1 \in DOMAIN sets[g],
         NEW h \in Groups, NEW i \in DOMAIN sets[h],
         NEW s, s = MakeService(g.name, MakeDeployment(g, 1)),
         NEW d, d = MakeDeployment(h, i)
  PROVE  /\ Selects(s, d) <=> (g = h /\ i = 1)
         /\ (s.namespace = d.namespace /\ d.name = [group |-> s.name, set |-> 1])
                <=> (g = h /\ i = 1)
<1>1. /\ s.namespace = g.namespace /\ s.name = g.name /\ s.selector = Labels(g, 1)
      /\ d.namespace = h.namespace /\ d.name = [group |-> h.name, set |-> i]
      /\ d.labels = Labels(h, i)
  BY DEF MakeService, MakeDeployment
<1>2. Labels(g, 1) = Labels(h, i) => GroupKey(g) = GroupKey(h) /\ i = 1
  BY DEF Labels
<1>3. Selects(s, d) => g = h /\ i = 1
  BY <1>1, <1>2, KeysDiffer DEF Selects
<1>4. g = h /\ i = 1 => Selects(s, d)
  BY <1>1 DEF Selects
<1>5. d.name = [group |-> s.name, set |-> 1] <=> h.name = g.name /\ i = 1
  BY <1>1
<1>6. s.namespace = d.namespace /\ h.name = g.name => g = h
  BY <1>1, PodConfigAssumption
<1> QED  BY <1>1, <1>3, <1>4, <1>5, <1>6

\* ServiceReachesLeaders: though two groups may share a key.
THEOREM ServicesReachLeaders ==
  Spec => []ServiceReachesLeaders
<1>1. TypeOK /\ Made => ServiceReachesLeaders
  <2> SUFFICES ASSUME TypeOK, Made, NEW s \in services, NEW d \in deployments
               PROVE  /\ Selects(s, d) <=>
                            (s.namespace = d.namespace /\ d.name = [group |-> s.name, set |-> 1])
                      /\ Selects(s, d) =>
                            \A n \in DOMAIN s.ports : s.ports[n].targetPort = d.container.ports[n]
    BY DEF ServiceReachesLeaders
  <2>1. PICK g \in Groups : 1 \in DOMAIN sets[g] /\ s = MakeService(g.name, MakeDeployment(g, 1))
    BY DEF Made, ServicesMade
  <2>2. PICK h \in Groups : \E i \in DOMAIN sets[h] : d = MakeDeployment(h, i)
    BY DEF Made, DeploymentsMade
  <2>3. PICK i \in DOMAIN sets[h] : d = MakeDeployment(h, i)
    BY <2>2
  <2>4. /\ Selects(s, d) <=> (g = h /\ i = 1)
        /\ (s.namespace = d.namespace /\ d.name = [group |-> s.name, set |-> 1])
              <=> (g = h /\ i = 1)
    BY <2>1, <2>3, SelectsLeaders
  <2>5. \A n \in DOMAIN s.ports :
            s.ports[n].targetPort = MakeDeployment(g, 1).container.ports[n]
    BY <2>1 DEF MakeService, makeServicePorts
  <2> QED  BY <2>3, <2>4, <2>5
<1> QED  BY <1>1, TypeAndMade, PTL

\* A request stays right as deployments are added.
LEMMA RequestKept ==
  ASSUME TypeOK, RequestsReach, [Next]_vars, request' = request,
         deployments \subseteq deployments'
  PROVE  RequestsReach'
<1> SUFFICES ASSUME request # NoRequest
             PROVE  RequestsReach'
  BY DEF RequestsReach, NoRequest
<1>1. PICK l \in deployments, f \in deployments :
            /\ request.to = PodOf(l) /\ IsGroupLeader(l)
            /\ Atoi(request.port) = l.container.ports[l.container.probe]
            /\ request.node = PodOf(f) /\ IsGroupWorker(f)
            /\ Atoi(request.rpcPort) = f.container.ports.rpc
            /\ \E g \in Groups : \E i \in DOMAIN sets[g] :
                  /\ f.namespace = g.namespace
                  /\ f.name = [group |-> g.name, set |-> i]
                  /\ request.priority = sets[g][i].priority
  BY DEF RequestsReach
<1>2. PICK g \in Groups : \E i \in DOMAIN sets[g] :
                  /\ f.namespace = g.namespace
                  /\ f.name = [group |-> g.name, set |-> i]
                  /\ request.priority = sets[g][i].priority
  BY <1>1
<1>3. sets'[g] = sets[g]
  BY <1>2, StepKeepsSets, KeptSet
<1> QED  BY <1>1, <1>2, <1>3 DEF RequestsReach

\* RequestsReach: what the register controller reads is what the operator
\* controller has written.
THEOREM RequestsAlwaysReach ==
  Spec => []RequestsReach
<1>1. Init => RequestsReach
  BY DEF Init, RequestsReach
<1>2. TypeOK /\ Made /\ RequestsReach /\ [Next]_vars => RequestsReach'
  <2> SUFFICES ASSUME TypeOK, Made, RequestsReach, [Next]_vars
               PROVE  RequestsReach'
    OBVIOUS
  <2>1. ASSUME NEW g \in Groups, CreateGroup(g)
        PROVE  RequestsReach'
    BY <2>1, RequestKept DEF CreateGroup
  <2>2. ASSUME NEW g \in Groups, Sync(g)
        PROVE  RequestsReach'
    <3>1. request' = request /\ deployments \subseteq deployments'
      BY <2>2 DEF Sync
    <3> QED  BY <3>1, RequestKept
  <2>3. ASSUME NEW op \in {"add", "remove"}, NEW l \in deployments, NEW f \in deployments,
               Post(op, l, f)
        PROVE  RequestsReach'
    BY <2>3, RequestOfSets DEF Made
  <2>4. CASE UNCHANGED vars
    BY <2>4, RequestKept DEF vars
  <2> QED  BY <2>1, <2>2, <2>3, <2>4 DEF Next
<1> QED  BY <1>1, <1>2, TypeAndMade, PTL DEF Spec
================================================================================

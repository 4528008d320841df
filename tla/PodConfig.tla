-------------------------------- MODULE PodConfig --------------------------------
(* What the two controllers write into the objects they make, and read back out   *)
(* of them: the operator controller builds deployments and services from the      *)
(* instance specs of a compute group (pkg/controllers/utils), the pods of the      *)
(* deployments are copies of their templates, and the register controller finds    *)
(* ports and priority in the environment of the pods (BuildPodConfig).             *)
(*                                                                                 *)
(* Text is a sequence of fields: what "-" joins in a name, what ":" joins in an    *)
(* address.  The text of a number is the record Digits makes.                      *)
EXTENDS Naturals, Sequences

CONSTANTS
    Groups,     \* compute groups, [namespace, name, operator]: operator is the
                \* key in the datafuse-operator label, or <<>> without one
    SpecsOf,    \* SpecsOf[g]: the lists of instance specs g may be created with,
                \* that of the leaders first
    Unset       \* a field a user has left out and the CRD has no default for

Instance == [cores : Nat, coreLimit : Nat \cup {Unset}, memory : Nat, memoryLimit : Nat,
             httpPort : Nat, mysqlPort : Nat, clickhousePort : Nat, rpcPort : Nat,
             metricsPort : Nat, priority : Nat]

ASSUME PodConfigAssumption ==
    /\ Groups \subseteq [namespace : Seq(STRING), name : Seq(STRING), operator : Seq(STRING)]
    /\ \A g, h \in Groups : g.namespace = h.namespace /\ g.name = h.name => g = h
    /\ SpecsOf \in [Groups -> SUBSET Seq(Instance)]
    /\ Unset \notin Nat

VARIABLES
    sets,           \* sets[g]: the instance specs in g's spec, <<>> before it exists
    synced,         \* synced[g]: the sets of g a worker thread has been through
    deployments,    \* the deployments at the API server
    services,       \* the services at the API server
    refused,        \* what the API server has found invalid
    request         \* the last post of the register controller

vars == <<sets, synced, deployments, services, refused, request>>

---------------------------------------------------------------------------------
(* The builders of operator_utils.go.                                            *)

\* fmt.Sprintf("%d"), and strconv.Atoi, which fails on anything else.
Digits(n) == [digits |-> n]
Atoi(text) == text.digits

makePorts(spec) ==
    [http |-> spec.httpPort, mysql |-> spec.mysqlPort,
     clickhouse |-> spec.clickhousePort, rpc |-> spec.rpcPort, metrics |-> spec.metricsPort]

\* The environment, under the names without their prefix FUSE_QUERY_.
makeEnvs(spec) ==
    [NUM_CPUS                |-> <<Digits(spec.cores)>>,
     MYSQL_HANDLER_HOST      |-> <<"0.0.0.0">>,
     MYSQL_HANDLER_PORT      |-> <<Digits(spec.mysqlPort)>>,
     CLICKHOUSE_HANDLER_HOST |-> <<"0.0.0.0">>,
     CLICKHOUSE_HANDLER_PORT |-> <<Digits(spec.clickhousePort)>>,
     HTTP_API_ADDRESS        |-> <<"0.0.0.0", Digits(spec.httpPort)>>,
     METRIC_API_ADDRESS      |-> <<"0.0.0.0", Digits(spec.metricsPort)>>,
     FLIGHT_API_ADDRESS      |-> <<"0.0.0.0", Digits(spec.rpcPort)>>,
     PRIORITY                |-> <<Digits(spec.priority)>>]

getMilliCPU(cores) == cores * 1000 + 300

\* fillblank of makeResourceRequirements: a limit under the request is raised.
fillblank(input, quant) == IF input = Unset \/ input < quant THEN quant ELSE input

\* Mutant of makeResourceRequirements: the limit is taken as it is written.
makeResourceRequirementsAsWritten(spec) ==
    [requests |-> [cpu |-> getMilliCPU(spec.cores), memory |-> spec.memory],
     limits   |-> [cpu |-> IF spec.coreLimit = Unset THEN getMilliCPU(spec.cores)
                           ELSE spec.coreLimit,
                   memory |-> spec.memoryLimit]]

makeResourceRequirements(spec) ==
    [requests |-> [cpu |-> getMilliCPU(spec.cores), memory |-> spec.memory],
     limits   |-> [cpu |-> fillblank(spec.coreLimit, getMilliCPU(spec.cores)),
                   memory |-> spec.memoryLimit]]

\* The container; its two probes both ask the port of the name "http".
convertInstanceSpecToPodSpec(spec) ==
    [env |-> makeEnvs(spec), ports |-> makePorts(spec), probe |-> "http",
     resources |-> makeResourceRequirements(spec)]

\* GetComputeGroupKeys: <namespace>-<name>.
GroupKey(g) == g.namespace \o g.name

\* Mutant of Labels: the role is left out of what selects the pods.
LabelsWithoutRole(g, i) == [operator |-> g.operator, group |-> GroupKey(g), role |-> "any"]

Labels(g, i) ==
    [operator |-> g.operator, group |-> GroupKey(g),
     role |-> IF i = 1 THEN "leader" ELSE "follower"]

\* MakeDeployment of the i-th set, called <group>-leader or <group>-worker<i>.
\* The labels are those of the object, of its selector and of its pods.
MakeDeployment(g, i) ==
    [namespace |-> g.namespace, name |-> [group |-> g.name, set |-> i],
     labels |-> Labels(g, i), container |-> convertInstanceSpecToPodSpec(sets[g][i])]

makeServicePorts(d) ==
    [n \in {"metrics", "http", "rpc", "mysql", "clickhouse"} |->
        [port |-> d.container.ports[n], targetPort |-> d.container.ports[n]]]

MakeService(name, d) ==
    [namespace |-> d.namespace, name |-> name, selector |-> d.labels,
     ports |-> makeServicePorts(d)]

---------------------------------------------------------------------------------
(* The API server's validation, as far as the builders can run against it.        *)

AdmitsDeployment(d) ==
    \A r \in {"cpu", "memory"} :
        d.container.resources.requests[r] <= d.container.resources.limits[r]

AdmitsService(s) ==
    \A m, n \in DOMAIN s.ports : m # n => s.ports[m].port # s.ports[n].port

\* The pods a service sends its connections to.
Selects(s, d) == s.namespace = d.namespace /\ s.selector = d.labels

---------------------------------------------------------------------------------
(* BuildPodConfig and the requests of register.go.                               *)

\* strings.SplitN(value, ":", 2): a value of more or fewer fields than two is
\* an error, which the callers return.
PortIn(address) == address[2]
Parses(d) ==
    \A name \in {"HTTP_API_ADDRESS", "METRIC_API_ADDRESS", "FLIGHT_API_ADDRESS"} :
        Len(d.container.env[name]) = 2

\* Mutant of BuildPodConfig: the metrics address is taken for the API's.
BuildPodConfigOfMetrics(d) ==
    [HTTPPort |-> PortIn(d.container.env.METRIC_API_ADDRESS),
     RPCPort  |-> PortIn(d.container.env.FLIGHT_API_ADDRESS),
     Priority |-> d.container.env.PRIORITY[1]]

\* Mutant of BuildPodConfig: the switch has no case for the RPC address.
BuildPodConfigWithoutRPC(d) ==
    [HTTPPort |-> PortIn(d.container.env.HTTP_API_ADDRESS),
     RPCPort  |-> [empty |-> TRUE],
     Priority |-> d.container.env.PRIORITY[1]]

\* The part of a FuseQueryConfigs that a caller uses.
BuildPodConfig(d) ==
    [HTTPPort |-> PortIn(d.container.env.HTTP_API_ADDRESS),
     RPCPort  |-> PortIn(d.container.env.FLIGHT_API_ADDRESS),
     Priority |-> d.container.env.PRIORITY[1]]

\* A pod is known by its deployment; its IP is its own.
PodOf(d) == [namespace |-> d.namespace, name |-> d.name]

ClusterNodeRequest(op, leader, follower) ==
    [op |-> op, to |-> PodOf(leader), port |-> BuildPodConfig(leader).HTTPPort,
     node |-> PodOf(follower), rpcPort |-> BuildPodConfig(follower).RPCPort,
     priority |-> Atoi(BuildPodConfig(follower).Priority)]

IsGroupLeader(d) == d.labels.role = "leader"
IsGroupWorker(d) == d.labels.role = "follower"

---------------------------------------------------------------------------------
NoRequest == [op |-> "none"]

Number == [digits : Nat]
SetNames == [group : Seq(STRING), set : Nat]
Pod == [namespace : Seq(STRING), name : SetNames]
Request == [op : {"add", "remove"}, to : Pod, port : Number, node : Pod,
            rpcPort : Number, priority : Nat]

TypeOK ==
    /\ sets \in [Groups -> Seq(Instance)]
    /\ \A g \in Groups : sets[g] # <<>> => sets[g] \in SpecsOf[g]
    /\ synced \in [Groups -> Nat]
    /\ \A g \in Groups : synced[g] <= Len(sets[g])
    /\ \A d \in deployments : PodOf(d) \in Pod
    /\ refused \subseteq [group : Groups, set : Nat, kind : {"deployment", "service"}]
    /\ request = NoRequest \/ request \in Request

Init ==
    /\ sets = [g \in Groups |-> <<>>]
    /\ synced = [g \in Groups |-> 0]
    /\ deployments = {}
    /\ services = {}
    /\ refused = {}
    /\ request = NoRequest

CreateGroup(g) ==
    /\ sets[g] = <<>>
    /\ \E specs \in SpecsOf[g] : sets' = [sets EXCEPT ![g] = specs]
    /\ UNCHANGED <<synced, deployments, services, refused, request>>

\* syncComputeGroup of the next set: the deployment and, for the leaders, the
\* service.  The group goes on with its next set whatever comes of it.
Refusal(g, i, kind) == [group |-> g, set |-> i, kind |-> kind]

Sync(g) ==
    /\ synced[g] < Len(sets[g])
    /\ synced' = [synced EXCEPT ![g] = @ + 1]
    /\ LET i == synced[g] + 1
           d == MakeDeployment(g, i)
           s == MakeService(g.name, d) IN
          \/ /\ ~ AdmitsDeployment(d)
             /\ refused' = refused \cup {Refusal(g, i, "deployment")}
             /\ UNCHANGED <<deployments, services>>
          \/ /\ AdmitsDeployment(d)
             /\ i = 1
             /\ ~ AdmitsService(s)
             /\ deployments' = deployments \cup {d}
             /\ refused' = refused \cup {Refusal(g, i, "service")}
             /\ UNCHANGED services
          \/ /\ AdmitsDeployment(d)
             /\ i = 1 => AdmitsService(s)
             /\ deployments' = deployments \cup {d}
             /\ services' = IF i = 1 THEN services \cup {s} ELSE services
             /\ UNCHANGED refused
    /\ UNCHANGED <<sets, request>>

\* AddNode and RemoveNode, of any worker at any leader: an error ends the call
\* before anything is sent.
Post(op, leader, follower) ==
    /\ IsGroupLeader(leader)
    /\ IsGroupWorker(follower)
    /\ Parses(leader)
    /\ Parses(follower)
    /\ request' = ClusterNodeRequest(op, leader, follower)
    /\ UNCHANGED <<sets, synced, deployments, services, refused>>

Next ==
    \/ \E g \in Groups : CreateGroup(g) \/ Sync(g)
    \/ \E leader, follower \in deployments :
          Post("add", leader, follower) \/ Post("remove", leader, follower)

Spec == Init /\ [][Next]_vars

---------------------------------------------------------------------------------
(* What the two controllers rely on in each other.                               *)

\* A request of the register controller goes to the port at which the leader's
\* container is probed, and names the worker with the port its container declares
\* for RPC and the priority of its spec: what BuildPodConfig takes out of the
\* environment is what convertInstanceSpecToPodSpec has declared in another place.
RequestsReach ==
    request # NoRequest =>
        \E leader, follower \in deployments :
            /\ request.to = PodOf(leader) /\ IsGroupLeader(leader)
            /\ Atoi(request.port) = leader.container.ports[leader.container.probe]
            /\ request.node = PodOf(follower) /\ IsGroupWorker(follower)
            /\ Atoi(request.rpcPort) = follower.container.ports.rpc
            /\ \E g \in Groups : \E i \in DOMAIN sets[g] :
                  /\ follower.namespace = g.namespace
                  /\ follower.name = [group |-> g.name, set |-> i]
                  /\ request.priority = sets[g][i].priority

\* The service of a group selects its leaders and no other pods (the selector is
\* the labels of MakeDeployment), though the key in the labels is the same for
\* two groups such as a-b/c and a/b-c, and sends every connection to the port
\* that the leaders declare under the name.
ServiceReachesLeaders ==
    \A s \in services : \A d \in deployments :
        /\ Selects(s, d) <=> (s.namespace = d.namespace /\ d.name = [group |-> s.name, set |-> 1])
        /\ Selects(s, d) => \A n \in DOMAIN s.ports :
                                s.ports[n].targetPort = d.container.ports[n]

\* The API server refuses a deployment only if its memory limit is under its
\* memory, and a service only if two of the ports are one: no combination of cores
\* and CPU limit is refused, as that of more than one core with the limit the CRD
\* fills in would be (getMilliCPU, fillblank).
RefusedForCause ==
    \A r \in refused :
        LET spec == sets[r.group][r.set]
            ports == <<spec.httpPort, spec.mysqlPort, spec.clickhousePort,
                       spec.rpcPort, spec.metricsPort>> IN
        IF r.kind = "deployment" THEN spec.memoryLimit < spec.memory
        ELSE \E i, j \in 1..5 : i # j /\ ports[i] = ports[j]
=================================================================================

---------------------------- MODULE Registration ----------------------------
(***************************************************************************)
(* The register controller (pkg/controllers/register): one goroutine that  *)
(* watches the pods of every compute group through an informer and keeps   *)
(* the cluster list held in memory by each leader's fuse-query server in   *)
(* step with the ready worker pods.                                        *)
(*                                                                         *)
(* The pod objects and the leaders' servers are the environment.  The      *)
(* controller sees the pods only through `store', the informer's copy, and *)
(* works on the pod objects that the event handlers put in its queue: each *)
(* queue item is a snapshot of a pod, not its name.                        *)
(***************************************************************************)
EXTENDS Naturals, Sequences, Functions

CONSTANTS
    Leaders,        \* pods labelled datafuse-computegrouprole=leader
    Workers,        \* pods labelled datafuse-computegrouprole=follower
    Strangers,      \* pods that carry both label keys but another role
    GroupOf,        \* the datafuse-computegroup label of each pod
    RequeueLimit,   \* NumRequeues at which an item is dropped (50 in the code)
    AbruptDeletes,  \* may a pod be deleted while its status still says Ready?
    Refusals,       \* may a leader's server answer a post with an error status?
    MaxVersion,     \* bound: status versions of each pod
    MaxAddr,        \* bound: addresses a pod may have, one after the other
    MaxFaults,      \* bound: injected HTTP faults between two controller starts
    MaxCrashes      \* bound: restarts of the controller process

Pods == Leaders \cup Workers \cup Strangers

ASSUME RegistrationAssumption ==
    /\ Leaders \cap Workers = {}
    /\ Strangers \cap (Leaders \cup Workers) = {}
    /\ RequeueLimit \in Nat \ {0}
    /\ AbruptDeletes \in BOOLEAN
    /\ Refusals \in BOOLEAN
    /\ MaxVersion \in [Pods -> Nat]
    /\ MaxAddr \in Nat
    /\ MaxFaults \in Nat
    /\ MaxCrashes \in Nat

VARIABLES
    pods,       \* pods[p]: the pod object at the API server
    nodes,      \* nodes[l]: cluster list of leader l's server
    store,      \* store[p]: the informer's copy of the pod object
    listing,    \* pods of the informer's initial list not yet handled
    queue,      \* items ready to be processed, in order
    backoff,    \* failed items waiting for their rate-limited requeue
    step,       \* where the worker goroutine is
    current,    \* the item it processes
    todo,       \* HTTP posts it still has to make in this step
    rest,       \* ProcessLeader: existing workers, later those to remove
    faults,     \* injected HTTP faults since the controller started
    lossy,      \* history: a failure that no retry makes good has happened
    crashes

environment == <<pods, nodes>>
informer    == <<store, listing>>
goroutine   == <<step, current, todo, rest>>
history     == <<faults, lossy, crashes>>
vars == <<pods, nodes, store, listing, queue, backoff, step, current, todo,
          rest, faults, lossy, crashes>>

-----------------------------------------------------------------------------
(* Data.                                                                   *)

\* The part of a pod object the controller reads: its resource version,
\* whether it exists, its Ready condition and its IP.
PodStatus == [rv : Nat, exists : BOOLEAN, ready : BOOLEAN, addr : Nat]
Absent == [rv |-> 0, exists |-> FALSE, ready |-> FALSE, addr |-> 0]

\* A ClusterNodeRequest: <namespace>/<name> and address.  The priority is
\* fixed by the pod's environment and tells no property apart.
Node == [pod : Pods, addr : Nat]
NodeOf(p, status) == [pod |-> p, addr |-> status.addr]
Names(list) == {n.pod : n \in list}

\* What sits in the work queue: a *v1.Pod, or the DeletedFinalStateUnknown
\* left by a relist.  tries is NumRequeues of the object.
Item == [kind : {"pod", "tombstone"}, pod : Pods, at : PodStatus,
         tries : 1..RequeueLimit]
NoItem == [kind |-> "none"]
NewItem(k, p, status) == [kind |-> k, pod |-> p, at |-> status, tries |-> 1]

IsGroupLeader(p) == p \in Leaders
IsGroupWorker(p) == p \in Workers

\* Mutants of ListReadyWorkers: the role, or the readiness, is not looked at.
ListReadyPods ==
    {NodeOf(p, store[p]) : p \in {q \in Pods : store[q].exists /\ store[q].ready}}
ListWorkers ==
    {NodeOf(p, store[p]) : p \in {q \in Pods : store[q].exists /\ IsGroupWorker(q)}}

\* ListReadyLeaders(groupKey) and ListReadyWorkers(groupKey): neither of
\* them looks at its argument, so the lists range over every group.
ListReadyLeaders ==
    {NodeOf(p, store[p]) : p \in {q \in Pods :
        store[q].exists /\ store[q].ready /\ IsGroupLeader(q)}}
ListReadyWorkers ==
    {NodeOf(p, store[p]) : p \in {q \in Pods :
        store[q].exists /\ store[q].ready /\ IsGroupWorker(q)}}

\* The fuse-query server's /v1/cluster/add and /v1/cluster/remove: both go by
\* the name, and adding a name that is listed changes nothing.
Added(list, n)   == IF n.pod \in Names(list) THEN list ELSE list \cup {n}
Removed(list, n) == {m \in list : m.pod # n.pod}

TypeOK ==
    /\ pods \in [Pods -> PodStatus]
    /\ nodes \in [Leaders -> SUBSET Node]
    /\ store \in [Pods -> PodStatus]
    /\ listing \subseteq Pods
    /\ queue \in Seq(Item)
    /\ backoff \subseteq Item
    /\ step \in {"idle", "list", "prune", "add", "remove", "post"}
    /\ IF step = "idle" THEN current = NoItem ELSE current \in Item
    /\ todo \subseteq Node
    /\ rest \subseteq Node
    /\ faults \in 0..MaxFaults
    /\ lossy \in BOOLEAN
    /\ crashes \in 0..MaxCrashes

Init ==
    /\ pods = [p \in Pods |-> Absent]
    /\ nodes = [l \in Leaders |-> {}]
    /\ store = [p \in Pods |-> Absent]
    /\ listing = {}
    /\ queue = <<>>
    /\ backoff = {}
    /\ step = "idle"
    /\ current = NoItem
    /\ todo = {}
    /\ rest = {}
    /\ faults = 0
    /\ lossy = FALSE
    /\ crashes = 0

-----------------------------------------------------------------------------
(* The environment: kubelets, the API server and the fuse-query servers.   *)

\* Every change of a pod object is a new resource version.
Touch(p, status) ==
    /\ pods[p].rv < MaxVersion[p]
    /\ pods' = [pods EXCEPT ![p] = [status EXCEPT !.rv = pods[p].rv + 1]]
    /\ UNCHANGED <<informer, queue, backoff, goroutine, history>>

\* A ReplicaSet creates the pod.  Its name is never used again.
CreatePod(p) ==
    /\ pods[p].rv = 0
    /\ Touch(p, [pods[p] EXCEPT !.exists = TRUE, !.addr = 1])
    /\ UNCHANGED nodes

\* The readiness probe starts to succeed, or starts to fail.
ProbePod(p) ==
    /\ pods[p].exists
    /\ Touch(p, [pods[p] EXCEPT !.ready = ~ @])
    /\ UNCHANGED nodes

\* The container restarts, in the same sandbox or in a new one with a new IP:
\* the pod is not ready, and a leader's server has an empty list.
RestartPod(p) ==
    /\ pods[p].exists
    /\ \E a \in {pods[p].addr, pods[p].addr + 1} \cap (1..MaxAddr) :
          Touch(p, [pods[p] EXCEPT !.ready = FALSE, !.addr = a])
    /\ nodes' = [l \in Leaders |-> IF l = p THEN {} ELSE nodes[l]]

\* The pod is deleted.  Its last status is the one the watch delivers.
DeletePod(p) ==
    /\ pods[p].exists
    /\ pods[p].ready => AbruptDeletes
    /\ Touch(p, [pods[p] EXCEPT !.exists = FALSE])
    /\ nodes' = [l \in Leaders |-> IF l = p THEN {} ELSE nodes[l]]

-----------------------------------------------------------------------------
(* The informer built by buildRegisterInformer, without resync.  The store *)
(* is updated before the handler runs; a watch that falls behind and lists *)
(* again skips versions.                                                   *)

Enqueue(item) == queue' = Append(queue, item)

\* Mutant of DeliverUpsert: only AddFunc enqueues, UpdateFunc does not.
DeliverAddOnly(p) ==
    /\ store[p].rv # pods[p].rv
    /\ pods[p].exists
    /\ store' = [store EXCEPT ![p] = pods[p]]
    /\ IF store[p].exists THEN UNCHANGED queue
       ELSE Enqueue(NewItem("pod", p, pods[p]))
    /\ listing' = listing \ {p}
    /\ UNCHANGED <<environment, backoff, goroutine, history>>

\* AddFunc and UpdateFunc enqueue the new object.
DeliverUpsert(p) ==
    /\ store[p].rv # pods[p].rv
    /\ pods[p].exists
    /\ store' = [store EXCEPT ![p] = pods[p]]
    /\ Enqueue(NewItem("pod", p, pods[p]))
    /\ listing' = listing \ {p}
    /\ UNCHANGED <<environment, backoff, goroutine, history>>

\* DeleteFunc enqueues what the informer hands it: the object of the watch
\* event, in the state it was deleted in, or a tombstone after a relist.  A
\* pod the store never held causes no event.
DeliverDelete(p) ==
    /\ store[p].rv # pods[p].rv
    /\ ~ pods[p].exists
    /\ store' = [store EXCEPT ![p] = pods[p]]
    /\ IF store[p].exists
       THEN \/ Enqueue(NewItem("pod", p, pods[p]))
            \/ AbruptDeletes /\ Enqueue(NewItem("tombstone", p, store[p]))
       ELSE UNCHANGED queue
    /\ listing' = listing \ {p}
    /\ UNCHANGED <<environment, backoff, goroutine, history>>

-----------------------------------------------------------------------------
(* HTTP.  A request reaches the leader it is meant for if the address in   *)
(* the pod snapshot is the one its server has.                             *)

Reachable(to) == pods[to.pod].exists /\ pods[to.pod].addr = to.addr

InjectFault == faults < MaxFaults /\ faults' = faults + 1

\* postHTTP returns an error when the connection, the request or the reading
\* of the response fails: before or after the server acted on it.
PostFails(to, list) ==
    \/ ~ Reachable(to) /\ UNCHANGED <<nodes, faults>>
    \/ /\ Reachable(to)
       /\ InjectFault
       /\ \/ UNCHANGED nodes
          \/ nodes' = [nodes EXCEPT ![to.pod] = list]

PostSucceeds(to, list) ==
    /\ Reachable(to)
    /\ nodes' = [nodes EXCEPT ![to.pod] = list]
    /\ UNCHANGED faults

\* postHTTP does not look at the response's status: a request the server
\* answers with an error status counts as done.
PostRefused(to) ==
    /\ Refusals
    /\ Reachable(to)
    /\ InjectFault
    /\ UNCHANGED nodes

-----------------------------------------------------------------------------
(* The worker goroutine: processNextItem and what it calls.                *)

Finish ==
    /\ step' = "idle"
    /\ current' = NoItem
    /\ todo' = {}
    /\ rest' = {}

\* Mutants of Fail: the limit is off by one; the requeues are not counted.
FailOnceMore(item) ==
    /\ backoff' = IF item.tries <= RequeueLimit
                  THEN backoff \cup {[item EXCEPT !.tries = @ + 1]}
                  ELSE backoff
    /\ UNCHANGED lossy
FailUncounted(item) == backoff' = backoff \cup {item} /\ UNCHANGED lossy

\* errorHandler with an error: the item is added again, rate limited, until
\* NumRequeues has reached the limit, and then dropped.  Dropping the snapshot
\* of a leader that was not ready loses nothing: it asks for nothing.
Fail(item) ==
    IF item.tries < RequeueLimit
    THEN /\ backoff' = backoff \cup {[item EXCEPT !.tries = @ + 1]}
         /\ UNCHANGED lossy
    ELSE /\ UNCHANGED backoff
         /\ lossy' = (lossy \/ item.at.ready \/ IsGroupWorker(item.pod))

\* The delaying queue hands a failed item over once its backoff has passed.
Requeue(item) ==
    /\ item \in backoff
    /\ backoff' = backoff \ {item}
    /\ Enqueue(item)
    /\ UNCHANGED <<environment, informer, goroutine, history>>

CanGet == step = "idle" /\ listing = {} /\ queue # <<>>

\* Not a *v1.Pod, or a pod without a role the controller knows: forgotten.
GetUnmanaged ==
    /\ CanGet
    /\ LET item == Head(queue) IN
          \/ item.kind = "tombstone"
          \/ ~ IsGroupLeader(item.pod) /\ ~ IsGroupWorker(item.pod)
    /\ queue' = Tail(queue)
    /\ UNCHANGED <<environment, informer, backoff, goroutine, history>>

\* A leader that was not ready is an error: requeued, as the same snapshot.
GetUnreadyLeader ==
    /\ CanGet
    /\ LET item == Head(queue) IN
          /\ item.kind = "pod"
          /\ IsGroupLeader(item.pod)
          /\ ~ item.at.ready
          /\ Fail(item)
    /\ queue' = Tail(queue)
    /\ UNCHANGED <<environment, informer, goroutine, faults, crashes>>

GetReadyLeader ==
    /\ CanGet
    /\ LET item == Head(queue) IN
          /\ item.kind = "pod"
          /\ IsGroupLeader(item.pod)
          /\ item.at.ready
          /\ current' = item
    /\ step' = "list"
    /\ queue' = Tail(queue)
    /\ UNCHANGED <<environment, informer, backoff, todo, rest, history>>

\* A newer snapshot of a pod is processed while an older one still waits for
\* its retry: the older one will be applied last.
Overtakes(item) ==
    \E old \in backoff \cup Range(queue) :
        old.kind = "pod" /\ old.pod = item.pod /\ old.at.rv < item.at.rv

\* ProcessReadyWorker and ProcessUnreadyWorker start from the leaders that
\* are ready in the store now.
GetWorker ==
    /\ CanGet
    /\ LET item == Head(queue) IN
          /\ item.kind = "pod"
          /\ IsGroupWorker(item.pod)
          /\ current' = item
    /\ lossy' = (lossy \/ Overtakes(Head(queue)))
    /\ step' = "post"
    /\ todo' = ListReadyLeaders
    /\ queue' = Tail(queue)
    /\ UNCHANGED <<environment, informer, backoff, rest, faults, crashes>>

Self == NodeOf(current.pod, current.at)

\* The list a leader has after AddNode, for the snapshot of a ready worker,
\* or RemoveNode, for the snapshot of an unready one.
Applied(list) == IF current.at.ready THEN Added(list, Self) ELSE Removed(list, Self)

\* Mutant of PostWorker: the error of a leader is not handed to errorHandler.
PostWorkerNoRetry(to) ==
    /\ step = "post"
    /\ to \in todo
    /\ \/ PostSucceeds(to, Applied(nodes[to.pod]))
       \/ PostFails(to, Applied(nodes[to.pod]))
    /\ todo' = todo \ {to}
    /\ UNCHANGED <<pods, informer, queue, backoff, step, current, rest, lossy, crashes>>

\* One AddNode or RemoveNode of ProcessReadyWorker or ProcessUnreadyWorker.
\* The first error ends the pass: the leaders still to do wait for the retry.
PostWorker(to) ==
    /\ step = "post"
    /\ to \in todo
    /\ \/ /\ \/ PostSucceeds(to, Applied(nodes[to.pod])) /\ UNCHANGED lossy
             \/ PostRefused(to) /\ lossy' = TRUE
          /\ todo' = todo \ {to}
          /\ UNCHANGED <<step, current, rest, backoff>>
       \/ /\ PostFails(to, Applied(nodes[to.pod]))
          /\ Fail(current)
          /\ Finish
    /\ UNCHANGED <<pods, informer, queue, crashes>>

FinishWorker ==
    /\ step = "post"
    /\ todo = {}
    /\ Finish
    /\ UNCHANGED <<environment, informer, queue, backoff, history>>

\* GetClusterList of ListExistedWorkers, and its look-ups in the store: the
\* registered names the store does not hold are pruned, the rest is kept as
\* the pods the store has for them.
ListExisted ==
    /\ step = "list"
    /\ Reachable(Self)
    /\ todo' = {n \in nodes[Self.pod] : ~ store[n.pod].exists}
    /\ rest' = {NodeOf(p, store[p]) : p \in
                   {q \in Names(nodes[Self.pod]) : store[q].exists}}
    /\ step' = "prune"
    /\ UNCHANGED <<environment, informer, queue, backoff, current, history>>

ListExistedFails ==
    /\ step = "list"
    /\ \/ ~ Reachable(Self) /\ UNCHANGED faults
       \/ Reachable(Self) /\ InjectFault
    /\ Fail(current)
    /\ Finish
    /\ UNCHANGED <<environment, informer, queue, crashes>>

\* Mutant of Prune: nodes whose pod is gone are only left out of the result.
PruneSkipped(n) ==
    /\ step = "prune"
    /\ n \in todo
    /\ todo' = todo \ {n}
    /\ UNCHANGED <<environment, informer, queue, backoff, step, current, rest, history>>

\* RemoveConfig of ListExistedWorkers: its error is not looked at.
Prune(n) ==
    /\ step = "prune"
    /\ n \in todo
    /\ LET list == Removed(nodes[Self.pod], n) IN
          \/ PostSucceeds(Self, list) /\ UNCHANGED lossy
          \/ (PostRefused(Self) \/ PostFails(Self, list)) /\ lossy' = TRUE
    /\ todo' = todo \ {n}
    /\ UNCHANGED <<pods, informer, queue, backoff, step, current, rest, crashes>>

\* ProcessLeader compares by name the registered workers with the workers
\* that are ready in the store now and with the leader itself.
DiffLeader ==
    /\ step = "prune"
    /\ todo = {}
    /\ LET workers == ListReadyWorkers \cup {Self} IN
          /\ todo' = {n \in workers : n.pod \notin Names(rest)}
          /\ rest' = {n \in rest : n.pod \notin Names(workers)}
    /\ step' = "add"
    /\ UNCHANGED <<environment, informer, queue, backoff, current, history>>

\* One AddNode or RemoveNode of ProcessLeader; an error ends the pass.
PostLeader(n, list) ==
    /\ n \in todo
    /\ \/ /\ \/ PostSucceeds(Self, list) /\ UNCHANGED lossy
             \/ PostRefused(Self) /\ lossy' = TRUE
          /\ todo' = todo \ {n}
          /\ UNCHANGED <<step, current, rest, backoff>>
       \/ /\ PostFails(Self, list)
          /\ Fail(current)
          /\ Finish
    /\ UNCHANGED <<pods, informer, queue, crashes>>

\* The leader is the last element of the list of nodes to add.
AddToLeader(n) ==
    /\ step = "add"
    /\ n.pod = Self.pod => todo = {n}
    /\ PostLeader(n, Added(nodes[Self.pod], n))

StartRemoving ==
    /\ step = "add"
    /\ todo = {}
    /\ step' = "remove"
    /\ todo' = rest
    /\ rest' = {}
    /\ UNCHANGED <<environment, informer, queue, backoff, current, history>>

RemoveFromLeader(n) ==
    /\ step = "remove"
    /\ PostLeader(n, Removed(nodes[Self.pod], n))

FinishLeader ==
    /\ step = "remove"
    /\ todo = {}
    /\ Finish
    /\ UNCHANGED <<environment, informer, queue, backoff, history>>

-----------------------------------------------------------------------------
\* The controller process dies and starts again: the queue and the store are
\* gone, and the workers wait until the new informer has handled its list.
Crash ==
    /\ crashes < MaxCrashes
    /\ crashes' = crashes + 1
    /\ store' = [p \in Pods |-> IF pods[p].exists THEN Absent ELSE pods[p]]
    /\ listing' = {p \in Pods : pods[p].exists}
    /\ queue' = <<>>
    /\ backoff' = {}
    /\ Finish
    /\ faults' = 0
    /\ lossy' = FALSE
    /\ UNCHANGED environment

Environment ==
    \E p \in Pods : CreatePod(p) \/ ProbePod(p) \/ RestartPod(p) \/ DeletePod(p)

Deliver == \E p \in Pods : DeliverUpsert(p) \/ DeliverDelete(p)

ProcessNextItem ==
    \/ GetUnmanaged
    \/ GetUnreadyLeader
    \/ GetReadyLeader
    \/ GetWorker
    \/ \E to \in todo : PostWorker(to)
    \/ FinishWorker
    \/ ListExisted
    \/ ListExistedFails
    \/ \E n \in todo : Prune(n)
    \/ DiffLeader
    \/ \E n \in todo : AddToLeader(n)
    \/ StartRemoving
    \/ \E n \in todo : RemoveFromLeader(n)
    \/ FinishLeader

Next ==
    \/ Environment
    \/ Deliver
    \/ \E item \in backoff : Requeue(item)
    \/ ProcessNextItem
    \/ Crash

Spec == Init /\ [][Next]_vars

\* The reflector, the delaying queue's goroutine and the worker goroutine are
\* restarted or looped for ever; nothing is assumed of pods or of faults.
Fairness ==
    /\ WF_vars(Deliver)
    /\ WF_vars(\E item \in backoff : Requeue(item))
    /\ WF_vars(ProcessNextItem)

FairSpec == Spec /\ Fairness

-----------------------------------------------------------------------------
(* What the controller promises.                                           *)

Live(p) == pods[p].exists /\ pods[p].ready

\* Every event has been delivered, and nothing is left to do or to retry.
Quiet ==
    /\ \A p \in Pods : store[p].rv = pods[p].rv
    /\ listing = {}
    /\ queue = <<>>
    /\ backoff = {}
    /\ step = "idle"

\* A ready leader's server lists the leader itself and all the ready workers.
Complete(l) == {w \in Workers : Live(w)} \cup {l} \subseteq Names(nodes[l])

\* It lists no worker that is not ready or has gone.
Sound(l) == \A w \in Names(nodes[l]) \cap Workers : Live(w)

\* Once the controller has nothing left to do, every ready leader lists the
\* ready workers and itself, whatever the order in which pods came, went,
\* restarted and changed readiness, and wherever the controller restarted;
\* unless work was lost on the way (ProcessLeader, ProcessReadyWorker).
CompleteWhenQuiet ==
    Quiet /\ ~ lossy => \A l \in Leaders : Live(l) => Complete(l)

\* Under the same conditions no ready leader still lists a worker that is no
\* longer ready (ProcessUnreadyWorker, ListExistedWorkers, ProcessLeader).
SoundWhenQuiet ==
    Quiet /\ ~ lossy => \A l \in Leaders : Live(l) => Sound(l)

\* A leader's server never lists a pod without a role or another leader, not
\* even while requests fail, retries are overtaken and leaders restart with
\* requests on their way (processNextItem's label checks, ProcessLeader).
OnlyWorkersAndSelf ==
    \A l \in Leaders : Names(nodes[l]) \subseteq Workers \cup {l}

\* The controller comes to rest once the pods stop changing: a failing item is
\* retried only up to the limit of errorHandler, so that no poison item keeps
\* the single worker goroutine busy for ever.
ComesToRest == <>[]Quiet

\* ProcessLeader, comment at line 259: all ready workers of its cluster, which
\* is its compute group (the argument of ListReadyWorkers), and only those.
OwnGroupOnly ==
    \A l \in Leaders : \A p \in Names(nodes[l]) : GroupOf[p] = GroupOf[l]

\* ProcessLeader, comment at line 259, without the reservation of a loss: the
\* queue is empty, so nothing will ever register the missing worker.
AllReadyWorkersWhenQuiet ==
    Quiet => \A l \in Leaders : Live(l) => Complete(l)
=============================================================================

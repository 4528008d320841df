-------------------------- MODULE RegistrationProofs --------------------------
(* What Registration keeps for every set of pods, every bound and every      *)
(* number of faults and restarts.                                            *)
EXTENDS Registration, SequenceTheorems, TLAPS

-------------------------------------------------------------------------------
(* The operators of the model.                                               *)

\* Fresh items and nodes are what the type invariant says.
LEMMA NewItemType ==
    ASSUME NEW k \in {"pod", "tombstone"}, NEW p \in Pods, NEW s \in PodStatus
    PROVE  NewItem(k, p, s) \in Item
BY RegistrationAssumption DEF NewItem, Item

LEMMA NodeOfType ==
    ASSUME NEW p \in Pods, NEW s \in PodStatus
    PROVE  NodeOf(p, s) \in Node /\ NodeOf(p, s).pod = p
BY DEF NodeOf, Node, PodStatus

\* The effects of /v1/cluster/add and /v1/cluster/remove on the names listed.
LEMMA AddedNames ==
    ASSUME NEW list \in SUBSET Node, NEW n \in Node
    PROVE  /\ Added(list, n) \in SUBSET Node
           /\ Names(Added(list, n)) = Names(list) \cup {n.pod}
BY DEF Added, Names

LEMMA RemovedNames ==
    ASSUME NEW list \in SUBSET Node, NEW n \in Node
    PROVE  /\ Removed(list, n) \in SUBSET Node
           /\ Names(Removed(list, n)) = Names(list) \ {n.pod}
BY DEF Removed, Names

LEMMA NamesArePods ==
    ASSUME NEW list \in SUBSET Node
    PROVE  Names(list) \subseteq Pods
BY DEF Names, Node

\* The lists read from the store hold leaders, respectively workers.
LEMMA ReadyLists ==
    ASSUME TypeOK
    PROVE  /\ ListReadyLeaders \in SUBSET Node
           /\ Names(ListReadyLeaders) \subseteq Leaders
           /\ ListReadyWorkers \in SUBSET Node
           /\ Names(ListReadyWorkers) \subseteq Workers
<1> USE NodeOfType DEF TypeOK
<1>1. ListReadyLeaders \in SUBSET Node /\ Names(ListReadyLeaders) \subseteq Leaders
  BY DEF ListReadyLeaders, Names, IsGroupLeader
<1>2. ListReadyWorkers \in SUBSET Node /\ Names(ListReadyWorkers) \subseteq Workers
  BY DEF ListReadyWorkers, Names, IsGroupWorker
<1> QED BY <1>1, <1>2

\* errorHandler counts a retry before it queues it, and stops at the limit.
LEMMA FailType ==
    ASSUME TypeOK, NEW item \in Item, Fail(item)
    PROVE  backoff' \subseteq Item /\ lossy' \in BOOLEAN
<1>1. CASE item.tries < RequeueLimit
  <2>1. [item EXCEPT !.tries = @ + 1] \in Item
    BY <1>1, RegistrationAssumption DEF Item
  <2> QED BY <1>1, <2>1 DEF Fail, TypeOK
<1>2. CASE ~ (item.tries < RequeueLimit)
  BY <1>2 DEF Fail, TypeOK, Item, IsGroupWorker, PodStatus
<1> QED BY <1>1, <1>2

\* A post changes at most the list of the leader it is sent to.
Posted(to, list) ==
    PostSucceeds(to, list) \/ PostRefused(to) \/ PostFails(to, list)

LEMMA PostChangesOneList ==
    ASSUME NEW to, NEW list, Posted(to, list)
    PROVE  nodes' = nodes \/ nodes' = [nodes EXCEPT ![to.pod] = list]
BY DEF Posted, PostSucceeds, PostRefused, PostFails, InjectFault

LEMMA PostType ==
    ASSUME TypeOK, NEW to, NEW list \in SUBSET Node, Posted(to, list)
    PROVE  nodes' \in [Leaders -> SUBSET Node] /\ faults' \in 0..MaxFaults
<1>1. nodes' \in [Leaders -> SUBSET Node]
  BY PostChangesOneList DEF TypeOK
<1>2. faults' \in 0..MaxFaults
  BY RegistrationAssumption
     DEF TypeOK, Posted, PostSucceeds, PostRefused, PostFails, InjectFault
<1> QED BY <1>1, <1>2

-------------------------------------------------------------------------------
(* The type invariant.  It is not inductive by itself: that a list belongs to *)
(* a leader's server rests on the role of the pod being processed.            *)

\* The branch of processNextItem an item takes goes by the role of its pod.
StepRole ==
    /\ step \in {"list", "prune", "add", "remove"} => current.pod \in Leaders
    /\ step = "post" => current.pod \in Workers /\ Names(todo) \subseteq Leaders
    /\ step = "add" => Names(todo) \subseteq Workers \cup {current.pod}

LEMMA TypeInit == Init => TypeOK
<1> SUFFICES ASSUME Init PROVE TypeOK
  OBVIOUS
<1>1. Absent \in PodStatus
  BY DEF Absent, PodStatus
<1>2. 0 \in 0..MaxFaults /\ 0 \in 0..MaxCrashes
  BY RegistrationAssumption
<1>3. queue \in Seq(Item)
  BY DEF Init
<1> QED BY <1>1, <1>2, <1>3 DEF Init, TypeOK

\* The environment: pod objects, and the lists of restarted leaders.
LEMMA TypeEnvironment == TypeOK /\ Environment => TypeOK'
<1> SUFFICES ASSUME TypeOK, NEW p \in Pods,
                    CreatePod(p) \/ ProbePod(p) \/ RestartPod(p) \/ DeletePod(p)
             PROVE  TypeOK'
  BY DEF Environment
<1>1. ASSUME NEW status \in PodStatus, Touch(p, status)
      PROVE  pods' \in [Pods -> PodStatus]
  <2>1. pods[p].rv + 1 \in Nat
    BY DEF TypeOK, PodStatus
  <2>2. [status EXCEPT !.rv = pods[p].rv + 1] \in PodStatus
    BY <2>1 DEF PodStatus
  <2> QED BY <1>1, <2>2 DEF Touch, TypeOK
<1>2. pods' \in [Pods -> PodStatus]
  <2>1. CASE CreatePod(p)
    BY <1>1, <2>1 DEF CreatePod, TypeOK, PodStatus
  <2>2. CASE ProbePod(p)
    BY <1>1, <2>2 DEF ProbePod, TypeOK, PodStatus
  <2>3. CASE RestartPod(p)
    <3>1. PICK a \in {pods[p].addr, pods[p].addr + 1} :
             Touch(p, [pods[p] EXCEPT !.ready = FALSE, !.addr = a])
      BY <2>3 DEF RestartPod
    <3>2. a \in Nat
      BY DEF TypeOK, PodStatus
    <3>3. [pods[p] EXCEPT !.ready = FALSE, !.addr = a] \in PodStatus
      BY <3>2 DEF TypeOK, PodStatus
    <3> QED BY <1>1, <3>1, <3>3
  <2>4. CASE DeletePod(p)
    BY <1>1, <2>4 DEF DeletePod, TypeOK, PodStatus
  <2> QED BY <2>1, <2>2, <2>3, <2>4
<1>3. nodes' \in [Leaders -> SUBSET Node]
  BY DEF CreatePod, ProbePod, RestartPod, DeletePod, TypeOK
<1>4. UNCHANGED <<informer, queue, backoff, goroutine, history>>
  BY DEF CreatePod, ProbePod, RestartPod, DeletePod, Touch
<1> QED BY <1>2, <1>3, <1>4 DEF TypeOK, informer, goroutine, history

\* The informer and the delaying queue: only items of the right form enter.
LEMMA TypeDeliver == TypeOK /\ Deliver => TypeOK'
<1> SUFFICES ASSUME TypeOK, NEW p \in Pods, DeliverUpsert(p) \/ DeliverDelete(p)
             PROVE  TypeOK'
  BY DEF Deliver
<1>1. /\ NewItem("pod", p, pods[p]) \in Item
      /\ NewItem("tombstone", p, store[p]) \in Item
  BY NewItemType DEF TypeOK
<1>2. queue' \in Seq(Item)
  <2>1. queue \in Seq(Item)
    BY DEF TypeOK
  <2>2. CASE DeliverUpsert(p)
    BY <1>1, <2>1, <2>2 DEF DeliverUpsert, Enqueue
  <2>3. CASE DeliverDelete(p)
    BY <1>1, <2>1, <2>3 DEF DeliverDelete, Enqueue
  <2> QED BY <2>2, <2>3
<1>3. store' \in [Pods -> PodStatus] /\ listing' \subseteq Pods
  BY DEF DeliverUpsert, DeliverDelete, TypeOK
<1>4. UNCHANGED <<environment, backoff, goroutine, history>>
  BY DEF DeliverUpsert, DeliverDelete
<1> QED BY <1>2, <1>3, <1>4 DEF TypeOK, environment, goroutine, history

LEMMA TypeRequeue ==
    ASSUME TypeOK, NEW item \in backoff, Requeue(item)
    PROVE  TypeOK'
<1>1. queue' \in Seq(Item) /\ backoff' \subseteq Item
  BY DEF Requeue, Enqueue, TypeOK
<1> QED BY <1>1 DEF Requeue, TypeOK, environment, informer, goroutine, history

\* The head of the queue is an item, and so is what is left behind it.
LEMMA GetType ==
    ASSUME TypeOK, CanGet
    PROVE  Head(queue) \in Item /\ Tail(queue) \in Seq(Item)
BY DEF TypeOK, CanGet

LEMMA TypeGet ==
    ASSUME TypeOK, GetUnmanaged \/ GetUnreadyLeader \/ GetReadyLeader \/ GetWorker
    PROVE  TypeOK'
<1>1. CanGet /\ queue' = Tail(queue)
  BY DEF GetUnmanaged, GetUnreadyLeader, GetReadyLeader, GetWorker
<1>2. Head(queue) \in Item /\ queue' \in Seq(Item)
  BY <1>1, GetType
<1>3. CASE GetUnmanaged
  BY <1>2, <1>3 DEF GetUnmanaged, TypeOK, environment, informer, goroutine, history
<1>4. CASE GetUnreadyLeader
  <2>1. backoff' \subseteq Item /\ lossy' \in BOOLEAN
    BY <1>2, <1>4, FailType DEF GetUnreadyLeader
  <2> QED BY <1>2, <1>4, <2>1 DEF GetUnreadyLeader, TypeOK, environment, informer, goroutine
<1>5. CASE GetReadyLeader
  BY <1>2, <1>5 DEF GetReadyLeader, TypeOK, environment, informer, history
<1>6. CASE GetWorker
  <2>1. lossy' \in BOOLEAN
    BY <1>6 DEF GetWorker, Overtakes, TypeOK
  <2>2. todo' \in SUBSET Node
    BY <1>6, ReadyLists DEF GetWorker
  <2> QED BY <1>2, <1>6, <2>1, <2>2 DEF GetWorker, TypeOK, environment, informer
<1> QED BY <1>3, <1>4, <1>5, <1>6

\* The node of the pod being processed.
LEMMA SelfType ==
    ASSUME TypeOK, step # "idle"
    PROVE  current \in Item /\ Self \in Node /\ Self.pod = current.pod
<1>1. current \in Item
  BY DEF TypeOK
<1> QED BY <1>1, NodeOfType DEF Self, Item

LEMMA TypePostWorker ==
    ASSUME TypeOK, StepRole, NEW to \in todo, PostWorker(to)
    PROVE  TypeOK'
<1>1. /\ step # "idle" /\ to.pod \in Leaders
      /\ UNCHANGED <<pods, informer, queue, crashes>>
  BY DEF PostWorker, StepRole, Names
<1> DEFINE list == Applied(nodes[to.pod])
<1>2. current \in Item /\ Self \in Node
  BY <1>1, SelfType
<1>3. list \in SUBSET Node
  BY <1>1, <1>2, AddedNames, RemovedNames DEF Applied, TypeOK
<1>4. nodes' \in [Leaders -> SUBSET Node] /\ faults' \in 0..MaxFaults
  <2>1. Posted(to, list)
    BY DEF PostWorker, Posted
  <2> QED BY <1>3, <2>1, PostType
<1>5. CASE UNCHANGED <<step, current, rest, backoff>>
           /\ todo' = todo \ {to} /\ lossy' \in BOOLEAN
  BY <1>1, <1>4, <1>5 DEF TypeOK, informer
<1>6. CASE Fail(current) /\ Finish
  BY <1>1, <1>2, <1>4, <1>6, FailType DEF TypeOK, informer, Finish
<1> QED BY <1>5, <1>6 DEF PostWorker, TypeOK

\* ProcessLeader: reading the leader's list and comparing it with the store.
LEMMA TypeDiff ==
    ASSUME TypeOK, StepRole, ListExisted \/ ListExistedFails \/ DiffLeader
    PROVE  TypeOK'
<1>1. step # "idle"
  BY DEF ListExisted, ListExistedFails, DiffLeader
<1>2. current \in Item /\ Self \in Node
  BY <1>1, SelfType
<1>3. CASE ListExisted
  <2> DEFINE list == nodes[Self.pod]
  <2>1. list \in SUBSET Node
    BY <1>1, <1>3, SelfType DEF ListExisted, StepRole, TypeOK
  <2>2. todo' \subseteq Node
    BY <1>3, <2>1 DEF ListExisted
  <2>3. rest' \subseteq Node
    <3>1. rest' = {NodeOf(p, store[p]) : p \in {q \in Names(list) : store[q].exists}}
      BY <1>3 DEF ListExisted
    <3>2. \A p \in Names(list) : NodeOf(p, store[p]) \in Node
      BY <2>1, NamesArePods, NodeOfType DEF TypeOK
    <3> QED BY <3>1, <3>2
  <2> QED BY <1>2, <1>3, <2>2, <2>3
          DEF ListExisted, TypeOK, environment, informer, history
<1>4. CASE ListExistedFails
  <2>1. backoff' \subseteq Item /\ lossy' \in BOOLEAN
    BY <1>2, <1>4, FailType DEF ListExistedFails
  <2>2. faults' \in 0..MaxFaults
    BY <1>4, RegistrationAssumption DEF ListExistedFails, InjectFault, TypeOK
  <2> QED BY <1>4, <2>1, <2>2
          DEF ListExistedFails, Finish, TypeOK, environment, informer
<1>5. CASE DiffLeader
  BY <1>2, <1>5, ReadyLists DEF DiffLeader, TypeOK, environment, informer, history
<1> QED BY <1>3, <1>4, <1>5

\* Every post of ProcessLeader goes to the leader itself, with a list of nodes.
LEMMA TypePostLeader ==
    ASSUME TypeOK, step \in {"add", "remove"}, NEW n, NEW list \in SUBSET Node, PostLeader(n, list)
    PROVE  TypeOK'
<1>1. step # "idle" /\ current \in Item
  BY DEF TypeOK
<1>2. Posted(Self, list)
  BY DEF PostLeader, Posted
<1>3. nodes' \in [Leaders -> SUBSET Node] /\ faults' \in 0..MaxFaults
  BY <1>2, PostType
<1>4. CASE UNCHANGED <<step, current, rest, backoff>>
           /\ todo' = todo \ {n} /\ lossy' \in BOOLEAN
  BY <1>1, <1>3, <1>4 DEF PostLeader, TypeOK, informer
<1>5. CASE Fail(current) /\ Finish
  BY <1>1, <1>3, <1>5, FailType DEF PostLeader, TypeOK, informer, Finish
<1> QED BY <1>4, <1>5 DEF PostLeader, TypeOK

LEMMA TypeProcessLeader ==
    ASSUME TypeOK, StepRole, NEW n \in todo,
           Prune(n) \/ AddToLeader(n) \/ RemoveFromLeader(n)
    PROVE  TypeOK'
<1>1. /\ step \in {"prune", "add", "remove"} /\ n \in Node
      /\ Self.pod \in Leaders /\ current \in Item
  BY SelfType DEF Prune, AddToLeader, RemoveFromLeader, StepRole, TypeOK
<1>2. /\ Added(nodes[Self.pod], n) \in SUBSET Node
      /\ Removed(nodes[Self.pod], n) \in SUBSET Node
  BY <1>1, AddedNames, RemovedNames DEF TypeOK
<1>3. CASE Prune(n)
  <2>1. Posted(Self, Removed(nodes[Self.pod], n)) /\ lossy' \in BOOLEAN
    BY <1>3 DEF Prune, Posted, TypeOK
  <2>2. nodes' \in [Leaders -> SUBSET Node] /\ faults' \in 0..MaxFaults
    BY <1>2, <2>1, PostType
  <2> QED BY <1>1, <1>3, <2>1, <2>2 DEF Prune, TypeOK, informer
<1>4. CASE AddToLeader(n)
  BY <1>2, <1>4, TypePostLeader DEF AddToLeader
<1>5. CASE RemoveFromLeader(n)
  BY <1>2, <1>5, TypePostLeader DEF RemoveFromLeader
<1> QED BY <1>3, <1>4, <1>5

\* The steps that only move the goroutine on.
LEMMA TypeMoveOn ==
    ASSUME TypeOK, FinishWorker \/ StartRemoving \/ FinishLeader
    PROVE  TypeOK'
BY DEF FinishWorker, StartRemoving, FinishLeader, Finish, TypeOK,
       environment, informer, history

LEMMA TypeCrash == TypeOK /\ Crash => TypeOK'
<1> SUFFICES ASSUME TypeOK, Crash PROVE TypeOK'
  OBVIOUS
<1>1. Absent \in PodStatus
  BY DEF Absent, PodStatus
<1>2. store' \in [Pods -> PodStatus] /\ listing' \subseteq Pods
  BY <1>1 DEF Crash, TypeOK
<1>3. queue' \in Seq(Item)
  BY DEF Crash
<1>4. crashes' \in 0..MaxCrashes /\ faults' \in 0..MaxFaults /\ lossy' \in BOOLEAN
  <2>1. crashes' \in 0..MaxCrashes
    BY RegistrationAssumption DEF Crash, TypeOK
  <2>2. faults' \in 0..MaxFaults
    BY RegistrationAssumption DEF Crash
  <2>3. lossy' \in BOOLEAN
    BY DEF Crash
  <2> QED BY <2>1, <2>2, <2>3
<1> QED BY <1>2, <1>3, <1>4 DEF Crash, Finish, TypeOK, environment

LEMMA TypeNext ==
    ASSUME TypeOK, StepRole, [Next]_vars
    PROVE  TypeOK'
<1>1. CASE Environment
  BY <1>1, TypeEnvironment
<1>2. CASE Deliver
  BY <1>2, TypeDeliver
<1>3. CASE \E item \in backoff : Requeue(item)
  BY <1>3, TypeRequeue
<1>4. CASE ProcessNextItem
  BY <1>4, TypeGet, TypePostWorker, TypeDiff, TypeProcessLeader, TypeMoveOn
     DEF ProcessNextItem
<1>5. CASE Crash
  BY <1>5, TypeCrash
<1>6. CASE UNCHANGED vars
  BY <1>6 DEF vars, TypeOK
<1> QED BY <1>1, <1>2, <1>3, <1>4, <1>5, <1>6 DEF Next

-------------------------------------------------------------------------------
(* The role of the pod being processed.                                      *)

\* An action that leaves the goroutine alone leaves its role alone.
LEMMA StepRoleKept ==
    ASSUME StepRole, UNCHANGED goroutine
    PROVE  StepRole'
BY DEF StepRole, goroutine, Names

LEMMA StepRoleIdle ==
    ASSUME Finish
    PROVE  StepRole'
BY DEF Finish, StepRole

LEMMA StepRoleProcess ==
    ASSUME TypeOK, StepRole, ProcessNextItem
    PROVE  StepRole'
<1>1. CASE GetUnmanaged \/ GetUnreadyLeader
  <2>1. UNCHANGED goroutine
    BY <1>1 DEF GetUnmanaged, GetUnreadyLeader
  <2> QED BY <2>1, StepRoleKept
<1>2. CASE GetReadyLeader
  BY <1>2 DEF GetReadyLeader, StepRole, IsGroupLeader
<1>3. CASE GetWorker
  BY <1>3, ReadyLists DEF GetWorker, StepRole, IsGroupWorker
<1>4. ASSUME NEW to \in todo, PostWorker(to)
      PROVE  StepRole'
  <2>1. CASE Finish
    BY <2>1, StepRoleIdle
  <2>2. CASE UNCHANGED <<step, current>> /\ todo' = todo \ {to}
    <3>1. step = "post"
      BY <1>4 DEF PostWorker
    <3>2. Names(todo') \subseteq Names(todo)
      BY <2>2 DEF Names
    <3> QED BY <2>2, <3>1, <3>2 DEF StepRole
  <2> QED BY <1>4, <2>1, <2>2 DEF PostWorker
<1>5. CASE ListExistedFails \/ FinishWorker \/ FinishLeader
  BY <1>5, StepRoleIdle DEF ListExistedFails, FinishWorker, FinishLeader
<1>6. CASE ListExisted
  BY <1>6 DEF ListExisted, StepRole
<1>7. ASSUME NEW n \in todo, Prune(n)
      PROVE  StepRole'
  BY <1>7 DEF Prune, StepRole
<1>8. CASE DiffLeader
  <2>1. Self.pod = current.pod /\ current' = current /\ current.pod \in Leaders
    BY <1>8, SelfType DEF DiffLeader, StepRole
  <2>2. \A n \in todo' : n \in ListReadyWorkers \cup {Self}
    BY <1>8 DEF DiffLeader
  <2>3. Names(todo') \subseteq Workers \cup {current.pod}
    BY <2>1, <2>2, ReadyLists DEF Names
  <2> QED BY <1>8, <2>1, <2>3 DEF DiffLeader, StepRole
<1>9. ASSUME NEW n \in todo, AddToLeader(n) \/ RemoveFromLeader(n)
      PROVE  StepRole'
  <2>1. step \in {"add", "remove"}
    BY <1>9 DEF AddToLeader, RemoveFromLeader
  <2>2. CASE Finish
    BY <2>2, StepRoleIdle
  <2>3. CASE UNCHANGED <<step, current>> /\ todo' = todo \ {n}
    <3>1. Names(todo') \subseteq Names(todo)
      BY <2>3 DEF Names
    <3> QED BY <2>1, <2>3, <3>1 DEF StepRole
  <2> QED BY <1>9, <2>2, <2>3 DEF AddToLeader, RemoveFromLeader, PostLeader
<1>10. CASE StartRemoving
  BY <1>10 DEF StartRemoving, StepRole
<1> QED BY <1>1, <1>2, <1>3, <1>4, <1>5, <1>6, <1>7, <1>8, <1>9, <1>10
        DEF ProcessNextItem

LEMMA StepRoleNext ==
    ASSUME TypeOK, StepRole, [Next]_vars
    PROVE  StepRole'
<1>1. CASE Environment \/ Deliver \/ (\E item \in backoff : Requeue(item))
           \/ UNCHANGED vars
  <2>1. UNCHANGED goroutine
    BY <1>1 DEF Environment, CreatePod, ProbePod, RestartPod, DeletePod, Touch,
                Deliver, DeliverUpsert, DeliverDelete, Requeue, vars, goroutine
  <2> QED BY <2>1, StepRoleKept
<1>2. CASE ProcessNextItem
  BY <1>2, StepRoleProcess
<1>3. CASE Crash
  BY <1>3, StepRoleIdle DEF Crash
<1> QED BY <1>1, <1>2, <1>3 DEF Next

LEMMA TypeAndRole == Spec => [](TypeOK /\ StepRole)
<1>1. Init => TypeOK /\ StepRole
  BY TypeInit DEF Init, StepRole
<1>2. TypeOK /\ StepRole /\ [Next]_vars => (TypeOK /\ StepRole)'
  BY TypeNext, StepRoleNext
<1> QED BY <1>1, <1>2, PTL DEF Spec

\* Every variable keeps its type, for all pods, bounds, faults and restarts: in
\* particular NumRequeues of a queued item never exceeds errorHandler's limit.
THEOREM TypeCorrect == Spec => []TypeOK
BY TypeAndRole, PTL

-------------------------------------------------------------------------------
(* A leader's server lists workers and itself.                               *)

\* Only a post or a restart of a leader changes a list.
LEMMA ListsKept ==
    ASSUME OnlyWorkersAndSelf, UNCHANGED nodes
    PROVE  OnlyWorkersAndSelf'
BY DEF OnlyWorkersAndSelf

LEMMA ListsPosted ==
    ASSUME TypeOK, OnlyWorkersAndSelf, NEW to, NEW list,
           Posted(to, list), Names(list) \subseteq Workers \cup {to.pod}
    PROVE  OnlyWorkersAndSelf'
<1>1. CASE nodes' = nodes
  BY <1>1, ListsKept
<1>2. CASE nodes' = [nodes EXCEPT ![to.pod] = list]
  <2> SUFFICES ASSUME NEW l \in Leaders
               PROVE  Names(nodes'[l]) \subseteq Workers \cup {l}
    BY DEF OnlyWorkersAndSelf
  <2>1. CASE l = to.pod
    BY <1>2, <2>1 DEF TypeOK
  <2>2. CASE l # to.pod
    BY <1>2, <2>2 DEF TypeOK, OnlyWorkersAndSelf
  <2> QED BY <2>1, <2>2
<1> QED BY <1>1, <1>2, PostChangesOneList

\* The worker's node is added to, or removed from, the leader it is posted to.
LEMMA ListsWorker ==
    ASSUME TypeOK, StepRole, OnlyWorkersAndSelf, NEW to \in todo, PostWorker(to)
    PROVE  OnlyWorkersAndSelf'
<1>1. step # "idle" /\ to.pod \in Leaders /\ current.pod \in Workers
  BY DEF PostWorker, StepRole, Names
<1>2. Self \in Node /\ Self.pod \in Workers
  BY <1>1, SelfType
<1>3. Names(Applied(nodes[to.pod])) \subseteq Workers \cup {to.pod}
  BY <1>1, <1>2, AddedNames, RemovedNames DEF Applied, TypeOK, OnlyWorkersAndSelf
<1>4. Posted(to, Applied(nodes[to.pod]))
  BY DEF PostWorker, Posted
<1> QED BY <1>3, <1>4, ListsPosted

LEMMA ListsLeader ==
    ASSUME TypeOK, StepRole, OnlyWorkersAndSelf, NEW n \in todo,
           Prune(n) \/ AddToLeader(n) \/ RemoveFromLeader(n)
    PROVE  OnlyWorkersAndSelf'
<1>1. /\ step \in {"prune", "add", "remove"} /\ n \in Node
      /\ Self.pod \in Leaders /\ Self.pod = current.pod
  BY SelfType DEF Prune, AddToLeader, RemoveFromLeader, StepRole, TypeOK
<1>2. /\ nodes[Self.pod] \in SUBSET Node
      /\ Names(nodes[Self.pod]) \subseteq Workers \cup {Self.pod}
  BY <1>1 DEF TypeOK, OnlyWorkersAndSelf
<1>3. CASE Prune(n) \/ RemoveFromLeader(n)
  <2>1. Names(Removed(nodes[Self.pod], n)) \subseteq Workers \cup {Self.pod}
    BY <1>1, <1>2, RemovedNames
  <2>2. Posted(Self, Removed(nodes[Self.pod], n))
    BY <1>3 DEF Prune, RemoveFromLeader, PostLeader, Posted
  <2> QED BY <2>1, <2>2, ListsPosted
<1>4. CASE AddToLeader(n)
  <2>1. n.pod \in Workers \cup {Self.pod}
    BY <1>1, <1>4 DEF AddToLeader, StepRole, Names
  <2>2. Names(Added(nodes[Self.pod], n)) \subseteq Workers \cup {Self.pod}
    BY <1>1, <1>2, <2>1, AddedNames
  <2>3. Posted(Self, Added(nodes[Self.pod], n))
    BY <1>4 DEF AddToLeader, PostLeader, Posted
  <2> QED BY <2>2, <2>3, ListsPosted
<1> QED BY <1>3, <1>4

LEMMA ListsNext ==
    ASSUME TypeOK, StepRole, OnlyWorkersAndSelf, [Next]_vars
    PROVE  OnlyWorkersAndSelf'
<1>1. CASE Environment
  <2> SUFFICES ASSUME NEW p \in Pods, NEW l \in Leaders,
                      CreatePod(p) \/ ProbePod(p) \/ RestartPod(p) \/ DeletePod(p)
               PROVE  Names(nodes'[l]) \subseteq Workers \cup {l}
    BY <1>1 DEF Environment, OnlyWorkersAndSelf
  <2>1. nodes'[l] = {} \/ nodes'[l] = nodes[l]
    BY DEF CreatePod, ProbePod, RestartPod, DeletePod
  <2> QED BY <2>1 DEF OnlyWorkersAndSelf, Names
<1>2. CASE Deliver \/ (\E item \in backoff : Requeue(item)) \/ Crash
           \/ UNCHANGED vars
  <2>1. UNCHANGED nodes
    BY <1>2 DEF Deliver, DeliverUpsert, DeliverDelete, Requeue, Crash, vars, environment
  <2> QED BY <2>1, ListsKept
<1>3. CASE GetUnmanaged \/ GetUnreadyLeader \/ GetReadyLeader \/ GetWorker
           \/ FinishWorker \/ ListExisted \/ ListExistedFails \/ DiffLeader
           \/ StartRemoving \/ FinishLeader
  <2>1. UNCHANGED nodes
    BY <1>3 DEF GetUnmanaged, GetUnreadyLeader, GetReadyLeader, GetWorker,
                FinishWorker, ListExisted, ListExistedFails, DiffLeader,
                StartRemoving, FinishLeader, environment
  <2> QED BY <2>1, ListsKept
<1> QED BY <1>1, <1>2, <1>3, ListsWorker, ListsLeader DEF Next, ProcessNextItem

\* A leader's server lists nothing but workers and itself, for all pods, bounds,
\* lost and refused requests, overtaken retries and restarts.
THEOREM RegistersOnlyWorkersAndSelf == Spec => []OnlyWorkersAndSelf
<1>1. Init => OnlyWorkersAndSelf
  BY DEF Init, OnlyWorkersAndSelf, Names
<1>2. TypeOK /\ StepRole /\ OnlyWorkersAndSelf /\ [Next]_vars => OnlyWorkersAndSelf'
  BY ListsNext
<1> QED BY <1>1, <1>2, TypeAndRole, PTL DEF Spec
-------------------------------------------------------------------------------
(* The controller at rest.  While work goes on, what a list lacks is announced *)
(* by an event, an item, a retry or the step the goroutine is in.             *)

\* The items that wait, and those and the one that is processed.
Waiting == backoff \cup Range(queue)
InHand == Waiting \cup {item \in {current} : step # "idle"}

\* A copy of a pod's object is the present one, or an older version.
Past(p) == {s \in PodStatus : s.rv < pods[p].rv \/ s = pods[p]}
Newest(item, p) == item.kind = "pod" /\ item.pod = p /\ item.at = pods[p]

\* The present object of a pod is still to be delivered, or waits.
Pending(p) == store[p].rv # pods[p].rv \/ \E item \in Waiting : Newest(item, p)

\* The goroutine processes the present object of a pod.
At(p) == step # "idle" /\ Newest(current, p)

Snapshots ==
    /\ \A p \in Pods : store[p] \in Past(p) /\ (pods[p].exists => pods[p].rv > 0)
    /\ \A item \in InHand : item.at \in Past(item.pod)
    /\ step # "idle" => current.kind = "pod"
    /\ step \in {"list", "prune", "add", "remove"} => current.at.ready

\* What ProcessLeader is about to take off a list is not ready, or there is news
\* of it; and it takes nothing off that it means to keep.
Outdated(n) == n.pod \in Workers /\ Live(n.pod) => Pending(n.pod)
PruneStale == step = "prune" =>
    /\ \A n \in todo : Live(n.pod) => Pending(n.pod)
    /\ Names(todo) \cap Names(rest) = {}
    /\ At(current.pod) => Names(rest) \subseteq Names(nodes[current.pod])
DropStale ==
    /\ step = "add" => \A n \in rest : n.pod # current.pod /\ Outdated(n)
    /\ step = "remove" => \A n \in todo : n.pod # current.pod /\ Outdated(n)

\* The informer's store, its initial list and what has come from them.  Nothing is
\* registered that has not come through the store since the controller started, but
\* what the initial list will still bring; until it has, every leader is news.
FromStore ==
    /\ \A item \in InHand : store[item.pod].rv > 0
    /\ step = "add" => \A n \in todo : store[n.pod].rv > 0
    /\ \A p \in Pods : store[p].rv = 0 /\ p \notin listing =>
          \A l \in Leaders : p \notin Names(nodes[l])
Store ==
    /\ \A p \in Pods : store[p].exists => store[p].rv > 0
    /\ \A p \in Pods : ~ store[p].exists => store[p].rv = 0 \/ store[p] = pods[p]
    /\ \A p \in listing : pods[p].rv > 0
    /\ listing # {} => step = "idle" /\ \A l \in Leaders : Live(l) => Pending(l)

\* An old object of a worker is not the last that will be processed, if the worker
\* is ready, or if the last is never a tombstone.
OldBehind == \A item \in InHand :
    /\ item.kind = "pod" /\ item.pod \in Workers
    /\ Live(item.pod) \/ ~ AbruptDeletes
    /\ item.at # pods[item.pod]
    => Pending(item.pod)

\* The goroutine is about to register x at l.
Registering(l, x) ==
    \/ At(l) /\ step \in {"list", "prune"}
    \/ At(l) /\ step = "add" /\ x \in Names(todo)
    \/ At(x) /\ step = "post" /\ NodeOf(l, pods[l]) \in todo
Announced(l, x) ==
    x \in Names(nodes[l]) \/ Pending(l) \/ Pending(x) \/ Registering(l, x)
CompleteComing == \A l \in Leaders : \A x \in Workers \cup {l} :
    Live(l) /\ Live(x) => Announced(l, x)

Roles == TypeOK /\ StepRole /\ OnlyWorkersAndSelf
Stale == Snapshots /\ PruneStale /\ DropStale
Began == Store /\ FromStore
ComingInv == Roles /\ Stale /\ Began /\ (~ lossy => OldBehind /\ CompleteComing)

-------------------------------------------------------------------------------
(* Items and snapshots.                                                      *)

LEMMA WaitingType ==
    ASSUME TypeOK
    PROVE  Waiting \subseteq Item /\ InHand \subseteq Item
<1>1. Range(queue) \subseteq Item
  BY DEF TypeOK, Range
<1>2. Waiting \subseteq Item
  BY <1>1 DEF Waiting, TypeOK
<1>3. step # "idle" => current \in Item
  BY DEF TypeOK
<1> QED BY <1>2, <1>3 DEF InHand

LEMMA RangeAppend ==
    ASSUME TypeOK, NEW item \in Item, queue' = Append(queue, item)
    PROVE  Range(queue') = Range(queue) \cup {item}
<1>1. queue \in Seq(Item)
  BY DEF TypeOK
<1>2. /\ DOMAIN queue' = DOMAIN queue \cup {Len(queue) + 1}
      /\ queue'[Len(queue) + 1] = item
      /\ \A i \in DOMAIN queue : queue'[i] = queue[i]
  BY <1>1
<1> QED BY <1>2 DEF Range

LEMMA RangeTail ==
    ASSUME TypeOK, queue # <<>>, queue' = Tail(queue)
    PROVE  Range(queue) = {Head(queue)} \cup Range(queue')
<1>1. queue \in Seq(Item)
  BY DEF TypeOK
<1>2. /\ 1 \in DOMAIN queue /\ Head(queue) = queue[1]
      /\ \A i \in DOMAIN queue' : i + 1 \in DOMAIN queue /\ queue'[i] = queue[i + 1]
      /\ \A i \in DOMAIN queue : i = 1 \/ (i - 1 \in DOMAIN queue' /\ queue'[i - 1] = queue[i])
  BY <1>1
<1>3. ASSUME NEW item \in Range(queue) PROVE item \in {Head(queue)} \cup Range(queue')
  BY <1>2, <1>3 DEF Range
<1>4. ASSUME NEW item \in Range(queue') PROVE item \in Range(queue)
  BY <1>2, <1>4 DEF Range
<1>5. Head(queue) \in Range(queue)
  BY <1>2 DEF Range
<1> QED BY <1>3, <1>4, <1>5

\* Versions only grow: what is past stays past.
LEMMA PastStays ==
    ASSUME TypeOK, NEW p \in Pods, pods'[p] = pods[p] \/ pods'[p].rv > pods[p].rv,
           pods'[p] \in PodStatus
    PROVE  Past(p) \subseteq Past(p)'
BY DEF Past, TypeOK, PodStatus

\* What is past, and of the present version, is the present object.
LEMMA PresentIsNewest ==
    ASSUME TypeOK, NEW p \in Pods, NEW s \in Past(p)
    PROVE  /\ s.rv = pods[p].rv <=> s = pods[p]
           /\ s.rv \in Nat /\ pods[p].rv \in Nat /\ s.rv <= pods[p].rv
BY DEF Past, TypeOK, PodStatus

\* News of a pod stays while pods and store stay and no item is taken.
LEMMA PendingStays ==
    ASSUME UNCHANGED <<pods, store>>, Waiting \subseteq Waiting', NEW p
    PROVE  Pending(p) => Pending(p)'
BY DEF Pending, Newest

\* A failed item waits for its retry, unless it is lost.
LEMMA FailedWaits ==
    ASSUME TypeOK, NEW item \in Item, Fail(item), UNCHANGED <<pods, store, queue>>
    PROVE  /\ Waiting \subseteq Waiting'
           /\ \A i \in Waiting' : i \in Waiting \/ (i \in Item /\ i.pod = item.pod
                                    /\ i.at = item.at /\ i.kind = item.kind)
           /\ \/ \E i \in Waiting' : i.pod = item.pod /\ i.at = item.at /\ i.kind = item.kind
              \/ lossy' /\ (item.at.ready \/ item.pod \in Workers)
              \/ ~ item.at.ready /\ item.pod \notin Workers
           /\ ~ lossy' => ~ lossy
<1>1. CASE item.tries < RequeueLimit
  <2> DEFINE retry == [item EXCEPT !.tries = @ + 1]
  <2>1. /\ retry \in Item /\ retry.pod = item.pod /\ retry.at = item.at
        /\ retry.kind = item.kind
    BY <1>1, RegistrationAssumption DEF Item
  <2>2. backoff' = backoff \cup {retry} /\ lossy' = lossy
    BY <1>1 DEF Fail
  <2> QED BY <2>1, <2>2 DEF Waiting
<1>2. CASE ~ (item.tries < RequeueLimit)
  BY <1>2 DEF Fail, Waiting, IsGroupWorker
<1> QED BY <1>1, <1>2
-------------------------------------------------------------------------------
(* Snapshots, at every step.                                                 *)

\* Two items of one object; tries apart.
Same(i, j) == i.kind = j.kind /\ i.pod = j.pod /\ i.at = j.at

\* Steps of the goroutine leave pods and store alone, and take no item in hand
\* that was not there.
Takes(item) == CanGet /\ item = Head(queue) /\ queue' = Tail(queue)

LEMMA TakesWaiting ==
    ASSUME TypeOK, NEW item, Takes(item)
    PROVE  /\ item \in Item /\ item \in Waiting
           /\ Range(queue) = {item} \cup Range(queue')
<1>1. queue # <<>> /\ item \in Item
  BY GetType DEF Takes, CanGet
<1>2. Range(queue) = {item} \cup Range(queue')
  BY <1>1, RangeTail DEF Takes
<1> QED BY <1>1, <1>2 DEF Waiting

LEMMA HandKept ==
    ASSUME TypeOK, ProcessNextItem
    PROVE  /\ UNCHANGED <<pods, store, listing>>
           /\ \A i \in InHand' : \E j \in InHand : Same(i, j)
<1>1. ASSUME UNCHANGED <<queue, backoff>>,
             step' = "idle" \/ (UNCHANGED current /\ step # "idle")
      PROVE  \A i \in InHand' : \E j \in InHand : Same(i, j)
  <2>1. InHand' \subseteq InHand
    BY <1>1 DEF InHand, Waiting
  <2> QED BY <2>1 DEF Same
<1>2. ASSUME UNCHANGED <<queue, pods, store>>, step # "idle", Fail(current), Finish
      PROVE  \A i \in InHand' : \E j \in InHand : Same(i, j)
  <2>1. current \in Item /\ current \in InHand
    BY <1>2 DEF TypeOK, InHand
  <2>2. InHand' = Waiting' /\ Waiting \subseteq InHand
    BY <1>2 DEF InHand, Finish
  <2>3. \A i \in Waiting' : i \in Waiting \/ Same(i, current)
    BY <1>2, <2>1, FailedWaits DEF Same
  <2> QED BY <2>1, <2>2, <2>3 DEF Same
<1>3. CASE GetUnmanaged
  <2>1. Takes(Head(queue)) /\ UNCHANGED <<backoff, step, current>>
    BY <1>3 DEF GetUnmanaged, Takes, goroutine
  <2>2. InHand' \subseteq InHand
    BY <2>1, TakesWaiting DEF InHand, Waiting
  <2> QED BY <1>3, <2>2 DEF GetUnmanaged, environment, informer, Same
<1>4. CASE GetUnreadyLeader
  <2> DEFINE item == Head(queue)
  <2>1. Takes(item) /\ UNCHANGED <<step, current>> /\ Fail(item)
    BY <1>4 DEF GetUnreadyLeader, Takes, goroutine
  <2>2. item \in Item /\ item \in Waiting /\ Range(queue) = {item} \cup Range(queue')
    BY <2>1, TakesWaiting
  <2>3. \A i \in backoff' : i \in backoff \/ Same(i, item)
    BY <2>1, <2>2 DEF Fail, Same, Item
  <2>4. \A i \in InHand' : i \in InHand \/ Same(i, item)
    BY <2>1, <2>2, <2>3 DEF InHand, Waiting
  <2>5. item \in InHand
    BY <2>2 DEF InHand
  <2>6. \A i \in InHand' : \E j \in InHand : Same(i, j)
    BY <2>4, <2>5 DEF Same
  <2> QED BY <1>4, <2>6 DEF GetUnreadyLeader, environment, informer
<1>5. CASE GetReadyLeader \/ GetWorker
  <2>1. Takes(Head(queue)) /\ UNCHANGED backoff /\ current' = Head(queue)
    BY <1>5 DEF GetReadyLeader, GetWorker, Takes
  <2>2. InHand' \subseteq InHand
    BY <2>1, TakesWaiting DEF InHand, Waiting
  <2> QED BY <1>5, <2>2 DEF GetReadyLeader, GetWorker, environment, informer, Same
<1>6. ASSUME NEW to \in todo, PostWorker(to)
      PROVE  /\ UNCHANGED <<pods, store, listing>>
             /\ \A i \in InHand' : \E j \in InHand : Same(i, j)
  BY <1>1, <1>2, <1>6 DEF PostWorker, informer
<1>7. CASE FinishWorker \/ ListExisted \/ DiffLeader \/ StartRemoving \/ FinishLeader
  <2>1. step # "idle" /\ (step' = "idle" \/ UNCHANGED current)
    BY <1>7 DEF FinishWorker, ListExisted, DiffLeader, StartRemoving, FinishLeader, Finish
  <2>2. UNCHANGED <<pods, store, listing, queue, backoff>>
    BY <1>7 DEF FinishWorker, ListExisted, DiffLeader, StartRemoving, FinishLeader,
                environment, informer
  <2> QED BY <1>1, <2>1, <2>2
<1>8. CASE ListExistedFails
  BY <1>2, <1>8 DEF ListExistedFails, environment, informer
<1>9. ASSUME NEW n \in todo, Prune(n)
      PROVE  /\ UNCHANGED <<pods, store, listing>>
             /\ \A i \in InHand' : \E j \in InHand : Same(i, j)
  BY <1>1, <1>9 DEF Prune, informer
<1>10. ASSUME NEW n \in todo, AddToLeader(n) \/ RemoveFromLeader(n)
       PROVE  /\ UNCHANGED <<pods, store, listing>>
              /\ \A i \in InHand' : \E j \in InHand : Same(i, j)
  <2>1. /\ step # "idle" /\ UNCHANGED <<pods, store, listing, queue>>
        /\ \/ UNCHANGED <<step, current, backoff>>
           \/ Fail(current) /\ Finish
    BY <1>10 DEF AddToLeader, RemoveFromLeader, PostLeader, informer
  <2> QED BY <1>1, <1>2, <2>1
<1> QED BY <1>3, <1>4, <1>5, <1>6, <1>7, <1>8, <1>9, <1>10 DEF ProcessNextItem

\* An action of the environment gives one pod a new version.
LEMMA NewVersion ==
    ASSUME TypeOK, NEW p \in Pods,
           CreatePod(p) \/ ProbePod(p) \/ RestartPod(p) \/ DeletePod(p)
    PROVE  /\ pods'[p].rv > pods[p].rv
           /\ pods[p].exists \/ pods[p].rv = 0
           /\ \A q \in Pods \ {p} : pods'[q] = pods[q]
           /\ \A l \in Leaders : nodes'[l] = nodes[l] \/ (l = p /\ nodes'[l] = {})
           /\ UNCHANGED <<store, listing, queue, backoff, goroutine, history>>
<1>1. pods[p] \in PodStatus /\ pods[p].rv + 1 \in Nat /\ pods[p].rv + 1 > pods[p].rv
  BY DEF TypeOK, PodStatus
<1>2. ASSUME NEW s \in PodStatus, Touch(p, s)
      PROVE  /\ pods'[p].rv > pods[p].rv
             /\ \A q \in Pods \ {p} : pods'[q] = pods[q]
             /\ UNCHANGED <<store, listing, queue, backoff, goroutine, history>>
  <2>1. pods'[p] = [s EXCEPT !.rv = pods[p].rv + 1] /\ \A q \in Pods \ {p} : pods'[q] = pods[q]
    BY <1>2 DEF Touch, TypeOK
  <2>2. pods'[p].rv = pods[p].rv + 1
    BY <2>1 DEF PodStatus
  <2> QED BY <1>1, <1>2, <2>1, <2>2 DEF Touch, informer
<1>3. \E s \in PodStatus : Touch(p, s)
  <2>1. CASE CreatePod(p)
    BY <1>1, <2>1 DEF CreatePod, PodStatus
  <2>2. CASE ProbePod(p)
    BY <1>1, <2>2 DEF ProbePod, PodStatus
  <2>3. CASE RestartPod(p)
    <3>1. PICK a \in {pods[p].addr, pods[p].addr + 1} :
             Touch(p, [pods[p] EXCEPT !.ready = FALSE, !.addr = a])
      BY <2>3 DEF RestartPod
    <3>2. [pods[p] EXCEPT !.ready = FALSE, !.addr = a] \in PodStatus
      <4>1. a \in Nat
        BY <1>1 DEF PodStatus
      <4> QED BY <1>1, <4>1 DEF PodStatus
    <3> QED BY <3>1, <3>2
  <2>4. CASE DeletePod(p)
    BY <1>1, <2>4 DEF DeletePod, PodStatus
  <2> QED BY <2>1, <2>2, <2>3, <2>4
<1>4. \A l \in Leaders : nodes'[l] = nodes[l] \/ (l = p /\ nodes'[l] = {})
  BY DEF CreatePod, ProbePod, RestartPod, DeletePod
<1>5. pods[p].exists \/ pods[p].rv = 0
  BY DEF CreatePod, ProbePod, RestartPod, DeletePod
<1> QED BY <1>2, <1>3, <1>4, <1>5

\* Where the goroutine works on a ready leader's object, it is so.
LEMMA ReadyObject ==
    ASSUME TypeOK, Snapshots, ProcessNextItem
    PROVE  /\ step' # "idle" => current'.kind = "pod"
           /\ step' \in {"list", "prune", "add", "remove"} => current'.at.ready
<1>1. CASE GetReadyLeader \/ GetWorker
  BY <1>1 DEF GetReadyLeader, GetWorker
<1>2. CASE GetUnmanaged \/ GetUnreadyLeader
  BY <1>2 DEF GetUnmanaged, GetUnreadyLeader, goroutine, Snapshots
<1>3. CASE FinishWorker \/ FinishLeader \/ ListExistedFails
  BY <1>3 DEF FinishWorker, FinishLeader, ListExistedFails, Finish
<1>4. CASE ListExisted \/ DiffLeader \/ StartRemoving
  BY <1>4 DEF ListExisted, DiffLeader, StartRemoving, Snapshots
<1>5. ASSUME NEW n \in todo, PostWorker(n) \/ Prune(n) \/ AddToLeader(n) \/ RemoveFromLeader(n)
      PROVE  step' = "idle" \/ UNCHANGED <<step, current>>
  BY <1>5 DEF PostWorker, Prune, AddToLeader, RemoveFromLeader, PostLeader, Finish
<1> QED BY <1>1, <1>2, <1>3, <1>4, <1>5 DEF ProcessNextItem, Snapshots

LEMMA SnapshotsNext ==
    ASSUME TypeOK, Snapshots, TypeOK', [Next]_vars
    PROVE  Snapshots'
<1>1. CASE Environment
  <2>1. PICK p \in Pods : CreatePod(p) \/ ProbePod(p) \/ RestartPod(p) \/ DeletePod(p)
    BY <1>1 DEF Environment
  <2>2. /\ pods'[p].rv > pods[p].rv
        /\ \A q \in Pods \ {p} : pods'[q] = pods[q]
        /\ UNCHANGED <<store, queue, backoff, step, current>>
    BY <2>1, NewVersion DEF goroutine
  <2>3. ASSUME NEW q \in Pods PROVE Past(q) \subseteq Past(q)'
    <3>1. pods'[q] \in PodStatus
      BY DEF TypeOK
    <3>2. pods'[q] = pods[q] \/ pods'[q].rv > pods[q].rv
      BY <2>2
    <3> QED BY <3>1, <3>2, PastStays
  <2>4. InHand' = InHand /\ \A item \in InHand : item.pod \in Pods
    BY <2>2, WaitingType DEF InHand, Waiting, Item
  <2>5. \A q \in Pods : pods'[q].exists => pods'[q].rv > 0
    <3>1. pods[p].rv \in Nat /\ pods'[p].rv \in Nat
      BY DEF TypeOK, PodStatus
    <3>2. pods'[p].rv > 0
      BY <2>2, <3>1
    <3> QED BY <2>2, <3>2 DEF Snapshots
  <2>6. \A q \in Pods : store'[q] \in Past(q)'
    BY <2>2, <2>3 DEF Snapshots
  <2>7. \A item \in InHand' : item.at \in Past(item.pod)'
    BY <2>3, <2>4 DEF Snapshots
  <2> QED BY <2>2, <2>5, <2>6, <2>7 DEF Snapshots
<1>2. CASE Deliver
  <2>1. PICK p \in Pods : DeliverUpsert(p) \/ DeliverDelete(p)
    BY <1>2 DEF Deliver
  <2>2. /\ store' = [store EXCEPT ![p] = pods[p]]
        /\ UNCHANGED <<pods, backoff, step, current>>
    BY <2>1 DEF DeliverUpsert, DeliverDelete, environment, goroutine
  <2>3. \A q \in Pods : Past(q)' = Past(q)
    BY <2>2 DEF Past
  <2>4. pods[p] \in Past(p) /\ store[p] \in Past(p)
    BY DEF Past, TypeOK, Snapshots
  <2>5. \A q \in Pods : store'[q] \in Past(q)
    BY <2>2, <2>4 DEF TypeOK, Snapshots
  <2>6. \A i \in InHand' : i \in InHand \/ (i.pod = p /\ i.at \in {pods[p], store[p]})
    <3> DEFINE New(i) == i.pod = p /\ i.at \in {pods[p], store[p]}
    <3>0. UNCHANGED <<backoff, step, current>>
      BY <2>2
    <3>1. CASE UNCHANGED queue
      BY <3>0, <3>1 DEF InHand, Waiting
    <3>2. ASSUME NEW k \in {"pod", "tombstone"}, NEW s \in {pods[p], store[p]},
                 Enqueue(NewItem(k, p, s))
          PROVE  \A i \in InHand' : i \in InHand \/ New(i)
      <4>1. NewItem(k, p, s) \in Item
        BY NewItemType DEF TypeOK
      <4>2. Range(queue') = Range(queue) \cup {NewItem(k, p, s)}
        BY <3>2, <4>1, RangeAppend DEF Enqueue
      <4>3. New(NewItem(k, p, s))
        BY DEF NewItem
      <4> QED BY <3>0, <4>2, <4>3 DEF InHand, Waiting
    <3>3. CASE Enqueue(NewItem("pod", p, pods[p])) \/ Enqueue(NewItem("tombstone", p, store[p]))
      BY <3>2, <3>3
    <3> QED BY <2>1, <3>1, <3>3 DEF DeliverUpsert, DeliverDelete
  <2>7. \A i \in InHand' : i.at \in Past(i.pod)
    BY <2>4, <2>6 DEF Snapshots
  <2>8. \A i \in InHand' : i.pod \in Pods
    BY <2>6, WaitingType DEF Item
  <2> QED BY <2>2, <2>3, <2>5, <2>7, <2>8 DEF Snapshots
<1>3. ASSUME UNCHANGED <<pods, store>>, \A i \in InHand' : \E j \in InHand : Same(i, j),
             step' # "idle" => current'.kind = "pod",
             step' \in {"list", "prune", "add", "remove"} => current'.at.ready
      PROVE  Snapshots'
  <2>1. \A q \in Pods : Past(q)' = Past(q)
    BY <1>3 DEF Past
  <2>2. \A i \in InHand' : i.at \in Past(i.pod) /\ i.pod \in Pods
    BY <1>3, WaitingType DEF Snapshots, Same, Item
  <2> QED BY <1>3, <2>1, <2>2 DEF Snapshots
<1>4. CASE \E item \in backoff : Requeue(item)
  <2>1. PICK item \in backoff : Requeue(item)
    BY <1>4
  <2>2. item \in Item /\ Range(queue') = Range(queue) \cup {item}
    BY <2>1, RangeAppend DEF Requeue, Enqueue, TypeOK
  <2>3. InHand' \subseteq InHand
    BY <2>1, <2>2 DEF Requeue, InHand, Waiting, goroutine
  <2>4. \A i \in InHand' : \E j \in InHand : Same(i, j)
    BY <2>3 DEF Same
  <2> QED BY <1>3, <2>1, <2>4 DEF Requeue, environment, informer, goroutine, Snapshots
<1>5. CASE ProcessNextItem
  BY <1>3, <1>5, HandKept, ReadyObject
<1>6. CASE Crash
  <2>1. /\ UNCHANGED pods /\ InHand' = {} /\ step' = "idle"
        /\ \A p \in Pods : (store'[p] = Absent /\ pods[p].exists) \/ store'[p] = pods[p]
    BY <1>6 DEF Crash, Finish, InHand, Waiting, Range, environment
  <2>2. \A p \in Pods : Absent \in PodStatus /\ Absent.rv = 0 /\ pods[p].rv \in Nat
    BY DEF Absent, TypeOK, PodStatus
  <2>3. \A p \in Pods : store'[p] \in Past(p)'
    BY <2>1, <2>2 DEF Past, Snapshots, TypeOK
  <2> QED BY <2>1, <2>3 DEF Snapshots
<1>7. CASE UNCHANGED vars
  BY <1>7 DEF vars, Snapshots, InHand, Waiting, Past
<1> QED BY <1>1, <1>2, <1>4, <1>5, <1>6, <1>7 DEF Next
-------------------------------------------------------------------------------
(* News.                                                                     *)

\* What happens outside the goroutine: a pod is news, or nothing has changed about
\* it, or it has been deleted without notice; a list changes only with its leader.
Outside == Environment \/ Deliver \/ \E item \in backoff : Requeue(item)
StillAsIt(p) == pods'[p] = pods[p] /\ ~ Pending(p)
Unheard(p) == DeliverDelete(p) /\ (AbruptDeletes \/ ~ store[p].exists)

LEMMA NewVersionIsNews ==
    ASSUME TypeOK, Snapshots, TypeOK', NEW p \in Pods,
           pods'[p].rv > pods[p].rv, UNCHANGED store
    PROVE  Pending(p)'
<1>1. store[p].rv \in Nat /\ pods[p].rv \in Nat /\ pods'[p].rv \in Nat
  BY DEF TypeOK, PodStatus
<1>2. store[p].rv <= pods[p].rv
  BY PresentIsNewest DEF Snapshots
<1>3. store'[p].rv # pods'[p].rv
  BY <1>1, <1>2
<1> QED BY <1>3 DEF Pending

LEMMA OutsideStill ==
    ASSUME TypeOK, Snapshots, TypeOK', Outside
    PROVE  /\ UNCHANGED <<step, current, todo, rest, lossy>>
           /\ \A p \in Pods : Pending(p)' \/ StillAsIt(p) \/ Unheard(p)
           /\ \A p \in Pods : Live(p)' => Pending(p)' \/ StillAsIt(p)
           /\ \A l \in Leaders : nodes'[l] = nodes[l] \/ pods'[l] # pods[l]
<1>1. CASE Environment
  <2>1. PICK q \in Pods : CreatePod(q) \/ ProbePod(q) \/ RestartPod(q) \/ DeletePod(q)
    BY <1>1 DEF Environment
  <2>2. /\ pods'[q].rv > pods[q].rv
        /\ \A p \in Pods \ {q} : pods'[p] = pods[p]
        /\ \A l \in Leaders : nodes'[l] = nodes[l] \/ (l = q /\ nodes'[l] = {})
        /\ UNCHANGED <<store, queue, backoff, step, current, todo, rest, lossy>>
    BY <2>1, NewVersion DEF goroutine, history
  <2>3. Pending(q)'
    BY <2>2, NewVersionIsNews
  <2>4. ASSUME NEW p \in Pods \ {q}
        PROVE  Pending(p)' \/ StillAsIt(p)
    <3>1. Pending(p) => Pending(p)'
      BY <2>2 DEF Pending, Newest, Waiting
    <3> QED BY <2>2, <3>1 DEF StillAsIt
  <2>5. pods'[q] # pods[q]
    BY <2>2 DEF TypeOK, PodStatus
  <2> QED BY <2>2, <2>3, <2>4, <2>5
<1>2. CASE Deliver
  <2>1. PICK q \in Pods : DeliverUpsert(q) \/ DeliverDelete(q)
    BY <1>2 DEF Deliver
  <2>2. /\ store' = [store EXCEPT ![q] = pods[q]]
        /\ UNCHANGED <<pods, nodes, backoff, step, current, todo, rest, lossy>>
    BY <2>1 DEF DeliverUpsert, DeliverDelete, environment, goroutine, history
  <2>3. Waiting \subseteq Waiting'
    <3>1. CASE UNCHANGED queue
      BY <2>2, <3>1 DEF Waiting
    <3>2. ASSUME NEW k \in {"pod", "tombstone"}, NEW s \in {pods[q], store[q]},
                 Enqueue(NewItem(k, q, s))
          PROVE  Waiting \subseteq Waiting'
      <4>1. NewItem(k, q, s) \in Item
        BY NewItemType DEF TypeOK
      <4>2. Range(queue') = Range(queue) \cup {NewItem(k, q, s)}
        BY <3>2, <4>1, RangeAppend DEF Enqueue
      <4> QED BY <2>2, <4>2 DEF Waiting
    <3>3. CASE Enqueue(NewItem("pod", q, pods[q])) \/ Enqueue(NewItem("tombstone", q, store[q]))
      BY <3>2, <3>3
    <3> QED BY <2>1, <3>1, <3>3 DEF DeliverUpsert, DeliverDelete
  <2>4. ASSUME NEW p \in Pods \ {q}
        PROVE  Pending(p) => Pending(p)'
    <3>1. store'[p] = store[p]
      BY <2>2
    <3> QED BY <2>2, <2>3, <3>1 DEF Pending, Newest
  <2>5. Pending(q)' \/ Unheard(q)
    <3> SUFFICES ASSUME ~ Unheard(q) PROVE Pending(q)'
      OBVIOUS
    <3>1. /\ NewItem("pod", q, pods[q]) \in Item /\ Newest(NewItem("pod", q, pods[q]), q)
          /\ Enqueue(NewItem("pod", q, pods[q]))
      BY <2>1, NewItemType DEF DeliverUpsert, DeliverDelete, Unheard, TypeOK, NewItem, Newest
    <3>2. PICK item \in Item : Newest(item, q) /\ Enqueue(item)
      BY <3>1
    <3>3. Range(queue') = Range(queue) \cup {item}
      BY <3>2, RangeAppend DEF Enqueue
    <3>4. item \in Waiting' /\ Newest(item, q)'
      BY <2>2, <3>2, <3>3 DEF Waiting, Newest
    <3> QED BY <3>4 DEF Pending
  <2>6. \A p \in Pods : Live(p)' => ~ Unheard(p)
    BY <2>2 DEF Live, Unheard, DeliverDelete
  <2>7. ASSUME NEW p \in Pods
        PROVE  Pending(p)' \/ StillAsIt(p) \/ Unheard(p)
    BY <2>2, <2>4, <2>5 DEF StillAsIt
  <2> QED BY <2>2, <2>6, <2>7
<1>3. CASE \E item \in backoff : Requeue(item)
  <2>1. PICK item \in backoff : Requeue(item)
    BY <1>3
  <2>2. item \in Item /\ Range(queue') = Range(queue) \cup {item}
    BY <2>1, RangeAppend DEF Requeue, Enqueue, TypeOK
  <2>3. Waiting' = Waiting
    BY <2>1, <2>2 DEF Requeue, Waiting
  <2>4. UNCHANGED <<pods, store, nodes, step, current, todo, rest, lossy>>
    BY <2>1 DEF Requeue, environment, informer, goroutine, history
  <2>5. \A p \in Pods : Pending(p)' = Pending(p)
    BY <2>3, <2>4 DEF Pending, Newest
  <2> QED BY <2>4, <2>5 DEF StillAsIt
<1> QED BY <1>1, <1>2, <1>3 DEF Outside

\* A goroutine that is at work takes nothing out of what waits, and what it
\* fails to do waits again.
LEMMA WorkKeepsNews ==
    ASSUME TypeOK, ProcessNextItem, step # "idle"
    PROVE  /\ UNCHANGED <<pods, store, listing, queue>> /\ Waiting \subseteq Waiting'
           /\ \A p : Pending(p) => Pending(p)'
           /\ ~ lossy' => ~ lossy
<1>1. UNCHANGED <<pods, store, listing>>
  BY HandKept
<1>2. current \in Item
  BY DEF TypeOK
<1>3. UNCHANGED queue
  BY DEF ProcessNextItem, GetUnmanaged, GetUnreadyLeader, GetReadyLeader, GetWorker,
         CanGet, PostWorker, FinishWorker, ListExisted, ListExistedFails, Prune,
         DiffLeader, AddToLeader, StartRemoving, RemoveFromLeader, FinishLeader, PostLeader
<1>4. \/ backoff' = backoff /\ (~ lossy' => ~ lossy)
      \/ Fail(current)
  BY DEF ProcessNextItem, GetUnmanaged, GetUnreadyLeader, GetReadyLeader, GetWorker,
         CanGet, PostWorker, FinishWorker, ListExisted, ListExistedFails, Prune,
         DiffLeader, AddToLeader, StartRemoving, RemoveFromLeader, FinishLeader,
         PostLeader, history
<1>5. Waiting \subseteq Waiting' /\ (~ lossy' => ~ lossy)
  <2>1. CASE backoff' = backoff /\ (~ lossy' => ~ lossy)
    BY <1>3, <2>1 DEF Waiting
  <2>2. CASE Fail(current)
    BY <1>1, <1>2, <1>3, <2>2, FailedWaits
  <2> QED BY <1>4, <2>1, <2>2
<1>6. \A p : Pending(p) => Pending(p)'
  BY <1>1, <1>5, PendingStays
<1> QED BY <1>1, <1>3, <1>5, <1>6

LEMMA FailureIsNews ==
    ASSUME TypeOK, Fail(current), step # "idle", UNCHANGED <<pods, store, queue>>, ~ lossy',
           current.at.ready \/ current.pod \in Workers, NEW p, At(p)
    PROVE  Pending(p)'
<1>1. current \in Item /\ Newest(current, p)
  BY DEF TypeOK, At
<1>2. PICK i \in Waiting' : i.pod = current.pod /\ i.at = current.at /\ i.kind = current.kind
  BY <1>1, FailedWaits
<1>3. Newest(i, p)'
  BY <1>1, <1>2 DEF Newest
<1> QED BY <1>3 DEF Pending

\* An item that is taken may have been the last news of its pod.
LEMMA TakingNews ==
    ASSUME TypeOK, NEW item, Takes(item), UNCHANGED <<pods, store>>,
           backoff \subseteq backoff', NEW p, Pending(p)
    PROVE  Pending(p)' \/ Newest(item, p)
<1>1. Waiting \subseteq Waiting' \cup {item}
  BY TakesWaiting DEF Waiting
<1> QED BY <1>1 DEF Pending, Newest

\* The four ways to take an item.
LEMMA Taking ==
    ASSUME TypeOK, ProcessNextItem, step = "idle"
    PROVE  /\ GetUnmanaged \/ GetUnreadyLeader \/ GetReadyLeader \/ GetWorker
           /\ Takes(Head(queue)) /\ Head(queue) \in Item /\ Head(queue) \in Waiting
           /\ UNCHANGED <<pods, store, nodes>> /\ backoff \subseteq backoff'
           /\ ~ lossy' => ~ lossy
<1>1. GetUnmanaged \/ GetUnreadyLeader \/ GetReadyLeader \/ GetWorker
  BY DEF ProcessNextItem, PostWorker, FinishWorker, ListExisted, ListExistedFails,
         Prune, DiffLeader, AddToLeader, StartRemoving, RemoveFromLeader, FinishLeader
<1>2. Takes(Head(queue)) /\ UNCHANGED <<pods, store, nodes>>
  BY <1>1 DEF GetUnmanaged, GetUnreadyLeader, GetReadyLeader, GetWorker, Takes,
              environment, informer
<1>3. Head(queue) \in Item /\ Head(queue) \in Waiting
  BY <1>2, TakesWaiting
<1>4. backoff \subseteq backoff' /\ (~ lossy' => ~ lossy)
  <2>1. CASE GetUnmanaged \/ GetReadyLeader
    BY <2>1 DEF GetUnmanaged, GetReadyLeader, history
  <2>3. CASE GetWorker
    <3>1. backoff' = backoff /\ (lossy' = (lossy \/ Overtakes(Head(queue))))
      BY <2>3 DEF GetWorker
    <3>2. ~ lossy' => ~ lossy
      BY <3>1, Zenon
    <3> QED BY <3>1, <3>2
  <2>2. CASE GetUnreadyLeader
    BY <2>2 DEF GetUnreadyLeader, Fail
  <2> QED BY <1>1, <2>1, <2>2, <2>3
<1> QED BY <1>1, <1>2, <1>3, <1>4
-------------------------------------------------------------------------------
(* What ProcessLeader prunes and drops.                                      *)

\* A ready pod the store does not show as ready is news.
LEMMA BehindIsNews ==
    ASSUME TypeOK, Snapshots, NEW p \in Pods, store[p] # pods[p]
    PROVE  Pending(p)
BY PresentIsNewest DEF Snapshots, Pending

LEMMA UnlistedIsNews ==
    ASSUME TypeOK, Snapshots, NEW p \in Workers, Live(p), p \notin Names(ListReadyWorkers)
    PROVE  Pending(p)
<1>1. p \in Pods /\ NodeOf(p, store[p]).pod = p
  BY DEF Pods, NodeOf
<1>2. ~ (store[p].exists /\ store[p].ready)
  BY <1>1 DEF ListReadyWorkers, IsGroupWorker, Names
<1> QED BY <1>1, <1>2, BehindIsNews DEF Live

LEMMA UnreachedIsNews ==
    ASSUME TypeOK, Snapshots, NEW l \in Leaders, Live(l), NodeOf(l, pods[l]) \notin ListReadyLeaders
    PROVE  Pending(l)
<1>1. l \in Pods
  BY DEF Pods
<1>2. store[l] # pods[l]
  BY <1>1 DEF ListReadyLeaders, IsGroupLeader, Live
<1> QED BY <1>1, <1>2, BehindIsNews

\* The steps that lead to, or stay in, each stage of ProcessLeader.
LEMMA Stages ==
    ASSUME ProcessNextItem
    PROVE  /\ step' = "prune" => ListExisted \/ \E n \in todo : Prune(n)
           /\ step' = "add" => \/ DiffLeader
                               \/ \E n \in todo : AddToLeader(n) /\ UNCHANGED <<current, rest>>
                                                  /\ todo' = todo \ {n}
           /\ step' = "remove" => \/ StartRemoving
                                  \/ \E n \in todo : RemoveFromLeader(n)
                                        /\ UNCHANGED current /\ todo' = todo \ {n}
<1>1. CASE GetUnmanaged \/ GetUnreadyLeader \/ GetReadyLeader \/ GetWorker
  BY <1>1 DEF GetUnmanaged, GetUnreadyLeader, GetReadyLeader, GetWorker, CanGet, goroutine
<1>2. CASE FinishWorker \/ FinishLeader \/ ListExistedFails \/ \E to \in todo : PostWorker(to)
  BY <1>2 DEF FinishWorker, FinishLeader, ListExistedFails, PostWorker, Finish
<1>3. CASE ListExisted \/ DiffLeader \/ StartRemoving
  BY <1>3 DEF ListExisted, DiffLeader, StartRemoving
<1>4. CASE \E n \in todo : Prune(n) \/ AddToLeader(n) \/ RemoveFromLeader(n)
  BY <1>4 DEF Prune, AddToLeader, RemoveFromLeader, PostLeader, Finish
<1> QED BY <1>1, <1>2, <1>3, <1>4 DEF ProcessNextItem

LEMMA PruneStaleWork ==
    ASSUME TypeOK, StepRole, Snapshots, PruneStale, ProcessNextItem
    PROVE  PruneStale'
<1> SUFFICES ASSUME step' = "prune"
             PROVE  /\ \A n \in todo' : Live(n.pod)' => Pending(n.pod)'
                    /\ Names(todo') \cap Names(rest') = {}
                    /\ At(current.pod)' => Names(rest') \subseteq Names(nodes'[current'.pod])
  BY DEF PruneStale
<1>1. CASE ListExisted
  <2> DEFINE list == nodes[Self.pod]
  <2>1. /\ step = "list" /\ UNCHANGED <<nodes, current>>
        /\ todo' = {n \in list : ~ store[n.pod].exists}
        /\ rest' = {NodeOf(p, store[p]) : p \in {q \in Names(list) : store[q].exists}}
    BY <1>1 DEF ListExisted, environment
  <2>2. Self.pod = current.pod /\ current.pod \in Leaders /\ list \in SUBSET Node
    BY <2>1, SelfType DEF StepRole, TypeOK
  <2>3. \A p : Pending(p) => Pending(p)'
    BY <2>1, WorkKeepsNews
  <2>4. UNCHANGED pods
    BY <2>1, WorkKeepsNews
  <2>5. ASSUME NEW n \in todo', Live(n.pod)'
        PROVE  Pending(n.pod)'
    <3>1. n.pod \in Pods /\ Live(n.pod) /\ ~ store[n.pod].exists
      BY <2>1, <2>2, <2>4, <2>5 DEF Node, Live
    <3>2. store[n.pod] # pods[n.pod]
      BY <3>1 DEF Live
    <3> QED BY <2>3, <3>1, <3>2, BehindIsNews
  <2>6. Names(todo') \cap Names(rest') = {}
    BY <2>1 DEF Names, NodeOf
  <2>7. Names(rest') \subseteq Names(list)
    BY <2>1 DEF Names, NodeOf
  <2> QED BY <2>1, <2>2, <2>5, <2>6, <2>7
<1>2. ASSUME NEW n \in todo, Prune(n)
      PROVE  /\ \A m \in todo' : Live(m.pod)' => Pending(m.pod)'
             /\ Names(todo') \cap Names(rest') = {}
             /\ At(current.pod)' => Names(rest') \subseteq Names(nodes'[current'.pod])
  <2> DEFINE list == nodes[Self.pod]
  <2>1. /\ step = "prune" /\ UNCHANGED <<pods, current, step, rest>> /\ todo' = todo \ {n}
        /\ Posted(Self, Removed(list, n))
    BY <1>2 DEF Prune, Posted
  <2>2. Self.pod = current.pod /\ current.pod \in Leaders /\ list \in SUBSET Node /\ n \in Node
    BY <2>1, SelfType DEF StepRole, TypeOK
  <2>3. \A p : Pending(p) => Pending(p)'
    BY <2>1, WorkKeepsNews
  <2>4. /\ \A m \in todo : Live(m.pod) => Pending(m.pod)
        /\ Names(todo) \cap Names(rest) = {}
        /\ At(current.pod) => Names(rest) \subseteq Names(list)
    BY <2>1, <2>2 DEF PruneStale
  <2>5. \A m \in todo' : Live(m.pod)' => Pending(m.pod)'
    BY <2>1, <2>3, <2>4 DEF Live
  <2>6. Names(todo') \subseteq Names(todo)
    BY <2>1 DEF Names
  <2>7. At(current.pod)' = At(current.pod)
    BY <2>1 DEF At, Newest
  <2>8. nodes' = nodes \/ nodes' = [nodes EXCEPT ![Self.pod] = Removed(list, n)]
    BY <2>1, PostChangesOneList
  <2>9. Names(list) \ {n.pod} \subseteq Names(nodes'[current.pod])
    <3>1. CASE nodes' = nodes
      BY <2>2, <3>1
    <3>2. CASE nodes' = [nodes EXCEPT ![Self.pod] = Removed(list, n)]
      <4>1. nodes'[current.pod] = Removed(list, n)
        BY <2>2, <3>2 DEF TypeOK
      <4> QED BY <2>2, <4>1, RemovedNames
    <3> QED BY <2>8, <3>1, <3>2
  <2>10. n.pod \notin Names(rest)
    BY <2>4 DEF Names
  <2>11. Names(rest) \subseteq Names(list) => Names(rest) \subseteq Names(nodes'[current.pod])
    BY <2>9, <2>10
  <2> QED BY <2>1, <2>4, <2>5, <2>6, <2>7, <2>11
<1> QED BY <1>1, <1>2, Stages

LEMMA DropStaleWork ==
    ASSUME TypeOK, StepRole, Snapshots, DropStale, ProcessNextItem
    PROVE  DropStale'
<1>1. step' = "add" => \A n \in rest' : n.pod # current'.pod /\ Outdated(n)'
  <2>1. CASE DiffLeader
    <3>1. /\ step = "prune" /\ current' = current
          /\ rest' = {n \in rest : n.pod \notin Names(ListReadyWorkers \cup {Self})}
      BY <2>1 DEF DiffLeader
    <3>2. Self.pod = current.pod /\ UNCHANGED pods /\ \A p : Pending(p) => Pending(p)'
      BY <3>1, SelfType, WorkKeepsNews
    <3>3. ASSUME NEW n \in rest'
          PROVE  n.pod # current.pod /\ n.pod \notin Names(ListReadyWorkers)
      BY <3>1, <3>2 DEF Names
    <3>4. ASSUME NEW n \in rest' PROVE Outdated(n)'
      BY <3>2, <3>3, UnlistedIsNews DEF Outdated, Live
    <3> QED BY <3>1, <3>3, <3>4
  <2>2. ASSUME NEW m \in todo, AddToLeader(m), UNCHANGED <<current, rest>>
        PROVE  \A n \in rest' : n.pod # current'.pod /\ Outdated(n)'
    <3>1. step = "add"
      BY <2>2 DEF AddToLeader
    <3>2. UNCHANGED pods /\ \A p : Pending(p) => Pending(p)'
      BY <3>1, WorkKeepsNews
    <3> QED BY <2>2, <3>1, <3>2 DEF DropStale, Outdated, Live
  <2> QED BY <2>1, <2>2, Stages
<1>2. step' = "remove" => \A n \in todo' : n.pod # current'.pod /\ Outdated(n)'
  <2>1. CASE StartRemoving
    <3>1. step = "add" /\ current' = current /\ todo' = rest
      BY <2>1 DEF StartRemoving
    <3>2. UNCHANGED pods /\ \A p : Pending(p) => Pending(p)'
      BY <3>1, WorkKeepsNews
    <3> QED BY <3>1, <3>2 DEF DropStale, Outdated, Live
  <2>2. ASSUME NEW m \in todo, RemoveFromLeader(m), UNCHANGED current, todo' = todo \ {m}
        PROVE  \A n \in todo' : n.pod # current'.pod /\ Outdated(n)'
    <3>1. step = "remove"
      BY <2>2 DEF RemoveFromLeader
    <3>2. UNCHANGED pods /\ \A p : Pending(p) => Pending(p)'
      BY <3>1, WorkKeepsNews
    <3> QED BY <2>2, <3>1, <3>2 DEF DropStale, Outdated, Live
  <2> QED BY <2>1, <2>2, Stages
<1> QED BY <1>1, <1>2 DEF DropStale

\* Outside the goroutine, what was stale stays stale.
LEMMA StaleOutside ==
    ASSUME TypeOK, StepRole, Snapshots, PruneStale, DropStale, TypeOK', Outside
    PROVE  PruneStale' /\ DropStale'
<1>1. /\ UNCHANGED <<step, current, todo, rest>>
      /\ \A p \in Pods : Live(p)' => Pending(p)' \/ StillAsIt(p)
      /\ \A l \in Leaders : nodes'[l] = nodes[l] \/ pods'[l] # pods[l]
  BY OutsideStill
<1>2. \A n \in todo \cup rest : n.pod \in Pods
  BY DEF TypeOK, Node
<1>3. ASSUME NEW p \in Pods, Live(p) => Pending(p), Live(p)'
      PROVE  Pending(p)'
  BY <1>1, <1>3 DEF StillAsIt, Live
<1>4. DropStale'
  <2>1. \A n \in todo \cup rest : Outdated(n) => Outdated(n)'
    BY <1>2, <1>3 DEF Outdated
  <2> QED BY <1>1, <2>1 DEF DropStale
<1>5. PruneStale'
  <2> SUFFICES ASSUME step = "prune"
               PROVE  /\ \A n \in todo : Live(n.pod)' => Pending(n.pod)'
                      /\ Names(todo) \cap Names(rest) = {}
                      /\ At(current.pod)' => Names(rest) \subseteq Names(nodes'[current.pod])
    BY <1>1 DEF PruneStale
  <2>1. \A n \in todo : Live(n.pod)' => Pending(n.pod)'
    BY <1>2, <1>3 DEF PruneStale
  <2>2. At(current.pod)' => At(current.pod) /\ nodes'[current.pod] = nodes[current.pod]
    <3> SUFFICES ASSUME At(current.pod)'
                 PROVE  At(current.pod) /\ nodes'[current.pod] = nodes[current.pod]
      OBVIOUS
    <3>1. current.pod \in Leaders /\ current.pod \in Pods /\ current \in InHand
      BY DEF StepRole, Pods, InHand
    <3>2. current.at = pods'[current.pod] /\ current.kind = "pod"
      BY <1>1 DEF At, Newest
    <3>3. pods'[current.pod] = pods[current.pod]
      <4>1. current.at \in Past(current.pod)
        BY <3>1 DEF Snapshots
      <4>2. CASE Outside /\ pods'[current.pod].rv > pods[current.pod].rv
        BY <3>1, <3>2, <4>1, <4>2 DEF Past, TypeOK, PodStatus
      <4>3. pods'[current.pod].rv > pods[current.pod].rv \/ pods'[current.pod] = pods[current.pod]
        <5>1. CASE Environment
          <6>1. PICK q \in Pods : CreatePod(q) \/ ProbePod(q) \/ RestartPod(q) \/ DeletePod(q)
            BY <5>1 DEF Environment
          <6> QED BY <3>1, <6>1, NewVersion
        <5>2. CASE Deliver \/ \E item \in backoff : Requeue(item)
          BY <5>2 DEF Deliver, DeliverUpsert, DeliverDelete, Requeue, environment
        <5> QED BY <5>1, <5>2 DEF Outside
      <4> QED BY <4>2, <4>3
    <3> QED BY <1>1, <3>1, <3>2, <3>3 DEF At, Newest
  <2> QED BY <2>1, <2>2 DEF PruneStale
<1> QED BY <1>4, <1>5

LEMMA StaleNext ==
    ASSUME TypeOK, StepRole, Stale, TypeOK', [Next]_vars
    PROVE  Stale'
<1>1. Snapshots'
  BY SnapshotsNext DEF Stale
<1>2. PruneStale' /\ DropStale'
  <2>1. CASE Outside
    BY <2>1, StaleOutside DEF Stale
  <2>2. CASE ProcessNextItem
    BY <2>2, PruneStaleWork, DropStaleWork DEF Stale
  <2>3. CASE Crash
    BY <2>3 DEF Crash, Finish, PruneStale, DropStale
  <2>4. CASE UNCHANGED vars
    <3>1. \A p : Pending(p)' = Pending(p) /\ At(p)' = At(p) /\ Live(p)' = Live(p)
      BY <2>4 DEF vars, Pending, At, Newest, Waiting, Live
    <3> QED BY <2>4, <3>1 DEF vars, Stale, PruneStale, DropStale, Outdated
  <2> QED BY <2>1, <2>2, <2>3, <2>4 DEF Next, Outside
<1> QED BY <1>1, <1>2 DEF Stale
-------------------------------------------------------------------------------
(* The store, and what has come from it.                                     *)

LEMMA StoreOutside ==
    ASSUME TypeOK, Snapshots, Store, TypeOK', Outside
    PROVE  Store'
<1>1. /\ UNCHANGED step
      /\ \A p \in Pods : Live(p)' => Pending(p)' \/ StillAsIt(p)
  BY OutsideStill
<1>2. \A p \in Pods : store[p] \in Past(p) /\ (pods[p].exists => pods[p].rv > 0)
  BY DEF Snapshots
<1>3. listing # {} => step' = "idle" /\ \A l \in Leaders : Live(l)' => Pending(l)'
  BY <1>1 DEF Store, StillAsIt, Live, Pods
<1>4. CASE Environment
  <2>1. PICK q \in Pods : CreatePod(q) \/ ProbePod(q) \/ RestartPod(q) \/ DeletePod(q)
    BY <1>4 DEF Environment
  <2>2. /\ pods'[q].rv > pods[q].rv /\ (pods[q].exists \/ pods[q].rv = 0)
        /\ \A p \in Pods \ {q} : pods'[p] = pods[p]
        /\ UNCHANGED <<store, listing>>
    BY <2>1, NewVersion
  <2>3. pods[q].rv \in Nat /\ pods'[q].rv \in Nat /\ pods'[q].rv > 0
    BY <2>2 DEF TypeOK, PodStatus
  <2>4. store[q].exists \/ store[q].rv = 0
    <3> SUFFICES ASSUME ~ store[q].exists PROVE store[q].rv = 0
      OBVIOUS
    <3>1. store[q].rv = 0 \/ store[q] = pods[q]
      BY DEF Store
    <3> QED BY <2>2, <3>1
  <2>5. \A p \in Pods : ~ store[p].exists => store[p].rv = 0 \/ store[p] = pods'[p]
    BY <2>2, <2>4 DEF Store
  <2>6. \A p \in listing : p \in Pods /\ pods'[p].rv > 0
    BY <2>2, <2>3 DEF Store, TypeOK
  <2> QED BY <1>3, <2>2, <2>5, <2>6 DEF Store
<1>5. CASE Deliver
  <2>1. PICK q \in Pods : DeliverUpsert(q) \/ DeliverDelete(q)
    BY <1>5 DEF Deliver
  <2>2. /\ store' = [store EXCEPT ![q] = pods[q]] /\ listing' = listing \ {q}
        /\ UNCHANGED pods
    BY <2>1 DEF DeliverUpsert, DeliverDelete, environment
  <2>3. store'[q] = pods[q] /\ \A p \in Pods \ {q} : store'[p] = store[p]
    BY <2>2 DEF TypeOK
  <2>4. \A p \in Pods : store'[p].exists => store'[p].rv > 0
    BY <1>2, <2>3 DEF Store
  <2>5. \A p \in Pods : ~ store'[p].exists => store'[p].rv = 0 \/ store'[p] = pods'[p]
    BY <2>2, <2>3 DEF Store
  <2>6. \A p \in listing' : pods'[p].rv > 0
    BY <2>2 DEF Store
  <2>7. listing' # {} => listing # {}
    BY <2>2
  <2> QED BY <1>3, <2>4, <2>5, <2>6, <2>7 DEF Store
<1>6. CASE \E item \in backoff : Requeue(item)
  BY <1>3, <1>6 DEF Requeue, environment, informer, Store
<1> QED BY <1>4, <1>5, <1>6 DEF Outside

LEMMA StoreWork ==
    ASSUME TypeOK, Store, ProcessNextItem
    PROVE  Store'
<1>1. UNCHANGED <<pods, store, listing>>
  BY HandKept
<1>2. listing = {}
  <2>1. CASE step = "idle"
    BY <2>1, Taking DEF Takes, CanGet
  <2>2. CASE step # "idle"
    BY <2>2 DEF Store
  <2> QED BY <2>1, <2>2
<1> QED BY <1>1, <1>2 DEF Store

\* After a restart every pod that is there is news.
LEMMA CrashIsNews ==
    ASSUME Snapshots, Crash, NEW p \in Pods, Live(p)'
    PROVE  Pending(p)'
<1>1. UNCHANGED pods /\ store'[p] = Absent /\ pods[p].rv > 0
  BY DEF Crash, environment, Live, Snapshots
<1>2. store'[p].rv # pods'[p].rv
  BY <1>1 DEF Absent
<1> QED BY <1>2 DEF Pending

LEMMA BeganCrash ==
    ASSUME TypeOK, Snapshots, Began, Crash
    PROVE  Began'
<1>1. /\ UNCHANGED <<pods, nodes>> /\ step' = "idle" /\ InHand' = {}
      /\ \A p \in Pods : store'[p] = IF pods[p].exists THEN Absent ELSE pods[p]
      /\ listing' = {p \in Pods : pods[p].exists}
  BY DEF Crash, environment, Finish, InHand, Waiting, Range
<1>2. Store'
  <2>1. \A l \in Leaders : Live(l)' => Pending(l)'
    BY CrashIsNews DEF Pods
  <2> QED BY <1>1, <2>1 DEF Store, Absent, Snapshots
<1>3. ASSUME NEW p \in Pods, store'[p].rv = 0, p \notin listing'
      PROVE  \A l \in Leaders : p \notin Names(nodes[l])
  <2>1. pods[p].rv = 0
    BY <1>1, <1>3
  <2>2. store[p] \in Past(p) /\ store[p].rv \in Nat
    BY DEF Snapshots, TypeOK, PodStatus
  <2>3. store[p].rv = 0 /\ p \notin listing
    BY <2>1, <2>2 DEF Past, Began, Store
  <2> QED BY <2>3 DEF Began, FromStore
<1> QED BY <1>1, <1>2, <1>3 DEF Began, FromStore

LEMMA FromStoreOutside ==
    ASSUME TypeOK, Snapshots, Began, TypeOK', Outside
    PROVE  FromStore'
<1>1. UNCHANGED <<step, current, todo>>
  BY OutsideStill
<1>2. \A n \in todo : n.pod \in Pods
  BY DEF TypeOK, Node
<1>3. CASE Environment
  <2>1. PICK q \in Pods : CreatePod(q) \/ ProbePod(q) \/ RestartPod(q) \/ DeletePod(q)
    BY <1>3 DEF Environment
  <2>2. /\ \A l \in Leaders : nodes'[l] = nodes[l] \/ (l = q /\ nodes'[l] = {})
        /\ UNCHANGED <<store, listing, queue, backoff>>
    BY <2>1, NewVersion
  <2>3. InHand' = InHand
    BY <1>1, <2>2 DEF InHand, Waiting
  <2>4. \A l \in Leaders : Names(nodes'[l]) \subseteq Names(nodes[l])
    BY <2>2 DEF Names
  <2> QED BY <1>1, <2>2, <2>3, <2>4 DEF Began, FromStore
<1>4. CASE Deliver
  <2>1. PICK q \in Pods : DeliverUpsert(q) \/ DeliverDelete(q)
    BY <1>4 DEF Deliver
  <2>2. /\ store' = [store EXCEPT ![q] = pods[q]] /\ listing' = listing \ {q}
        /\ UNCHANGED <<nodes, backoff>> /\ store[q].rv # pods[q].rv
    BY <2>1 DEF DeliverUpsert, DeliverDelete, environment
  <2>3. store'[q] = pods[q] /\ \A p \in Pods \ {q} : store'[p] = store[p]
    BY <2>2 DEF TypeOK
  <2>4. store'[q].rv > 0
    <3>1. store[q] \in Past(q) /\ store[q].rv \in Nat /\ pods[q].rv \in Nat
      BY DEF Snapshots, TypeOK, PodStatus
    <3> QED BY <2>2, <2>3, <3>1 DEF Past
  <2>5. \A p \in Pods : store[p].rv > 0 => store'[p].rv > 0
    BY <2>3, <2>4
  <2>6. \A i \in InHand' : i \in InHand \/ i.pod = q
    <3>1. CASE UNCHANGED queue
      BY <1>1, <2>2, <3>1 DEF InHand, Waiting
    <3>2. ASSUME NEW k \in {"pod", "tombstone"}, NEW s \in {pods[q], store[q]},
                 Enqueue(NewItem(k, q, s))
          PROVE  \A i \in InHand' : i \in InHand \/ i.pod = q
      <4>1. NewItem(k, q, s) \in Item
        BY NewItemType DEF TypeOK
      <4>2. Range(queue') = Range(queue) \cup {NewItem(k, q, s)}
        BY <3>2, <4>1, RangeAppend DEF Enqueue
      <4> QED BY <1>1, <2>2, <4>2 DEF InHand, Waiting, NewItem
    <3>3. CASE Enqueue(NewItem("pod", q, pods[q])) \/ Enqueue(NewItem("tombstone", q, store[q]))
      BY <3>2, <3>3
    <3> QED BY <2>1, <3>1, <3>3 DEF DeliverUpsert, DeliverDelete
  <2>7. \A i \in InHand' : store'[i.pod].rv > 0
    <3>1. \A i \in InHand : i.pod \in Pods
      BY WaitingType DEF Item
    <3> QED BY <2>4, <2>5, <2>6, <3>1 DEF Began, FromStore
  <2>8. step' = "add" => \A n \in todo' : store'[n.pod].rv > 0
    BY <1>1, <1>2, <2>5 DEF Began, FromStore
  <2>9. \A p \in Pods : store'[p].rv = 0 /\ p \notin listing' =>
          \A l \in Leaders : p \notin Names(nodes'[l])
    <3>1. \A p \in Pods : store'[p].rv = 0 => p # q
      BY <2>4
    <3> QED BY <2>2, <2>3, <3>1 DEF Began, FromStore
  <2> QED BY <2>7, <2>8, <2>9 DEF FromStore
<1>5. CASE \E item \in backoff : Requeue(item)
  <2>1. PICK item \in backoff : Requeue(item)
    BY <1>5
  <2>2. item \in Item /\ Range(queue') = Range(queue) \cup {item}
    BY <2>1, RangeAppend DEF Requeue, Enqueue, TypeOK
  <2>3. InHand' \subseteq InHand
    BY <1>1, <2>1, <2>2 DEF Requeue, InHand, Waiting
  <2> QED BY <1>1, <2>1, <2>3 DEF Requeue, environment, informer, Began, FromStore
<1> QED BY <1>3, <1>4, <1>5 DEF Outside

\* A post puts no name on a list but that of a pod that has come through the store.
LEMMA KnownNames ==
    ASSUME TypeOK, StepRole, FromStore, ProcessNextItem, NEW l \in Leaders, NEW x \in Names(nodes'[l])
    PROVE  x \in Names(nodes[l]) \/ store[x].rv > 0
<1>1. ASSUME NEW to, to.pod \in Leaders, NEW list, Posted(to, list),
             \A y \in Names(list) : y \in Names(nodes[to.pod]) \/ store[y].rv > 0
      PROVE  x \in Names(nodes[l]) \/ store[x].rv > 0
  <2>1. CASE nodes' = nodes
    BY <2>1
  <2>2. CASE nodes' = [nodes EXCEPT ![to.pod] = list]
    BY <1>1, <2>2 DEF TypeOK
  <2> QED BY <1>1, <2>1, <2>2, PostChangesOneList
<1>2. ASSUME NEW list \in SUBSET Node, NEW n \in Node, store[n.pod].rv > 0
      PROVE  \A y \in Names(Added(list, n)) : y \in Names(list) \/ store[y].rv > 0
  BY <1>2, AddedNames
<1>3. ASSUME NEW list \in SUBSET Node, NEW n \in Node
      PROVE  \A y \in Names(Removed(list, n)) : y \in Names(list)
  BY RemovedNames
<1>4. step # "idle" => store[current.pod].rv > 0
  BY DEF FromStore, InHand
<1>5. ASSUME NEW to \in todo, PostWorker(to)
      PROVE  x \in Names(nodes[l]) \/ store[x].rv > 0
  <2>1. step # "idle" /\ to.pod \in Leaders
    BY <1>5 DEF PostWorker, StepRole, Names
  <2>2. Self \in Node /\ store[Self.pod].rv > 0
    BY <1>4, <2>1, SelfType
  <2>3. nodes[to.pod] \in SUBSET Node
    BY <2>1 DEF TypeOK
  <2>4. \A y \in Names(Applied(nodes[to.pod])) : y \in Names(nodes[to.pod]) \/ store[y].rv > 0
    BY <1>2, <1>3, <2>2, <2>3 DEF Applied
  <2>5. Posted(to, Applied(nodes[to.pod]))
    BY <1>5 DEF PostWorker, Posted
  <2> QED BY <1>1, <2>1, <2>4, <2>5
<1>6. ASSUME NEW n \in todo, Prune(n) \/ AddToLeader(n) \/ RemoveFromLeader(n)
      PROVE  x \in Names(nodes[l]) \/ store[x].rv > 0
  <2>1. /\ step \in {"prune", "add", "remove"} /\ n \in Node
        /\ Self.pod \in Leaders /\ nodes[Self.pod] \in SUBSET Node
    BY <1>6, SelfType DEF Prune, AddToLeader, RemoveFromLeader, StepRole, TypeOK
  <2>2. CASE Prune(n) \/ RemoveFromLeader(n)
    <3>1. Posted(Self, Removed(nodes[Self.pod], n))
      BY <2>2 DEF Prune, RemoveFromLeader, PostLeader, Posted
    <3> QED BY <1>1, <1>3, <2>1, <3>1
  <2>3. CASE AddToLeader(n)
    <3>1. Posted(Self, Added(nodes[Self.pod], n)) /\ store[n.pod].rv > 0
      BY <2>3 DEF AddToLeader, PostLeader, Posted, FromStore
    <3> QED BY <1>1, <1>2, <2>1, <3>1
  <2> QED BY <1>6, <2>2, <2>3
<1>7. CASE GetUnmanaged \/ GetUnreadyLeader \/ GetReadyLeader \/ GetWorker
           \/ FinishWorker \/ ListExisted \/ ListExistedFails \/ DiffLeader
           \/ StartRemoving \/ FinishLeader
  <2>1. UNCHANGED nodes
    BY <1>7 DEF GetUnmanaged, GetUnreadyLeader, GetReadyLeader, GetWorker,
                FinishWorker, ListExisted, ListExistedFails, DiffLeader,
                StartRemoving, FinishLeader, environment
  <2> QED BY <2>1
<1> QED BY <1>5, <1>6, <1>7 DEF ProcessNextItem

LEMMA FromStoreWork ==
    ASSUME TypeOK, StepRole, OnlyWorkersAndSelf, Began, ProcessNextItem
    PROVE  FromStore'
<1>1. /\ UNCHANGED <<pods, store, listing>>
      /\ \A i \in InHand' : \E j \in InHand : Same(i, j)
  BY HandKept
<1>2. \A i \in InHand' : store'[i.pod].rv > 0
  BY <1>1 DEF Same, Began, FromStore
<1>3. \A p \in Pods : store'[p].rv = 0 /\ p \notin listing' =>
          \A l \in Leaders : p \notin Names(nodes'[l])
  <2>1. \A p \in Pods : store[p].rv = 0 => ~ (store[p].rv > 0)
    BY DEF TypeOK, PodStatus
  <2> QED BY <1>1, <2>1, KnownNames DEF Began, FromStore
<1>4. step' = "add" => \A n \in todo' : store'[n.pod].rv > 0
  <2>1. CASE DiffLeader
    <3>1. step # "idle" /\ \A n \in todo' : n \in ListReadyWorkers \cup {Self}
      BY <2>1 DEF DiffLeader
    <3>2. store[Self.pod].rv > 0
      BY <3>1, SelfType DEF Began, FromStore, InHand
    <3>3. \A n \in ListReadyWorkers : store[n.pod].rv > 0
      BY DEF ListReadyWorkers, NodeOf, Began, Store
    <3> QED BY <1>1, <3>1, <3>2, <3>3
  <2>2. ASSUME NEW n \in todo, AddToLeader(n), todo' = todo \ {n}
        PROVE  \A m \in todo' : store'[m.pod].rv > 0
    BY <1>1, <2>2 DEF AddToLeader, Began, FromStore
  <2> QED BY <2>1, <2>2, Stages
<1> QED BY <1>2, <1>3, <1>4 DEF FromStore

LEMMA BeganNext ==
    ASSUME Roles, Snapshots, Began, TypeOK', [Next]_vars
    PROVE  Began'
<1>1. CASE Outside
  BY <1>1, StoreOutside, FromStoreOutside DEF Roles, Began
<1>2. CASE ProcessNextItem
  BY <1>2, StoreWork, FromStoreWork DEF Roles, Began
<1>3. CASE Crash
  BY <1>3, BeganCrash DEF Roles
<1>4. CASE UNCHANGED vars
  <2>1. Waiting' = Waiting /\ InHand' = InHand
    BY <1>4 DEF vars, Waiting, InHand
  <2>2. \A p : Pending(p)' = Pending(p) /\ Live(p)' = Live(p)
    BY <1>4, <2>1 DEF vars, Pending, Newest, Live
  <2>3. Store'
    BY <1>4, <2>2 DEF vars, Began, Store
  <2>4. FromStore'
    BY <1>4, <2>1 DEF vars, Began, FromStore
  <2> QED BY <2>3, <2>4 DEF Began
<1> QED BY <1>1, <1>2, <1>3, <1>4 DEF Next, Outside
-------------------------------------------------------------------------------
(* Old objects of workers.                                                   *)

LEMMA OldBehindOutside ==
    ASSUME TypeOK, Snapshots, Began, OldBehind, TypeOK', Outside
    PROVE  OldBehind'
<1>1. /\ UNCHANGED <<step, current>>
      /\ \A p \in Pods : Pending(p)' \/ StillAsIt(p) \/ Unheard(p)
      /\ \A p \in Pods : Live(p)' => Pending(p)' \/ StillAsIt(p)
  BY OutsideStill
<1>2. SUFFICES ASSUME NEW i \in InHand', i.kind = "pod", i.pod \in Workers,
                      Live(i.pod)' \/ ~ AbruptDeletes, i.at # pods'[i.pod], ~ Pending(i.pod)'
               PROVE  FALSE
  BY DEF OldBehind
<1>3. i.pod \in Pods
  BY <1>2 DEF Pods
<1>4. i \notin InHand
  <2>1. CASE StillAsIt(i.pod)
    BY <1>2, <2>1 DEF OldBehind, StillAsIt, Live
  <2>2. CASE Unheard(i.pod) /\ ~ AbruptDeletes
    BY <1>3, <2>2 DEF Unheard, DeliverDelete, Began, Store, FromStore
  <2> QED BY <1>1, <1>2, <1>3, <2>1, <2>2
<1>5. i \in Range(queue') \/ i \in backoff'
  BY <1>1, <1>4 DEF InHand, Waiting
<1>6. CASE Environment
  <2>1. UNCHANGED <<queue, backoff>>
    BY <1>6, NewVersion DEF Environment
  <2> QED BY <1>1, <1>4, <2>1 DEF InHand, Waiting
<1>7. CASE Deliver
  <2>1. PICK q \in Pods : DeliverUpsert(q) \/ DeliverDelete(q)
    BY <1>7 DEF Deliver
  <2>2. UNCHANGED <<pods, backoff>>
    BY <2>1 DEF DeliverUpsert, DeliverDelete, environment
  <2>3. CASE UNCHANGED queue
    BY <1>1, <1>4, <2>2, <2>3 DEF InHand, Waiting
  <2>4. ASSUME NEW k \in {"pod", "tombstone"}, NEW s \in {pods[q], store[q]},
               Enqueue(NewItem(k, q, s)), k = "pod" => s = pods[q]
        PROVE  FALSE
    <3>1. NewItem(k, q, s) \in Item
      BY NewItemType DEF TypeOK
    <3>2. Range(queue') = Range(queue) \cup {NewItem(k, q, s)}
      BY <2>4, <3>1, RangeAppend DEF Enqueue
    <3>3. i = NewItem(k, q, s)
      BY <1>4, <1>5, <2>2, <3>2 DEF InHand, Waiting
    <3>4. i.kind = k /\ i.pod = q /\ i.at = s
      BY <3>3 DEF NewItem
    <3> QED BY <1>2, <2>2, <2>4, <3>4
  <2>5. CASE Enqueue(NewItem("pod", q, pods[q])) \/ Enqueue(NewItem("tombstone", q, store[q]))
    BY <2>4, <2>5
  <2> QED BY <2>1, <2>3, <2>5 DEF DeliverUpsert, DeliverDelete
<1>8. CASE \E item \in backoff : Requeue(item)
  <2>1. PICK item \in backoff : Requeue(item)
    BY <1>8
  <2>2. item \in Item /\ Range(queue') = Range(queue) \cup {item}
    BY <2>1, RangeAppend DEF Requeue, Enqueue, TypeOK
  <2>3. i \in Waiting
    BY <1>5, <2>1, <2>2 DEF Requeue, Waiting
  <2> QED BY <1>4, <2>3 DEF InHand
<1> QED BY <1>6, <1>7, <1>8 DEF Outside

\* GetWorker notices when an older object of the worker still waits.
LEMMA OldBehindWork ==
    ASSUME TypeOK, Snapshots, OldBehind, ProcessNextItem, ~ lossy'
    PROVE  OldBehind'
<1>1. UNCHANGED <<pods, store>> /\ \A i \in InHand' : \E j \in InHand : Same(i, j)
  BY HandKept
<1>2. SUFFICES ASSUME NEW i \in InHand', i.kind = "pod", i.pod \in Workers,
                      Live(i.pod)' \/ ~ AbruptDeletes, i.at # pods'[i.pod]
               PROVE  Pending(i.pod)'
  BY DEF OldBehind
<1>3. Pending(i.pod) /\ i.pod \in Pods
  <2>1. PICK j \in InHand : Same(i, j)
    BY <1>1
  <2> QED BY <1>1, <1>2, <2>1 DEF OldBehind, Same, Live, Pods
<1>4. CASE step # "idle"
  BY <1>3, <1>4, WorkKeepsNews
<1>5. CASE step = "idle"
  <2> DEFINE item == Head(queue)
  <2>1. /\ GetUnmanaged \/ GetUnreadyLeader \/ GetReadyLeader \/ GetWorker
        /\ Takes(item) /\ item \in Item /\ item \in Waiting
        /\ UNCHANGED <<pods, store>> /\ backoff \subseteq backoff'
    BY <1>5, Taking
  <2>2. Pending(i.pod)' \/ Newest(item, i.pod)
    BY <1>3, <2>1, TakingNews
  <2>3. CASE GetUnmanaged \/ GetUnreadyLeader \/ GetReadyLeader
    <3>1. item.kind = "pod" => item.pod \notin Workers
      BY <2>3, RegistrationAssumption
         DEF GetUnmanaged, GetUnreadyLeader, GetReadyLeader, IsGroupLeader, IsGroupWorker
    <3> QED BY <1>2, <2>2, <3>1 DEF Newest
  <2>4. CASE GetWorker
    <3> SUFFICES ASSUME Newest(item, i.pod) PROVE FALSE
      BY <2>2
    <3>1. ~ Overtakes(item)
      BY <2>4 DEF GetWorker
    <3>2. backoff' = backoff /\ current' = item
      BY <2>4 DEF GetWorker
    <3>3. i \in InHand
      <4>1. Range(queue') \subseteq Range(queue)
        BY <2>1, TakesWaiting
      <4> QED BY <2>1, <3>2, <4>1 DEF InHand, Waiting
    <3>4. i \in Waiting
      BY <1>5, <3>3 DEF InHand
    <3>5. i.at \in Past(i.pod) /\ i.at # pods[i.pod]
      BY <1>1, <1>2, <3>3 DEF Snapshots
    <3>6. i.at.rv < pods[i.pod].rv
      BY <3>5 DEF Past
    <3> QED BY <1>2, <3>1, <3>4, <3>6 DEF Overtakes, Newest, Waiting
  <2> QED BY <2>1, <2>3, <2>4
<1> QED BY <1>4, <1>5

-------------------------------------------------------------------------------
(* Registrations.  Of a ready leader l, and a ready worker or that leader x.   *)

Pair(l, x) == l \in Leaders /\ x \in Workers \cup {l} /\ Live(l) /\ Live(x)

LEMMA PairType ==
    ASSUME NEW l, NEW x, Pair(l, x)
    PROVE  /\ l \in Leaders /\ l \in Pods /\ l \notin Workers
           /\ x \in Pods /\ (x = l \/ (x \in Workers /\ x # l /\ x \notin Leaders))
BY RegistrationAssumption DEF Pair, Pods

LEMMA RegistrationTaken ==
    ASSUME TypeOK, Snapshots, ProcessNextItem, step = "idle",
           NEW l, NEW x, Pair(l, x), Announced(l, x)
    PROVE  Announced(l, x)'
<1> DEFINE item == Head(queue)
<1>1. /\ GetUnmanaged \/ GetUnreadyLeader \/ GetReadyLeader \/ GetWorker
      /\ Takes(item) /\ item \in Item
      /\ UNCHANGED <<pods, store, nodes>> /\ backoff \subseteq backoff'
  BY Taking
<1>2. l \in Leaders /\ (x = l \/ (x \in Workers /\ x # l /\ x \notin Leaders)) /\ l \notin Workers
  BY PairType
<1>3. Live(l) /\ Live(x)
  BY DEF Pair
<1>4. Pending(l) => Pending(l)' \/ Newest(item, l)
  BY <1>1, TakingNews
<1>5. Pending(x) => Pending(x)' \/ Newest(item, x)
  BY <1>1, TakingNews
<1>6. x \in Names(nodes[l]) \/ Pending(l) \/ Pending(x)
  BY DEF Announced, Registering, At
<1>7. CASE ~ Newest(item, l) /\ ~ Newest(item, x)
  BY <1>1, <1>4, <1>5, <1>6, <1>7 DEF Announced
<1>8. CASE Newest(item, l)
  <2>1. item.kind = "pod" /\ item.pod \in Leaders /\ item.at.ready
    BY <1>2, <1>3, <1>8 DEF Newest, Live
  <2>2. GetReadyLeader
    BY <1>1, <2>1, RegistrationAssumption
       DEF GetUnmanaged, GetUnreadyLeader, GetWorker, IsGroupLeader, IsGroupWorker
  <2>3. At(l)' /\ step' = "list"
    BY <1>1, <1>8, <2>2 DEF GetReadyLeader, At, Newest
  <2> QED BY <2>3 DEF Announced, Registering
<1>9. CASE Newest(item, x) /\ x # l
  <2>1. item.kind = "pod" /\ item.pod \in Workers
    BY <1>2, <1>9 DEF Newest
  <2>2. GetWorker
    BY <1>1, <2>1, RegistrationAssumption
       DEF GetUnmanaged, GetUnreadyLeader, GetReadyLeader, IsGroupLeader, IsGroupWorker
  <2>3. At(x)' /\ step' = "post" /\ todo' = ListReadyLeaders
    BY <1>1, <1>9, <2>2 DEF GetWorker, At, Newest
  <2>4. CASE NodeOf(l, pods[l]) \in ListReadyLeaders
    BY <1>1, <2>3, <2>4 DEF Announced, Registering
  <2>5. CASE NodeOf(l, pods[l]) \notin ListReadyLeaders
    <3>1. store[l] # pods[l] /\ l \in Pods
      BY <1>2, <1>3, <2>5 DEF ListReadyLeaders, IsGroupLeader, Live, Pods
    <3>2. store[l].rv # pods[l].rv
      BY <3>1, PresentIsNewest DEF Snapshots
    <3> QED BY <1>1, <3>2 DEF Announced, Pending
  <2> QED BY <2>4, <2>5
<1> QED BY <1>7, <1>8, <1>9

\* A post for a worker: it adds the worker to one list, or takes it off, which
\* if the worker is ready is done for an old object.
LEMMA RegistrationPosted ==
    ASSUME Roles, Stale, OldBehind, NEW to \in todo, PostWorker(to), ~ lossy',
           NEW l, NEW x, Pair(l, x), Announced(l, x)
    PROVE  Announced(l, x)'
<1> DEFINE list == Applied(nodes[to.pod])
<1>1. /\ TypeOK /\ step = "post" /\ step # "idle" /\ to.pod \in Leaders /\ to \in Node
      /\ current.pod \in Workers /\ current \in Item /\ current.kind = "pod"
      /\ Self \in Node /\ Self.pod = current.pod
  BY SelfType DEF PostWorker, Roles, StepRole, Names, TypeOK, Stale, Snapshots
<1>2. /\ UNCHANGED <<pods, store, queue>> /\ Waiting \subseteq Waiting'
      /\ \A p : Pending(p) => Pending(p)'
  BY <1>1, WorkKeepsNews DEF ProcessNextItem
<1>3. /\ l \in Leaders /\ l \in Pods /\ l \notin Workers /\ Live(x) /\ Live(l)
      /\ (x = l \/ (x \in Workers /\ x # l /\ x \notin Leaders))
  BY PairType DEF Pair
<1>4. Posted(to, list)
  BY DEF PostWorker, Posted
<1>5. nodes' = nodes \/ nodes' = [nodes EXCEPT ![to.pod] = list]
  BY <1>4, PostChangesOneList
<1>6. Names(list) = IF current.at.ready THEN Names(nodes[to.pod]) \cup {current.pod}
                                        ELSE Names(nodes[to.pod]) \ {current.pod}
  <2>1. nodes[to.pod] \in SUBSET Node
    BY <1>1 DEF TypeOK
  <2>2. CASE current.at.ready
    <3>1. Names(Added(nodes[to.pod], Self)) = Names(nodes[to.pod]) \cup {Self.pod}
      BY <1>1, <2>1, AddedNames
    <3> QED BY <1>1, <2>2, <3>1 DEF Applied
  <2>3. CASE ~ current.at.ready
    <3>1. Names(Removed(nodes[to.pod], Self)) = Names(nodes[to.pod]) \ {Self.pod}
      BY <1>1, <2>1, RemovedNames
    <3> QED BY <1>1, <2>3, <3>1 DEF Applied
  <2> QED BY <2>2, <2>3
<1>7. CASE Pending(l) \/ Pending(x)
  BY <1>2, <1>7 DEF Announced
<1>8. CASE x \in Names(nodes[l]) /\ ~ Pending(x)
  <2>1. x \in Names(nodes'[l])
    <3>1. CASE nodes' = nodes
      BY <1>8, <3>1
    <3>2. CASE l # to.pod
      BY <1>1, <1>3, <1>5, <1>8, <3>2 DEF TypeOK
    <3>3. CASE l = to.pod /\ nodes' = [nodes EXCEPT ![to.pod] = list]
      <4>1. nodes'[l] = list
        BY <1>1, <1>3, <3>3 DEF TypeOK
      <4>2. x # current.pod \/ current.at.ready
        <5> SUFFICES ASSUME x = current.pod, ~ current.at.ready PROVE FALSE
          OBVIOUS
        <5>1. current \in InHand /\ current.at # pods[current.pod]
          BY <1>1, <1>3 DEF InHand, Live
        <5> QED BY <1>1, <1>3, <1>8, <5>1 DEF OldBehind
      <4> QED BY <1>6, <1>8, <3>3, <4>1, <4>2
    <3> QED BY <1>5, <3>1, <3>2, <3>3
  <2> QED BY <2>1 DEF Announced
<1>9. CASE Registering(l, x)
  <2>1. At(x) /\ NodeOf(l, pods[l]) \in todo /\ x = current.pod
    BY <1>1, <1>3, <1>9 DEF Registering, At, Newest
  <2>2. CASE Fail(current)
    <3>1. Pending(x)'
      BY <1>1, <1>2, <2>1, <2>2, FailureIsNews
    <3> QED BY <3>1 DEF Announced
  <2>3. CASE PostSucceeds(to, list) /\ todo' = todo \ {to} /\ UNCHANGED <<step, current>>
    <3>1. At(x)' /\ step' = "post"
      BY <1>1, <1>2, <2>1, <2>3 DEF At, Newest
    <3>2. CASE to # NodeOf(l, pods[l])
      <4>1. NodeOf(l, pods'[l]) \in todo'
        BY <1>2, <2>1, <2>3, <3>2
      <4> QED BY <3>1, <4>1 DEF Announced, Registering
    <3>3. CASE to = NodeOf(l, pods[l])
      <4>1. to.pod = l /\ nodes' = [nodes EXCEPT ![l] = list]
        BY <2>3, <3>3 DEF NodeOf, PostSucceeds
      <4>2. nodes'[l] = list
        BY <1>1, <1>3, <4>1 DEF TypeOK
      <4>3. current.at.ready
        BY <1>3, <2>1 DEF At, Newest, Live
      <4>4. x \in Names(nodes'[l])
        BY <1>6, <2>1, <4>2, <4>3
      <4> QED BY <4>4 DEF Announced
    <3> QED BY <3>2, <3>3
  <2> QED BY <2>2, <2>3 DEF PostWorker
<1> QED BY <1>7, <1>8, <1>9 DEF Announced

\* A post leaves all lists but one as they are.
LEMMA PostKeepsName ==
    ASSUME TypeOK, NEW to, to.pod \in Leaders, NEW list, Posted(to, list),
           NEW l \in Leaders, NEW x \in Names(nodes[l]), l = to.pod => x \in Names(list)
    PROVE  x \in Names(nodes'[l])
<1>1. CASE nodes' = nodes
  BY <1>1
<1>2. CASE nodes' = [nodes EXCEPT ![to.pod] = list]
  BY <1>2 DEF TypeOK
<1> QED BY <1>1, <1>2, PostChangesOneList

\* What is known while ProcessLeader is at work.
LEMMA LeaderWork ==
    ASSUME Roles, Stale, step \in {"list", "prune", "add", "remove"}, ProcessNextItem,
           NEW l, NEW x, Pair(l, x)
    PROVE  /\ step # "idle" /\ current \in Item /\ current.pod \in Leaders /\ current.at.ready
           /\ Self \in Node /\ Self.pod = current.pod /\ nodes[Self.pod] \in SUBSET Node
           /\ \A n \in todo : n \in Node
           /\ UNCHANGED <<pods, store, queue>> /\ \A p : Pending(p) => Pending(p)'
           /\ Registering(l, x) => At(l) /\ l = current.pod /\ l = Self.pod
                /\ (step \in {"list", "prune"} \/ (step = "add" /\ x \in Names(todo)))
           /\ ~ lossy' /\ Fail(current) /\ At(l) => Pending(l)'
<1>1. /\ TypeOK /\ step # "idle" /\ current.pod \in Leaders /\ current.at.ready
      /\ Self \in Node /\ Self.pod = current.pod
  BY SelfType DEF Roles, StepRole, Stale, Snapshots
<1>2. UNCHANGED <<pods, store, queue>> /\ \A p : Pending(p) => Pending(p)'
  BY <1>1, WorkKeepsNews
<1>3. ~ lossy' /\ Fail(current) /\ At(l) => Pending(l)'
  BY <1>1, <1>2, FailureIsNews
<1>4. /\ nodes[Self.pod] \in SUBSET Node /\ current \in Item
      /\ \A n \in todo : n \in Node
  BY <1>1 DEF TypeOK
<1>5. Registering(l, x) => At(l) /\ l = current.pod
                /\ (step \in {"list", "prune"} \/ (step = "add" /\ x \in Names(todo)))
  BY DEF Registering, At, Newest
<1> QED BY <1>1, <1>2, <1>3, <1>4, <1>5

LEMMA RegistrationCompared ==
    ASSUME Roles, Stale, ListExisted \/ ListExistedFails \/ DiffLeader, ~ lossy',
           NEW l, NEW x, Pair(l, x), Announced(l, x)
    PROVE  Announced(l, x)'
<1>1. /\ ProcessNextItem /\ step \in {"list", "prune"} /\ nodes' = nodes
  BY DEF ProcessNextItem, ListExisted, ListExistedFails, DiffLeader, environment
<1>2. /\ current.pod \in Leaders /\ Self.pod = current.pod
      /\ UNCHANGED <<pods, store>> /\ \A p : Pending(p) => Pending(p)'
      /\ Registering(l, x) => At(l) /\ l = current.pod
      /\ Fail(current) /\ At(l) => Pending(l)'
  BY <1>1, LeaderWork
<1>3. CASE x \in Names(nodes[l]) \/ Pending(l) \/ Pending(x)
  BY <1>1, <1>2, <1>3 DEF Announced
<1>4. CASE Registering(l, x)
  <2>1. At(l) /\ l = current.pod /\ l \in Leaders
    BY <1>2, <1>4
  <2>2. CASE ListExisted
    <3>1. At(l)' /\ step' = "prune"
      BY <1>2, <2>1, <2>2 DEF ListExisted, At, Newest
    <3> QED BY <3>1 DEF Announced, Registering
  <2>3. CASE ListExistedFails
    <3>1. Pending(l)'
      BY <1>2, <2>1, <2>3 DEF ListExistedFails
    <3> QED BY <3>1 DEF Announced
  <2>4. CASE DiffLeader
    <3> DEFINE workers == ListReadyWorkers \cup {Self}
    <3>1. At(l)' /\ step' = "add" /\ todo' = {n \in workers : n.pod \notin Names(rest)}
      BY <1>2, <2>1, <2>4 DEF DiffLeader, At, Newest
    <3>2. CASE x \in Names(rest)
      <4>1. x \in Names(nodes[l])
        BY <2>1, <2>4, <3>2 DEF Stale, PruneStale, DiffLeader
      <4> QED BY <1>1, <4>1 DEF Announced
    <3>3. CASE x \in Names(workers) /\ x \notin Names(rest)
      <4>1. x \in Names(todo')
        BY <3>1, <3>3 DEF Names
      <4> QED BY <3>1, <4>1 DEF Announced, Registering
    <3>4. CASE x \notin Names(workers)
      <4>1. x # l /\ x \notin Names(ListReadyWorkers)
        BY <1>2, <2>1, <3>4 DEF Names
      <4>2. Pending(x)
        BY <4>1, UnlistedIsNews DEF Pair, Roles, Stale
      <4> QED BY <1>2, <4>2 DEF Announced
    <3> QED BY <3>2, <3>3, <3>4
  <2> QED BY <2>2, <2>3, <2>4
<1> QED BY <1>3, <1>4 DEF Announced

LEMMA RegistrationSent ==
    ASSUME Roles, Stale, NEW n \in todo, Prune(n) \/ AddToLeader(n) \/ RemoveFromLeader(n),
           ~ lossy', NEW l, NEW x, Pair(l, x), Announced(l, x)
    PROVE  Announced(l, x)'
<1>1. ProcessNextItem /\ step \in {"prune", "add", "remove"}
  BY DEF ProcessNextItem, Prune, AddToLeader, RemoveFromLeader
<1>2. /\ current.pod \in Leaders /\ Self.pod = current.pod /\ Self \in Node
      /\ n \in Node /\ nodes[Self.pod] \in SUBSET Node
      /\ UNCHANGED <<pods, store>> /\ \A p : Pending(p) => Pending(p)'
      /\ Registering(l, x) => At(l) /\ l = Self.pod
           /\ (step = "prune" \/ (step = "add" /\ x \in Names(todo)))
      /\ Fail(current) /\ At(l) => Pending(l)'
  BY <1>1, LeaderWork
<1>3. /\ l \in Leaders /\ Live(x) /\ (x = l \/ x \in Workers) /\ TypeOK
  BY PairType DEF Pair, Roles
<1>4. CASE Pending(l) \/ Pending(x)
  BY <1>2, <1>4 DEF Announced
<1>5. CASE x \in Names(nodes[l]) /\ ~ Pending(x)
  <2>1. CASE AddToLeader(n)
    <3>1. Posted(Self, Added(nodes[Self.pod], n))
      BY <2>1 DEF AddToLeader, PostLeader, Posted
    <3>2. l = Self.pod => x \in Names(Added(nodes[Self.pod], n))
      BY <1>2, <1>5, AddedNames
    <3>3. x \in Names(nodes'[l])
      BY <1>2, <1>3, <1>5, <3>1, <3>2, PostKeepsName
    <3> QED BY <3>3 DEF Announced
  <2>2. CASE Prune(n) \/ RemoveFromLeader(n)
    <3>1. Posted(Self, Removed(nodes[Self.pod], n))
      BY <2>2 DEF Prune, RemoveFromLeader, PostLeader, Posted
    <3>2. l = Self.pod => x # n.pod
      <4> SUFFICES ASSUME l = Self.pod, x = n.pod PROVE FALSE
        OBVIOUS
      <4>1. CASE Prune(n)
        BY <1>3, <1>5, <4>1 DEF Prune, Stale, PruneStale
      <4>2. CASE RemoveFromLeader(n)
        <5>1. n.pod # current.pod /\ Outdated(n)
          BY <4>2 DEF RemoveFromLeader, Stale, DropStale
        <5> QED BY <1>2, <1>3, <1>5, <5>1 DEF Outdated
      <4> QED BY <2>2, <4>1, <4>2
    <3>3. l = Self.pod => x \in Names(Removed(nodes[Self.pod], n))
      BY <1>2, <1>5, <3>2, RemovedNames
    <3>4. x \in Names(nodes'[l])
      BY <1>2, <1>3, <1>5, <3>1, <3>3, PostKeepsName
    <3> QED BY <3>4 DEF Announced
  <2> QED BY <2>1, <2>2
<1>6. CASE Registering(l, x)
  <2>1. At(l) /\ l = Self.pod
    BY <1>2, <1>6
  <2>2. CASE Prune(n)
    <3>1. At(l)' /\ step' = "prune"
      BY <1>2, <2>1, <2>2 DEF Prune, At, Newest
    <3> QED BY <3>1 DEF Announced, Registering
  <2>3. CASE ~ Prune(n)
    <3>1. step = "add" /\ x \in Names(todo) /\ AddToLeader(n)
      BY <1>1, <1>2, <1>6, <2>3 DEF AddToLeader, RemoveFromLeader
    <3>2. CASE Fail(current)
      <4>1. Pending(l)'
        BY <1>2, <2>1, <3>2
      <4> QED BY <4>1 DEF Announced
    <3>3. CASE /\ PostSucceeds(Self, Added(nodes[Self.pod], n))
               /\ todo' = todo \ {n} /\ UNCHANGED <<step, current>>
      <4>1. At(l)' /\ step' = "add"
        BY <1>2, <2>1, <3>1, <3>3 DEF At, Newest
      <4>2. PICK m \in todo : m.pod = x
        BY <3>1 DEF Names
      <4>3. CASE m # n
        <5>1. x \in Names(todo')
          BY <3>3, <4>2, <4>3 DEF Names
        <5> QED BY <4>1, <5>1 DEF Announced, Registering
      <4>4. CASE m = n
        <5>1. nodes'[l] = Added(nodes[l], n)
          BY <1>3, <2>1, <3>3 DEF PostSucceeds, TypeOK
        <5>2. x \in Names(nodes'[l])
          BY <1>2, <2>1, <4>2, <4>4, <5>1, AddedNames
        <5> QED BY <5>2 DEF Announced
      <4> QED BY <4>3, <4>4
    <3> QED BY <3>1, <3>2, <3>3 DEF AddToLeader, PostLeader
  <2> QED BY <2>2, <2>3
<1> QED BY <1>4, <1>5, <1>6 DEF Announced

LEMMA RegistrationEnded ==
    ASSUME Roles, Stale, FinishWorker \/ StartRemoving \/ FinishLeader,
           NEW l, NEW x, Pair(l, x), Announced(l, x)
    PROVE  Announced(l, x)'
<1>1. /\ ProcessNextItem /\ step \in {"post", "add", "remove"} /\ todo = {} /\ nodes' = nodes
  BY DEF ProcessNextItem, FinishWorker, StartRemoving, FinishLeader, environment
<1>2. ~ Registering(l, x)
  BY <1>1 DEF Registering, Names
<1>3. \A p : Pending(p) => Pending(p)'
  BY <1>1, WorkKeepsNews DEF Roles
<1> QED BY <1>1, <1>2, <1>3 DEF Announced

LEMMA ComingOutside ==
    ASSUME Roles, Stale, CompleteComing, TypeOK', Outside
    PROVE  CompleteComing'
<1> SUFFICES ASSUME NEW l \in Leaders, NEW x \in Workers \cup {l}, Live(l)', Live(x)'
             PROVE  Announced(l, x)'
  BY DEF CompleteComing
<1>1. /\ UNCHANGED <<step, current, todo, rest>>
      /\ \A p \in Pods : Live(p)' => Pending(p)' \/ StillAsIt(p)
      /\ nodes'[l] = nodes[l] \/ pods'[l] # pods[l]
  BY OutsideStill DEF Roles, Stale
<1>2. CASE Pending(l)' \/ Pending(x)'
  BY <1>2 DEF Announced
<1>3. CASE ~ Pending(l)' /\ ~ Pending(x)'
  <2>1. l \in Pods /\ x \in Pods
    BY DEF Pods
  <2>2. StillAsIt(l) /\ StillAsIt(x)
    BY <1>1, <1>3, <2>1
  <2>3. Live(l) /\ Live(x) /\ nodes'[l] = nodes[l]
    BY <1>1, <2>2 DEF StillAsIt, Live
  <2>4. x \in Names(nodes[l]) \/ Registering(l, x)
    BY <2>2, <2>3 DEF CompleteComing, Announced, StillAsIt
  <2>5. At(l)' = At(l) /\ At(x)' = At(x)
    BY <1>1, <2>2 DEF At, Newest, StillAsIt
  <2>6. Registering(l, x) => Registering(l, x)'
    BY <1>1, <2>2, <2>5 DEF Registering, StillAsIt
  <2> QED BY <2>3, <2>4, <2>6 DEF Announced
<1> QED BY <1>2, <1>3

LEMMA ComingWork ==
    ASSUME Roles, Stale, OldBehind, CompleteComing, ProcessNextItem, ~ lossy'
    PROVE  CompleteComing'
<1>1. UNCHANGED pods
  BY HandKept DEF Roles
<1> SUFFICES ASSUME NEW l \in Leaders, NEW x \in Workers \cup {l}, Live(l), Live(x)
             PROVE  Announced(l, x)'
  BY <1>1 DEF CompleteComing, Live
<1>2. Pair(l, x) /\ Announced(l, x)
  BY DEF Pair, CompleteComing
<1>3. CASE step = "idle"
  BY <1>2, <1>3, RegistrationTaken DEF Roles, Stale
<1>4. CASE step # "idle"
  <2>1. CASE \E to \in todo : PostWorker(to)
    BY <1>2, <2>1, RegistrationPosted
  <2>2. CASE ListExisted \/ ListExistedFails \/ DiffLeader
    BY <1>2, <2>2, RegistrationCompared
  <2>3. CASE \E n \in todo : Prune(n) \/ AddToLeader(n) \/ RemoveFromLeader(n)
    BY <1>2, <2>3, RegistrationSent
  <2>4. CASE FinishWorker \/ StartRemoving \/ FinishLeader
    BY <1>2, <2>4, RegistrationEnded
  <2>5. ~ (GetUnmanaged \/ GetUnreadyLeader \/ GetReadyLeader \/ GetWorker)
    BY <1>4 DEF GetUnmanaged, GetUnreadyLeader, GetReadyLeader, GetWorker, CanGet
  <2> QED BY <2>1, <2>2, <2>3, <2>4, <2>5 DEF ProcessNextItem
<1> QED BY <1>3, <1>4

LEMMA ComingNext ==
    ASSUME ComingInv, [Next]_vars
    PROVE  ComingInv'
<1> USE DEF ComingInv
<1>1. Roles'
  BY TypeNext, StepRoleNext, ListsNext DEF Roles
<1>2. Stale' /\ Began'
  BY <1>1, StaleNext, BeganNext DEF Roles, Stale
<1>3. ASSUME ~ lossy' PROVE OldBehind' /\ CompleteComing'
  <2>1. CASE Outside
    <3>1. ~ lossy
      BY <1>1, <1>3, <2>1, OutsideStill DEF Roles, Stale
    <3> QED BY <1>1, <2>1, <3>1, OldBehindOutside, ComingOutside DEF Roles, Stale
  <2>2. CASE ProcessNextItem
    <3>1. ~ lossy
      BY <1>3, <2>2, WorkKeepsNews, Taking DEF Roles
    <3> QED BY <1>3, <2>2, <3>1, OldBehindWork, ComingWork DEF Roles, Stale
  <2>3. CASE Crash
    <3>1. InHand' = {}
      BY <2>3 DEF Crash, Finish, InHand, Waiting, Range
    <3>2. OldBehind'
      BY <3>1 DEF OldBehind
    <3>3. CompleteComing'
      BY <2>3, CrashIsNews DEF CompleteComing, Announced, Pods, Stale
    <3> QED BY <3>2, <3>3
  <2>4. CASE UNCHANGED vars
    <3>1. InHand' = InHand /\ Waiting' = Waiting
      BY <2>4 DEF vars, InHand, Waiting
    <3>2. \A p : Pending(p)' = Pending(p) /\ At(p)' = At(p) /\ Live(p)' = Live(p)
      BY <2>4, <3>1 DEF vars, Pending, At, Newest, Live
    <3>3. OldBehind'
      BY <1>3, <2>4, <3>1, <3>2 DEF vars, OldBehind
    <3>4. CompleteComing'
      BY <1>3, <2>4, <3>2 DEF vars, CompleteComing, Announced, Registering
    <3> QED BY <3>3, <3>4
  <2> QED BY <2>1, <2>2, <2>3, <2>4 DEF Next, Outside
<1> QED BY <1>1, <1>2, <1>3

LEMMA ComingInit == Init => ComingInv
<1> SUFFICES ASSUME Init PROVE ComingInv
  OBVIOUS
<1>1. Roles
  BY TypeInit DEF Init, Roles, StepRole, OnlyWorkersAndSelf, Names
<1>2. InHand = {}
  BY DEF Init, InHand, Waiting, Range
<1>3. Stale /\ OldBehind /\ Began
  BY <1>2 DEF Init, Stale, Snapshots, PruneStale, DropStale, OldBehind, Past, Absent, PodStatus,
                 Began, Store, FromStore, Names
<1>4. CompleteComing
  BY DEF Init, CompleteComing, Live, Absent, Pods
<1> QED BY <1>1, <1>3, <1>4 DEF ComingInv

LEMMA QuietIsNoNews ==
    ASSUME Quiet, NEW p \in Pods
    PROVE  ~ Pending(p)
BY DEF Quiet, Pending, Waiting, Range

\* Once the controller has nothing left to do, every ready leader lists the ready
\* workers and itself, for all pods, bounds, lost requests and restarts, unless
\* work was lost on the way (ProcessLeader, ProcessReadyWorker, errorHandler).
THEOREM RegistersAllWhenQuiet == Spec => []CompleteWhenQuiet
<1>1. ComingInv => CompleteWhenQuiet
  <2> SUFFICES ASSUME ComingInv, Quiet, ~ lossy, NEW l \in Leaders, Live(l),
                      NEW x \in Workers \cup {l}, Live(x)
               PROVE  x \in Names(nodes[l])
    BY DEF CompleteWhenQuiet, Complete
  <2>1. ~ Pending(l) /\ ~ Pending(x)
    BY QuietIsNoNews DEF Pods
  <2>2. ~ Registering(l, x)
    BY DEF Quiet, Registering, At
  <2> QED BY <2>1, <2>2 DEF ComingInv, CompleteComing, Announced
<1> QED BY <1>1, ComingInit, ComingNext, PTL DEF Spec

-------------------------------------------------------------------------------
(* Removals, where every pod is seen unready before it is deleted.  Of a ready *)
(* leader l and a worker w that is not ready.                                 *)

\* A pod that is gone was not ready.
GoneUnready == \A p \in Pods : ~ pods[p].exists => ~ pods[p].ready

\* What ProcessLeader is about to add is ready, or there is news of it.
AddStale == step = "add" =>
    \A n \in todo : n.pod \in Workers /\ ~ Live(n.pod) => Pending(n.pod)

\* The goroutine is about to take w off the list of l.
Removing(l, w) ==
    \/ At(l) /\ step = "list"
    \/ At(l) /\ step = "prune" /\ w \in Names(todo) \cup Names(rest)
    \/ At(l) /\ step = "add" /\ w \in Names(rest)
    \/ At(l) /\ step = "remove" /\ w \in Names(todo)
    \/ At(w) /\ step = "post" /\ NodeOf(l, pods[l]) \in todo
Cleared(l, w) ==
    w \notin Names(nodes[l]) \/ Pending(l) \/ Pending(w) \/ Removing(l, w)
SoundComing == \A l \in Leaders : \A w \in Workers :
    Live(l) /\ ~ Live(w) => Cleared(l, w)

LeavingInv == ComingInv /\ GoneUnready /\ AddStale /\ (~ lossy => SoundComing)

LEMMA GoneUnreadyNext ==
    ASSUME ~ AbruptDeletes, TypeOK, GoneUnready, [Next]_vars
    PROVE  GoneUnready'
<1>1. CASE Environment
  <2>1. PICK p \in Pods : CreatePod(p) \/ ProbePod(p) \/ RestartPod(p) \/ DeletePod(p)
    BY <1>1 DEF Environment
  <2>2. \A q \in Pods \ {p} : pods'[q] = pods[q]
    BY <2>1, NewVersion
  <2>3. ~ pods'[p].exists => ~ pods'[p].ready
    <3>1. ASSUME NEW s \in PodStatus, Touch(p, s)
          PROVE  pods'[p].exists = s.exists /\ pods'[p].ready = s.ready
      BY <3>1 DEF Touch, TypeOK, PodStatus
    <3>2. pods[p] \in PodStatus
      BY DEF TypeOK
    <3>3. CASE CreatePod(p)
      <4>1. [pods[p] EXCEPT !.exists = TRUE, !.addr = 1] \in PodStatus
        BY <3>2 DEF PodStatus
      <4> QED BY <3>1, <3>2, <3>3, <4>1 DEF CreatePod, PodStatus
    <3>4. CASE ProbePod(p)
      <4>1. [pods[p] EXCEPT !.ready = ~ @] \in PodStatus
        BY <3>2 DEF PodStatus
      <4> QED BY <3>1, <3>2, <3>4, <4>1 DEF ProbePod, PodStatus
    <3>5. CASE RestartPod(p)
      <4>1. PICK a \in {pods[p].addr, pods[p].addr + 1} :
               Touch(p, [pods[p] EXCEPT !.ready = FALSE, !.addr = a])
        BY <3>5 DEF RestartPod
      <4>2. a \in Nat
        BY <3>2 DEF PodStatus
      <4>3. [pods[p] EXCEPT !.ready = FALSE, !.addr = a] \in PodStatus
        BY <3>2, <4>2 DEF PodStatus
      <4> QED BY <3>1, <3>2, <4>1, <4>3 DEF PodStatus
    <3>6. CASE DeletePod(p)
      <4>1. [pods[p] EXCEPT !.exists = FALSE] \in PodStatus /\ ~ pods[p].ready
        BY <3>2, <3>6 DEF PodStatus, DeletePod
      <4> QED BY <3>1, <3>2, <3>6, <4>1 DEF DeletePod, PodStatus
    <3> QED BY <2>1, <3>3, <3>4, <3>5, <3>6
  <2> QED BY <2>2, <2>3 DEF GoneUnready
<1>2. CASE ProcessNextItem
  <2>1. UNCHANGED pods
    BY <1>2, HandKept
  <2> QED BY <2>1 DEF GoneUnready
<1>3. CASE Deliver \/ (\E item \in backoff : Requeue(item)) \/ Crash \/ UNCHANGED vars
  <2>1. UNCHANGED pods
    BY <1>3 DEF Deliver, DeliverUpsert, DeliverDelete, Requeue, Crash, vars, environment
  <2> QED BY <2>1 DEF GoneUnready
<1> QED BY <1>1, <1>2, <1>3 DEF Next

\* A pod whose deletion goes unheard has never come through the store.
LEMMA UnheardIsUnknown ==
    ASSUME ~ AbruptDeletes, Store, NEW p \in Pods, Unheard(p)
    PROVE  store[p].rv = 0 /\ UNCHANGED nodes
BY DEF Unheard, DeliverDelete, Store, environment

LEMMA AddStaleNext ==
    ASSUME ~ AbruptDeletes, Roles, Stale, Began, AddStale, TypeOK', [Next]_vars
    PROVE  AddStale'
<1> SUFFICES ASSUME step' = "add", NEW n \in todo', n.pod \in Workers, ~ Live(n.pod)'
             PROVE  Pending(n.pod)'
  BY DEF AddStale
<1>1. n.pod \in Pods
  BY DEF Pods
<1>2. CASE Outside
  <2>1. /\ UNCHANGED <<step, todo>>
        /\ Pending(n.pod)' \/ StillAsIt(n.pod) \/ Unheard(n.pod)
    BY <1>1, <1>2, OutsideStill DEF Roles, Stale
  <2>2. ~ StillAsIt(n.pod)
    BY <2>1 DEF AddStale, StillAsIt, Live
  <2>3. ~ Unheard(n.pod)
    <3>1. store[n.pod].rv > 0
      BY <2>1 DEF Began, FromStore
    <3> QED BY <1>1, <3>1, UnheardIsUnknown DEF Began
  <2> QED BY <2>1, <2>2, <2>3
<1>3. CASE ProcessNextItem
  <2>1. CASE DiffLeader
    <3>1. /\ step = "prune" /\ n \in ListReadyWorkers \cup {Self}
          /\ Self.pod \in Leaders
      BY <2>1, SelfType DEF DiffLeader, Roles, StepRole
    <3>2. /\ UNCHANGED pods /\ (Pending(n.pod) => Pending(n.pod)')
      BY <1>3, <3>1, WorkKeepsNews DEF Roles
    <3>3. store[n.pod].exists /\ store[n.pod].ready
      BY <3>1, RegistrationAssumption DEF ListReadyWorkers, NodeOf
    <3>4. store[n.pod] # pods[n.pod]
      BY <3>2, <3>3 DEF Live
    <3> QED BY <1>1, <3>2, <3>4, BehindIsNews DEF Roles, Stale
  <2>2. ASSUME NEW m \in todo, AddToLeader(m), todo' = todo \ {m}
        PROVE  Pending(n.pod)'
    <3>1. step = "add"
      BY <2>2 DEF AddToLeader
    <3>2. /\ UNCHANGED pods /\ (Pending(n.pod) => Pending(n.pod)')
      BY <1>3, <3>1, WorkKeepsNews DEF Roles
    <3> QED BY <2>2, <3>1, <3>2 DEF AddStale, Live
  <2> QED BY <1>3, <2>1, <2>2, Stages
<1>4. CASE Crash
  BY <1>4 DEF Crash, Finish
<1>5. CASE UNCHANGED vars
  <2>1. Pending(n.pod)' = Pending(n.pod) /\ Live(n.pod)' = Live(n.pod)
    BY <1>5 DEF vars, Pending, Newest, Waiting, Live
  <2> QED BY <1>5, <2>1 DEF vars, AddStale
<1> QED BY <1>2, <1>3, <1>4, <1>5 DEF Next, Outside

Parting(l, w) == l \in Leaders /\ w \in Workers /\ Live(l) /\ ~ Live(w)

LEMMA PartingType ==
    ASSUME NEW l, NEW w, Parting(l, w)
    PROVE  /\ l \in Leaders /\ l \in Pods /\ l \notin Workers
           /\ w \in Workers /\ w \in Pods /\ w \notin Leaders /\ w # l
BY RegistrationAssumption DEF Parting, Pods

LEMMA RemovalTaken ==
    ASSUME TypeOK, Snapshots, ProcessNextItem, step = "idle",
           NEW l, NEW w, Parting(l, w), Cleared(l, w)
    PROVE  Cleared(l, w)'
<1> DEFINE item == Head(queue)
<1>1. /\ GetUnmanaged \/ GetUnreadyLeader \/ GetReadyLeader \/ GetWorker
      /\ Takes(item) /\ item \in Item
      /\ UNCHANGED <<pods, store, nodes>> /\ backoff \subseteq backoff'
  BY Taking
<1>2. l \in Leaders /\ l \notin Workers /\ w \in Workers /\ w \notin Leaders /\ Live(l)
  BY PartingType DEF Parting
<1>3. Pending(l) => Pending(l)' \/ Newest(item, l)
  BY <1>1, TakingNews
<1>4. Pending(w) => Pending(w)' \/ Newest(item, w)
  BY <1>1, TakingNews
<1>5. w \notin Names(nodes[l]) \/ Pending(l) \/ Pending(w)
  BY DEF Cleared, Removing, At
<1>6. CASE ~ Newest(item, l) /\ ~ Newest(item, w)
  BY <1>1, <1>3, <1>4, <1>5, <1>6 DEF Cleared
<1>7. CASE Newest(item, l)
  <2>1. item.kind = "pod" /\ item.pod \in Leaders /\ item.at.ready
    BY <1>2, <1>7 DEF Newest, Live
  <2>2. GetReadyLeader
    BY <1>1, <2>1, RegistrationAssumption
       DEF GetUnmanaged, GetUnreadyLeader, GetWorker, IsGroupLeader, IsGroupWorker
  <2>3. At(l)' /\ step' = "list"
    BY <1>1, <1>7, <2>2 DEF GetReadyLeader, At, Newest
  <2> QED BY <2>3 DEF Cleared, Removing
<1>8. CASE Newest(item, w)
  <2>1. item.kind = "pod" /\ item.pod \in Workers
    BY <1>2, <1>8 DEF Newest
  <2>2. GetWorker
    BY <1>1, <2>1, RegistrationAssumption
       DEF GetUnmanaged, GetUnreadyLeader, GetReadyLeader, IsGroupLeader, IsGroupWorker
  <2>3. At(w)' /\ step' = "post" /\ todo' = ListReadyLeaders
    BY <1>1, <1>8, <2>2 DEF GetWorker, At, Newest
  <2>4. CASE NodeOf(l, pods[l]) \in ListReadyLeaders
    BY <1>1, <2>3, <2>4 DEF Cleared, Removing
  <2>5. CASE NodeOf(l, pods[l]) \notin ListReadyLeaders
    <3>1. store[l] # pods[l] /\ l \in Pods
      BY <1>2, <2>5 DEF ListReadyLeaders, IsGroupLeader, Live, Pods
    <3>2. store[l].rv # pods[l].rv
      BY <3>1, PresentIsNewest DEF Snapshots
    <3> QED BY <1>1, <3>2 DEF Cleared, Pending
  <2> QED BY <2>4, <2>5
<1> QED BY <1>6, <1>7, <1>8

\* What a post does to a name that is not on a list.
LEMMA PostAddsNoName ==
    ASSUME TypeOK, NEW to, to.pod \in Leaders, NEW list, Posted(to, list),
           NEW l \in Leaders, NEW x, x \notin Names(nodes[l]), l = to.pod => x \notin Names(list)
    PROVE  x \notin Names(nodes'[l])
<1>1. CASE nodes' = nodes
  BY <1>1
<1>2. CASE nodes' = [nodes EXCEPT ![to.pod] = list]
  BY <1>2 DEF TypeOK
<1> QED BY <1>1, <1>2, PostChangesOneList

LEMMA RemovalPosted ==
    ASSUME ~ AbruptDeletes, Roles, Stale, OldBehind, GoneUnready,
           NEW to \in todo, PostWorker(to), ~ lossy',
           NEW l, NEW w, Parting(l, w), Cleared(l, w)
    PROVE  Cleared(l, w)'
<1> DEFINE list == Applied(nodes[to.pod])
<1>1. /\ TypeOK /\ step = "post" /\ step # "idle" /\ to.pod \in Leaders /\ to \in Node
      /\ current.pod \in Workers /\ current \in Item /\ current.kind = "pod"
      /\ Self \in Node /\ Self.pod = current.pod
  BY SelfType DEF PostWorker, Roles, StepRole, Names, TypeOK, Stale, Snapshots
<1>2. /\ UNCHANGED <<pods, store, queue>> /\ Waiting \subseteq Waiting'
      /\ \A p : Pending(p) => Pending(p)'
  BY <1>1, WorkKeepsNews DEF ProcessNextItem
<1>3. /\ l \in Leaders /\ l \in Pods /\ l \notin Workers
      /\ w \in Workers /\ w \in Pods /\ w \notin Leaders /\ w # l /\ ~ Live(w)
  BY PartingType DEF Parting
<1>4. Posted(to, list)
  BY DEF PostWorker, Posted
<1>5. nodes[to.pod] \in SUBSET Node
  BY <1>1 DEF TypeOK
<1>6. CASE Pending(l) \/ Pending(w)
  BY <1>2, <1>6 DEF Cleared
<1>7. At(w) => ~ current.at.ready
  BY <1>3 DEF At, Newest, Live, GoneUnready
<1>8. CASE w \notin Names(nodes[l]) /\ ~ Pending(w)
  <2>1. current.pod = w => ~ current.at.ready
    <3> SUFFICES ASSUME current.pod = w, ~ At(w) PROVE FALSE
      BY <1>7
    <3>1. current \in InHand /\ current.at # pods[current.pod]
      BY <1>1 DEF InHand, At, Newest
    <3> QED BY <1>1, <1>8, <3>1 DEF OldBehind
  <2>2. l = to.pod => w \notin Names(list)
    <3>1. CASE current.at.ready
      <4>1. Names(Added(nodes[to.pod], Self)) = Names(nodes[to.pod]) \cup {Self.pod}
        BY <1>1, <1>5, AddedNames
      <4> QED BY <1>1, <1>8, <2>1, <3>1, <4>1 DEF Applied
    <3>2. CASE ~ current.at.ready
      <4>1. Names(Removed(nodes[to.pod], Self)) = Names(nodes[to.pod]) \ {Self.pod}
        BY <1>1, <1>5, RemovedNames
      <4> QED BY <1>1, <1>8, <3>2, <4>1 DEF Applied
    <3> QED BY <3>1, <3>2
  <2>3. w \notin Names(nodes'[l])
    BY <1>1, <1>3, <1>4, <1>8, <2>2, PostAddsNoName
  <2> QED BY <2>3 DEF Cleared
<1>9. CASE Removing(l, w)
  <2>1. At(w) /\ NodeOf(l, pods[l]) \in todo /\ w = current.pod
    BY <1>1, <1>9 DEF Removing, At, Newest
  <2>2. CASE Fail(current)
    <3>1. Pending(w)'
      BY <1>1, <1>2, <2>1, <2>2, FailureIsNews
    <3> QED BY <3>1 DEF Cleared
  <2>3. CASE PostSucceeds(to, list) /\ todo' = todo \ {to} /\ UNCHANGED <<step, current>>
    <3>1. At(w)' /\ step' = "post"
      BY <1>1, <1>2, <2>1, <2>3 DEF At, Newest
    <3>2. CASE to # NodeOf(l, pods[l])
      <4>1. NodeOf(l, pods'[l]) \in todo'
        BY <1>2, <2>1, <2>3, <3>2
      <4> QED BY <3>1, <4>1 DEF Cleared, Removing
    <3>3. CASE to = NodeOf(l, pods[l])
      <4>1. to.pod = l /\ nodes' = [nodes EXCEPT ![l] = list]
        BY <2>3, <3>3 DEF NodeOf, PostSucceeds
      <4>2. nodes'[l] = Removed(nodes[l], Self)
        BY <1>1, <1>3, <1>7, <2>1, <4>1 DEF TypeOK, Applied
      <4>3. w \notin Names(nodes'[l])
        BY <1>1, <1>5, <2>1, <4>1, <4>2, RemovedNames
      <4> QED BY <4>3 DEF Cleared
    <3> QED BY <3>2, <3>3
  <2> QED BY <2>2, <2>3 DEF PostWorker
<1> QED BY <1>6, <1>8, <1>9 DEF Cleared

\* What is known while ProcessLeader is at work.
LEMMA LeaderLeaves ==
    ASSUME Roles, Stale, step \in {"list", "prune", "add", "remove"}, ProcessNextItem,
           NEW l, NEW w, Parting(l, w)
    PROVE  /\ current.pod \in Leaders /\ Self \in Node /\ Self.pod = current.pod
           /\ nodes[Self.pod] \in SUBSET Node /\ \A n \in todo : n \in Node
           /\ UNCHANGED <<pods, store, queue>> /\ \A p : Pending(p) => Pending(p)'
           /\ Removing(l, w) => At(l) /\ l = current.pod /\ l = Self.pod
           /\ ~ lossy' /\ Fail(current) /\ At(l) => Pending(l)'
<1>1. /\ TypeOK /\ step # "idle" /\ current.pod \in Leaders /\ current.at.ready
      /\ Self \in Node /\ Self.pod = current.pod
  BY SelfType DEF Roles, StepRole, Stale, Snapshots
<1>2. UNCHANGED <<pods, store, queue>> /\ \A p : Pending(p) => Pending(p)'
  BY <1>1, WorkKeepsNews
<1>3. ~ lossy' /\ Fail(current) /\ At(l) => Pending(l)'
  BY <1>1, <1>2, FailureIsNews
<1>4. nodes[Self.pod] \in SUBSET Node /\ \A n \in todo : n \in Node
  BY <1>1 DEF TypeOK
<1>5. Removing(l, w) => At(l) /\ l = current.pod
  BY DEF Removing, At, Newest
<1> QED BY <1>1, <1>2, <1>3, <1>4, <1>5

LEMMA RemovalCompared ==
    ASSUME Roles, Stale, ListExisted \/ ListExistedFails \/ DiffLeader, ~ lossy',
           NEW l, NEW w, Parting(l, w), Cleared(l, w)
    PROVE  Cleared(l, w)'
<1>1. /\ ProcessNextItem /\ step \in {"list", "prune"} /\ nodes' = nodes
  BY DEF ProcessNextItem, ListExisted, ListExistedFails, DiffLeader, environment
<1>2. /\ current.pod \in Leaders /\ Self.pod = current.pod
      /\ UNCHANGED <<pods, store>> /\ \A p : Pending(p) => Pending(p)'
      /\ Removing(l, w) => At(l) /\ l = Self.pod
      /\ Fail(current) /\ At(l) => Pending(l)'
  BY <1>1, LeaderLeaves
<1>3. CASE w \notin Names(nodes[l]) \/ Pending(l) \/ Pending(w)
  BY <1>1, <1>2, <1>3 DEF Cleared
<1>4. CASE Removing(l, w) /\ w \in Names(nodes[l])
  <2>1. At(l) /\ l = Self.pod
    BY <1>2, <1>4
  <2>2. CASE ListExisted
    <3>1. At(l)' /\ step' = "prune"
      BY <1>2, <2>1, <2>2 DEF ListExisted, At, Newest
    <3>2. CASE store[w].exists
      <4>1. NodeOf(w, store[w]) \in rest'
        BY <1>4, <2>1, <2>2, <3>2 DEF ListExisted
      <4>2. w \in Names(rest')
        BY <4>1 DEF Names, NodeOf
      <4> QED BY <3>1, <4>2 DEF Cleared, Removing
    <3>3. CASE ~ store[w].exists
      <4>1. PICK n \in nodes[l] : n.pod = w
        BY <1>4 DEF Names
      <4>2. n \in todo'
        BY <2>1, <2>2, <3>3, <4>1 DEF ListExisted
      <4>3. w \in Names(todo')
        BY <4>1, <4>2 DEF Names
      <4> QED BY <3>1, <4>3 DEF Cleared, Removing
    <3> QED BY <3>2, <3>3
  <2>3. CASE ListExistedFails
    <3>1. Pending(l)'
      BY <1>2, <2>1, <2>3 DEF ListExistedFails
    <3> QED BY <3>1 DEF Cleared
  <2>4. CASE DiffLeader
    <3> DEFINE workers == ListReadyWorkers \cup {Self}
    <3>1. /\ At(l)' /\ step' = "add" /\ step = "prune" /\ todo = {}
          /\ rest' = {n \in rest : n.pod \notin Names(workers)}
      BY <1>2, <2>1, <2>4 DEF DiffLeader, At, Newest
    <3>2. PICK n \in rest : n.pod = w
      BY <1>4, <3>1 DEF Removing, Names
    <3>3. CASE w \in Names(workers)
      <4>1. w \in Names(ListReadyWorkers) /\ w \in Pods /\ ~ Live(w)
        BY <1>2, <3>3, PartingType DEF Names, Parting
      <4>2. store[w].exists /\ store[w].ready
        BY <4>1 DEF Names, ListReadyWorkers, NodeOf
      <4>3. Pending(w)
        BY <4>1, <4>2, BehindIsNews DEF Live, Roles, Stale
      <4> QED BY <1>2, <4>3 DEF Cleared
    <3>4. CASE w \notin Names(workers)
      <4>1. n \in rest'
        BY <3>1, <3>2, <3>4
      <4>2. w \in Names(rest')
        BY <3>2, <4>1 DEF Names
      <4> QED BY <3>1, <4>2 DEF Cleared, Removing
    <3> QED BY <3>3, <3>4
  <2> QED BY <2>2, <2>3, <2>4
<1> QED BY <1>3, <1>4 DEF Cleared

LEMMA RemovalSent ==
    ASSUME Roles, Stale, AddStale,
           NEW n \in todo, Prune(n) \/ AddToLeader(n) \/ RemoveFromLeader(n),
           ~ lossy', NEW l, NEW w, Parting(l, w), Cleared(l, w)
    PROVE  Cleared(l, w)'
<1>1. ProcessNextItem /\ step \in {"prune", "add", "remove"}
  BY DEF ProcessNextItem, Prune, AddToLeader, RemoveFromLeader
<1>2. /\ Self.pod \in Leaders /\ Self.pod = current.pod /\ n \in Node
      /\ nodes[Self.pod] \in SUBSET Node
      /\ UNCHANGED <<pods, store>> /\ \A p : Pending(p) => Pending(p)'
      /\ Removing(l, w) => At(l) /\ l = Self.pod
      /\ Fail(current) /\ At(l) => Pending(l)'
  BY <1>1, LeaderLeaves
<1>3. l \in Leaders /\ w \in Workers /\ ~ Live(w) /\ TypeOK
  BY DEF Parting, Roles
<1>4. CASE Pending(l) \/ Pending(w)
  BY <1>2, <1>4 DEF Cleared
<1>5. CASE w \notin Names(nodes[l]) /\ ~ Pending(w)
  <2>1. CASE AddToLeader(n)
    <3>1. Posted(Self, Added(nodes[Self.pod], n))
      BY <2>1 DEF AddToLeader, PostLeader, Posted
    <3>2. n.pod # w
      BY <1>3, <1>5, <2>1 DEF AddToLeader, AddStale
    <3>3. l = Self.pod => w \notin Names(Added(nodes[Self.pod], n))
      BY <1>2, <1>5, <3>2, AddedNames
    <3>4. w \notin Names(nodes'[l])
      BY <1>2, <1>3, <1>5, <3>1, <3>3, PostAddsNoName
    <3> QED BY <3>4 DEF Cleared
  <2>2. CASE Prune(n) \/ RemoveFromLeader(n)
    <3>1. Posted(Self, Removed(nodes[Self.pod], n))
      BY <2>2 DEF Prune, RemoveFromLeader, PostLeader, Posted
    <3>2. l = Self.pod => w \notin Names(Removed(nodes[Self.pod], n))
      BY <1>2, <1>5, RemovedNames
    <3>3. w \notin Names(nodes'[l])
      BY <1>2, <1>3, <1>5, <3>1, <3>2, PostAddsNoName
    <3> QED BY <3>3 DEF Cleared
  <2> QED BY <2>1, <2>2
<1>6. CASE Removing(l, w)
  <2>1. At(l) /\ l = Self.pod
    BY <1>2, <1>6
  \* The post to remove w is made.
  <2>2. ASSUME PostSucceeds(Self, Removed(nodes[Self.pod], n)), n.pod = w
        PROVE  Cleared(l, w)'
    <3>1. nodes'[l] = Removed(nodes[l], n)
      BY <1>3, <2>1, <2>2 DEF PostSucceeds, TypeOK
    <3>2. w \notin Names(nodes'[l])
      BY <1>2, <2>1, <2>2, <3>1, RemovedNames
    <3> QED BY <3>2 DEF Cleared
  <2>3. CASE Prune(n)
    <3>1. /\ PostSucceeds(Self, Removed(nodes[Self.pod], n))
          /\ todo' = todo \ {n} /\ UNCHANGED <<step, current, rest>> /\ step = "prune"
      BY <2>3 DEF Prune
    <3>2. At(l)' /\ step' = "prune"
      BY <1>2, <2>1, <3>1 DEF At, Newest
    <3>3. PICK m \in todo \cup rest : m.pod = w
      BY <1>6, <1>2, <3>1, <2>1 DEF Removing, Names
    <3>4. CASE m = n
      BY <2>2, <3>1, <3>3, <3>4
    <3>5. CASE m # n
      <4>1. w \in Names(todo') \cup Names(rest')
        BY <3>1, <3>3, <3>5 DEF Names
      <4> QED BY <3>2, <4>1 DEF Cleared, Removing
    <3> QED BY <3>4, <3>5
  <2>4. CASE AddToLeader(n) \/ RemoveFromLeader(n)
    <3>1. CASE Fail(current)
      <4>1. Pending(l)'
        BY <1>2, <2>1, <3>1
      <4> QED BY <4>1 DEF Cleared
    <3>2. CASE ~ Fail(current)
      <4>1. todo' = todo \ {n} /\ UNCHANGED <<step, current, rest>>
        BY <2>4, <3>2 DEF AddToLeader, RemoveFromLeader, PostLeader
      <4>2. At(l)'
        BY <1>2, <2>1, <4>1 DEF At, Newest
      <4>3. CASE AddToLeader(n)
        <5>1. step = "add" /\ w \in Names(rest)
          BY <1>2, <1>6, <2>1, <4>3, PartingType DEF AddToLeader, Removing
        <5> QED BY <4>1, <4>2, <5>1 DEF Cleared, Removing
      <4>4. CASE RemoveFromLeader(n)
        <5>1. /\ step = "remove" /\ w \in Names(todo)
              /\ PostSucceeds(Self, Removed(nodes[Self.pod], n))
          BY <1>6, <3>2, <4>4 DEF RemoveFromLeader, PostLeader, Removing
        <5>2. PICK m \in todo : m.pod = w
          BY <5>1 DEF Names
        <5>3. CASE m = n
          BY <2>2, <5>1, <5>2, <5>3
        <5>4. CASE m # n
          <6>1. w \in Names(todo')
            BY <4>1, <5>2, <5>4 DEF Names
          <6> QED BY <4>1, <4>2, <5>1, <6>1 DEF Cleared, Removing
        <5> QED BY <5>3, <5>4
      <4> QED BY <2>4, <4>3, <4>4
    <3> QED BY <3>1, <3>2
  <2> QED BY <2>3, <2>4
<1> QED BY <1>4, <1>5, <1>6 DEF Cleared

LEMMA RemovalEnded ==
    ASSUME Roles, Stale, FinishWorker \/ StartRemoving \/ FinishLeader,
           NEW l, NEW w, Parting(l, w), Cleared(l, w)
    PROVE  Cleared(l, w)'
<1>1. /\ ProcessNextItem /\ step \in {"post", "add", "remove"} /\ todo = {} /\ nodes' = nodes
  BY DEF ProcessNextItem, FinishWorker, StartRemoving, FinishLeader, environment
<1>2. UNCHANGED pods /\ \A p : Pending(p) => Pending(p)'
  BY <1>1, WorkKeepsNews DEF Roles
<1>3. CASE w \notin Names(nodes[l]) \/ Pending(l) \/ Pending(w)
  BY <1>1, <1>2, <1>3 DEF Cleared
<1>4. CASE Removing(l, w)
  <2>1. At(l) /\ step = "add" /\ w \in Names(rest)
    BY <1>1, <1>4 DEF Removing, Names
  <2>2. step' = "remove" /\ todo' = rest /\ current' = current
    BY <2>1 DEF FinishWorker, StartRemoving, FinishLeader
  <2>3. At(l)'
    BY <1>2, <2>1, <2>2 DEF At, Newest
  <2> QED BY <2>1, <2>2, <2>3 DEF Cleared, Removing
<1> QED BY <1>3, <1>4 DEF Cleared

LEMMA LeavingOutside ==
    ASSUME ~ AbruptDeletes, Roles, Stale, Began, SoundComing, TypeOK', Outside
    PROVE  SoundComing'
<1> SUFFICES ASSUME NEW l \in Leaders, NEW w \in Workers, Live(l)', ~ Live(w)'
             PROVE  Cleared(l, w)'
  BY DEF SoundComing
<1>1. /\ UNCHANGED <<step, current, todo, rest>>
      /\ \A p \in Pods : Pending(p)' \/ StillAsIt(p) \/ Unheard(p)
      /\ \A p \in Pods : Live(p)' => Pending(p)' \/ StillAsIt(p)
      /\ nodes'[l] = nodes[l] \/ pods'[l] # pods[l]
  BY OutsideStill DEF Roles, Stale
<1>2. l \in Pods /\ w \in Pods
  BY DEF Pods
<1>3. CASE Pending(l)' \/ Pending(w)'
  BY <1>3 DEF Cleared
<1>4. CASE ~ Pending(l)' /\ ~ Pending(w)'
  <2>1. StillAsIt(l) /\ Live(l) /\ nodes'[l] = nodes[l] /\ ~ Pending(l)
    BY <1>1, <1>2, <1>4 DEF StillAsIt, Live
  <2>2. CASE StillAsIt(w)
    <3>1. w \notin Names(nodes[l]) \/ Removing(l, w)
      BY <2>1, <2>2 DEF SoundComing, Cleared, StillAsIt, Live
    <3>2. At(l)' = At(l) /\ At(w)' = At(w)
      BY <1>1, <2>1, <2>2 DEF At, Newest, StillAsIt
    <3>3. Removing(l, w) => Removing(l, w)'
      BY <1>1, <2>1, <3>2 DEF Removing, StillAsIt
    <3> QED BY <2>1, <3>1, <3>3 DEF Cleared
  <2>3. CASE Unheard(w)
    <3>1. store[w].rv = 0
      BY <1>2, <2>3, UnheardIsUnknown DEF Began
    <3>2. w \notin listing
      BY <2>1 DEF Began, Store
    <3>3. w \notin Names(nodes[l])
      BY <1>2, <3>1, <3>2 DEF Began, FromStore
    <3> QED BY <2>1, <3>3 DEF Cleared
  <2> QED BY <1>1, <1>2, <1>4, <2>2, <2>3
<1> QED BY <1>3, <1>4

LEMMA LeavingWork ==
    ASSUME ~ AbruptDeletes, Roles, Stale, OldBehind, GoneUnready, AddStale, SoundComing,
           ProcessNextItem, ~ lossy'
    PROVE  SoundComing'
<1>1. UNCHANGED pods
  BY HandKept DEF Roles
<1> SUFFICES ASSUME NEW l \in Leaders, NEW w \in Workers, Live(l), ~ Live(w)
             PROVE  Cleared(l, w)'
  BY <1>1 DEF SoundComing, Live
<1>2. Parting(l, w) /\ Cleared(l, w)
  BY DEF Parting, SoundComing
<1>3. CASE step = "idle"
  BY <1>2, <1>3, RemovalTaken DEF Roles, Stale
<1>4. CASE step # "idle"
  <2>1. CASE \E to \in todo : PostWorker(to)
    BY <1>2, <2>1, RemovalPosted
  <2>2. CASE ListExisted \/ ListExistedFails \/ DiffLeader
    BY <1>2, <2>2, RemovalCompared
  <2>3. CASE \E n \in todo : Prune(n) \/ AddToLeader(n) \/ RemoveFromLeader(n)
    BY <1>2, <2>3, RemovalSent
  <2>4. CASE FinishWorker \/ StartRemoving \/ FinishLeader
    BY <1>2, <2>4, RemovalEnded
  <2>5. ~ (GetUnmanaged \/ GetUnreadyLeader \/ GetReadyLeader \/ GetWorker)
    BY <1>4 DEF GetUnmanaged, GetUnreadyLeader, GetReadyLeader, GetWorker, CanGet
  <2> QED BY <2>1, <2>2, <2>3, <2>4, <2>5 DEF ProcessNextItem
<1> QED BY <1>3, <1>4

LEMMA LeavingNext ==
    ASSUME ~ AbruptDeletes, LeavingInv, [Next]_vars
    PROVE  LeavingInv'
<1> USE DEF LeavingInv
<1>1. ComingInv'
  BY ComingNext
<1>2. GoneUnready' /\ AddStale'
  BY <1>1, GoneUnreadyNext, AddStaleNext DEF ComingInv, Roles
<1>3. ASSUME ~ lossy' PROVE SoundComing'
  <2>1. CASE Outside
    <3>1. ~ lossy
      BY <1>1, <1>3, <2>1, OutsideStill DEF ComingInv, Roles, Stale
    <3> QED BY <1>1, <2>1, <3>1, LeavingOutside DEF ComingInv, Roles
  <2>2. CASE ProcessNextItem
    <3>1. ~ lossy
      BY <1>3, <2>2, WorkKeepsNews, Taking DEF ComingInv, Roles
    <3> QED BY <1>3, <2>2, <3>1, LeavingWork DEF ComingInv
  <2>3. CASE Crash
    BY <2>3, CrashIsNews DEF SoundComing, Cleared, Pods, ComingInv, Stale
  <2>4. CASE UNCHANGED vars
    <3>1. \A p : Pending(p)' = Pending(p) /\ At(p)' = At(p) /\ Live(p)' = Live(p)
      BY <2>4 DEF vars, Pending, Waiting, At, Newest, Live
    <3> QED BY <1>3, <2>4, <3>1 DEF vars, SoundComing, Cleared, Removing
  <2> QED BY <2>1, <2>2, <2>3, <2>4 DEF Next, Outside
<1> QED BY <1>1, <1>2, <1>3

LEMMA LeavingInit == Init => LeavingInv
<1> SUFFICES ASSUME Init PROVE LeavingInv
  OBVIOUS
<1>1. GoneUnready /\ AddStale /\ SoundComing
  BY DEF Init, GoneUnready, AddStale, SoundComing, Cleared, Names, Absent
<1> QED BY <1>1, ComingInit DEF LeavingInv

\* If every pod is seen unready before it is deleted, then once the controller
\* has nothing left to do no ready leader lists a worker that is not ready, for
\* all pods, bounds, lost requests and restarts, unless work was lost on the way
\* (ProcessUnreadyWorker, ListExistedWorkers, ProcessLeader).
THEOREM RemovesAllWhenQuiet ==
    ASSUME AbruptDeletes = FALSE
    PROVE  Spec => []SoundWhenQuiet
<1>1. LeavingInv => SoundWhenQuiet
  <2> SUFFICES ASSUME LeavingInv, Quiet, ~ lossy, NEW l \in Leaders, Live(l),
                      NEW w \in Names(nodes[l]) \cap Workers, ~ Live(w)
               PROVE  FALSE
    BY DEF SoundWhenQuiet, Sound
  <2>1. ~ Pending(l) /\ ~ Pending(w)
    BY QuietIsNoNews DEF Pods
  <2>2. ~ Removing(l, w)
    BY DEF Quiet, Removing, At
  <2> QED BY <2>1, <2>2 DEF LeavingInv, SoundComing, Cleared
<1>2. LeavingInv /\ [Next]_vars => LeavingInv'
  BY LeavingNext
<1> QED BY <1>1, <1>2, LeavingInit, PTL DEF Spec
=============================================================================

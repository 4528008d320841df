---------------------- MODULE RegistrationMembershipProofs ----------------------
(* The register controller implements ClusterMembership, for every set of pods,    *)
(* every bound and every number of faults and restarts.                            *)
EXTENDS RegistrationMembership, RegistrationProofs

--------------------------------------------------------------------------------
(* The inductive invariant.                                                      *)

\* The pods that may be members of a list.
Managed == Leaders \cup Workers

\* Every copy of a pod's object that says Ready is of a node that was ready once:
\* at the API server, where it may be the last state of a deleted pod, and in the
\* informer's store.
SeenNodes ==
    /\ seen \subseteq CM!Member
    /\ \A p \in Managed :
          /\ pods[p].ready => NodeOf(p, pods[p]) \in seen
          /\ store[p].ready => NodeOf(p, store[p]) \in seen

\* A pod that is or was there has had a version.
Appeared == \A p \in Pods : pods[p].exists \/ store[p].exists => pods[p].rv > 0

\* An item has come through the store, so its pod, if it is still there, is in
\* the store: no restart has emptied it since.  Its snapshot is a seen node, too.
Held == {item \in Item :
    /\ pods[item.pod].rv > 0
    /\ pods[item.pod].exists => store[item.pod].exists
    /\ item.pod \in Managed /\ item.at.ready => NodeOf(item.pod, item.at) \in seen}

HeldItems ==
    /\ queue \in Seq(Held)
    /\ backoff \subseteq Held
    /\ step # "idle" => current \in Held

\* What ProcessLeader takes off a list are workers, never the leader, which is in
\* the store and which it compares with itself; what it adds has been seen.
Passing ==
    /\ step \in {"list", "prune", "add", "remove"} => current.at.ready
    /\ step = "prune" => Names(todo) \subseteq Workers
                         /\ Names(rest) \subseteq Workers \cup {current.pod}
    /\ step = "add" => todo \subseteq seen /\ Names(rest) \subseteq Workers
    /\ step = "remove" => Names(todo) \subseteq Workers

Base == TypeOK /\ StepRole /\ OnlyWorkersAndSelf
MInv == SeenNodes /\ Appeared /\ HeldItems /\ Passing

HInv == Base /\ MInv

--------------------------------------------------------------------------------
(* What steps leave alone stays right.                                           *)

LEMMA BaseStep ==
    ASSUME Base, [Next]_vars
    PROVE  Base'
BY TypeNext, StepRoleNext, ListsNext DEF Base

\* A step of the history variable beside a step of the controller.
Collects == seen' = seen \cup ReadyNodes'

LEMMA ReadyAreMembers ==
    ASSUME TypeOK
    PROVE  ReadyNodes \subseteq CM!Member
BY DEF ReadyNodes, CM!Member, NodeOf, TypeOK, PodStatus, Pods

LEMMA SeenStaysTyped ==
    ASSUME SeenNodes, TypeOK', Collects
    PROVE  seen \subseteq seen' /\ seen' \subseteq CM!Member
<1>1. ReadyNodes' \subseteq CM!Member
  BY ReadyAreMembers DEF ReadyNodes, CM!Member, NodeOf, TypeOK, PodStatus, Pods
<1> QED BY <1>1 DEF Collects, SeenNodes

\* Items are known by what the pods, the store and the nodes seen are.
LEMMA HeldStill ==
    ASSUME UNCHANGED <<pods, store>>, seen \subseteq seen'
    PROVE  Held \subseteq Held'
BY DEF Held

LEMMA ItemsKept ==
    ASSUME HeldItems, Held \subseteq Held', UNCHANGED <<queue, backoff, step, current>>
    PROVE  HeldItems'
<1>1. queue' \in Seq(Held')
  BY DEF HeldItems
<1> QED BY <1>1 DEF HeldItems

LEMMA PassingKept ==
    ASSUME Passing, UNCHANGED goroutine, seen \subseteq seen'
    PROVE  Passing'
BY DEF Passing, goroutine, Names

\* Nothing new is seen while the pods stay as they are.
LEMMA SeenSame ==
    ASSUME SeenNodes, Collects, UNCHANGED pods
    PROVE  seen' = seen
<1>1. ReadyNodes' = ReadyNodes
  BY DEF ReadyNodes
<1>2. ReadyNodes \subseteq seen
  BY DEF ReadyNodes, SeenNodes, Managed
<1> QED BY <1>1, <1>2 DEF Collects

\* Steps of the goroutine leave pods and store alone, and so what is seen.
LEMMA SeenStill ==
    ASSUME SeenNodes, Appeared, Collects, UNCHANGED <<pods, store>>
    PROVE  SeenNodes' /\ Appeared' /\ seen' = seen
<1>1. seen' = seen
  BY SeenSame
<1> QED BY <1>1 DEF SeenNodes, Appeared, NodeOf

LEMMA MInit == HInit => MInv
<1> SUFFICES ASSUME HInit PROVE MInv
  OBVIOUS
<1>1. Managed \subseteq Pods
  BY DEF Managed, Pods
<1>2. SeenNodes /\ Appeared
  BY <1>1 DEF HInit, Init, SeenNodes, Appeared, Absent
<1>3. HeldItems /\ Passing
  BY DEF HInit, Init, HeldItems, Passing
<1> QED BY <1>2, <1>3 DEF MInv

--------------------------------------------------------------------------------
(* Pods, the informer and the delaying queue.                                    *)

\* Which pods an action of the environment changes, and how.
LEMMA EnvironmentChanges ==
    ASSUME TypeOK, NEW p \in Pods,
           CreatePod(p) \/ ProbePod(p) \/ RestartPod(p) \/ DeletePod(p)
    PROVE  /\ \A q \in Pods \ {p} : pods'[q] = pods[q]
           /\ pods'[p].rv > 0
           /\ pods'[p].ready /\ ~ pods'[p].exists =>
                pods[p].ready /\ pods'[p].addr = pods[p].addr
           /\ pods'[p].exists /\ pods[p].rv > 0 => pods[p].exists
           /\ UNCHANGED <<store, listing, queue, backoff, goroutine, history>>
<1>1. pods[p] \in PodStatus /\ pods[p].rv + 1 \in Nat /\ pods[p].rv + 1 > 0
  BY DEF TypeOK, PodStatus
<1>2. CASE CreatePod(p)
  BY <1>1, <1>2 DEF CreatePod, Touch, TypeOK, PodStatus, informer
<1>3. CASE ProbePod(p)
  BY <1>1, <1>3 DEF ProbePod, Touch, TypeOK, PodStatus, informer
<1>4. CASE RestartPod(p)
  <2>1. PICK a \in {pods[p].addr, pods[p].addr + 1} :
           Touch(p, [pods[p] EXCEPT !.ready = FALSE, !.addr = a])
    BY <1>4 DEF RestartPod
  <2> QED BY <1>1, <1>4, <2>1 DEF RestartPod, Touch, TypeOK, PodStatus, informer
<1>5. CASE DeletePod(p)
  BY <1>1, <1>5 DEF DeletePod, Touch, TypeOK, PodStatus, informer
<1> QED BY <1>2, <1>3, <1>4, <1>5

\* A pod that becomes ready is collected; one that is deleted while Ready has
\* been collected before.
LEMMA EnvironmentKeeps ==
    ASSUME Base, MInv, Base', Collects, Environment
    PROVE  MInv'
<1> USE DEF Base, MInv
<1>1. PICK p \in Pods : CreatePod(p) \/ ProbePod(p) \/ RestartPod(p) \/ DeletePod(p)
  BY DEF Environment
<1>2. /\ \A q \in Pods \ {p} : pods'[q] = pods[q]
      /\ pods'[p].rv > 0
      /\ pods'[p].ready /\ ~ pods'[p].exists =>
           pods[p].ready /\ pods'[p].addr = pods[p].addr
      /\ pods'[p].exists /\ pods[p].rv > 0 => pods[p].exists
      /\ UNCHANGED <<store, listing, queue, backoff, goroutine, history>>
  BY <1>1, EnvironmentChanges
<1>3. seen \subseteq seen' /\ seen' \subseteq CM!Member
  BY SeenStaysTyped
<1>4. SeenNodes'
  <2> SUFFICES ASSUME NEW q \in Managed
               PROVE  /\ pods'[q].ready => NodeOf(q, pods'[q]) \in seen'
                      /\ store[q].ready => NodeOf(q, store[q]) \in seen'
    BY <1>2, <1>3 DEF SeenNodes, NodeOf
  <2>1. q \in Pods
    BY DEF Managed, Pods
  <2>2. store[q].ready => NodeOf(q, store[q]) \in seen'
    BY <1>3 DEF SeenNodes
  <2>3. CASE q # p
    BY <1>2, <1>3, <2>1, <2>2, <2>3 DEF SeenNodes
  <2>4. CASE q = p /\ pods'[q].exists
    <3>1. pods'[q].ready => NodeOf(q, pods'[q]) \in ReadyNodes'
      BY <2>4 DEF ReadyNodes, NodeOf, Managed
    <3> QED BY <2>2, <3>1 DEF Collects
  <2>5. CASE q = p /\ ~ pods'[q].exists
    <3>1. pods'[q].ready => NodeOf(q, pods'[q]) = NodeOf(q, pods[q]) /\ pods[q].ready
      BY <1>2, <2>5 DEF NodeOf
    <3> QED BY <1>3, <2>2, <3>1 DEF SeenNodes
  <2> QED BY <2>3, <2>4, <2>5
<1>5. Appeared'
  BY <1>2 DEF Appeared
<1>6. Held \subseteq Held'
  <2> SUFFICES ASSUME NEW item \in Held
               PROVE  /\ pods'[item.pod].rv > 0
                      /\ pods'[item.pod].exists => store[item.pod].exists
                      /\ item.pod \in Managed /\ item.at.ready =>
                            NodeOf(item.pod, item.at) \in seen'
    BY <1>2 DEF Held
  <2>1. item.pod \in Pods
    BY DEF Held, Item
  <2>2. item.pod \in Managed /\ item.at.ready => NodeOf(item.pod, item.at) \in seen'
    BY <1>3 DEF Held
  <2> QED BY <1>2, <2>1, <2>2 DEF Held
<1>7. HeldItems'
  BY <1>2, <1>6, ItemsKept DEF goroutine
<1>8. Passing'
  BY <1>2, <1>3, PassingKept
<1> QED BY <1>4, <1>5, <1>7, <1>8

\* What is put into the queue is held.
LEMMA Appending ==
    ASSUME HeldItems, Held \subseteq Held', NEW item \in Held',
           queue' = Append(queue, item), UNCHANGED <<step, current>>, backoff' \subseteq backoff
    PROVE  HeldItems'
<1>1. queue \in Seq(Held')
  BY DEF HeldItems
<1>2. queue' \in Seq(Held')
  BY <1>1
<1> QED BY <1>2 DEF HeldItems

LEMMA DeliverKeeps ==
    ASSUME Base, MInv, Collects, Deliver
    PROVE  MInv'
<1> USE DEF Base, MInv
<1>1. PICK p \in Pods : DeliverUpsert(p) \/ DeliverDelete(p)
  BY DEF Deliver
<1>2. /\ store' = [store EXCEPT ![p] = pods[p]]
      /\ UNCHANGED <<pods, nodes, backoff, goroutine>>
      /\ store[p] \in PodStatus /\ pods[p] \in PodStatus
  BY <1>1 DEF DeliverUpsert, DeliverDelete, environment, TypeOK
<1>3. seen' = seen
  BY <1>2, SeenSame
<1>4. /\ store'[p] = pods[p]
      /\ \A q \in Pods \ {p} : store'[q] = store[q]
  BY <1>2 DEF TypeOK
<1>5. SeenNodes'
  <2>1. ASSUME NEW q \in Managed
        PROVE  /\ pods[q].ready => NodeOf(q, pods[q]) \in seen
               /\ store'[q].ready => NodeOf(q, store'[q]) \in seen
    <3>1. q \in Pods
      BY DEF Managed, Pods
    <3>2. store'[q] \in {pods[q], store[q]}
      BY <1>4, <3>1
    <3> QED BY <3>2 DEF SeenNodes
  <2> QED BY <1>2, <1>3, <2>1 DEF SeenNodes, NodeOf
<1>6. Appeared'
  BY <1>2, <1>4 DEF Appeared
<1>7. Held \subseteq Held'
  <2> SUFFICES ASSUME NEW item \in Held
               PROVE  pods[item.pod].exists => store'[item.pod].exists
    BY <1>2, <1>3 DEF Held
  <2>1. item.pod \in Pods /\ (pods[item.pod].exists => store[item.pod].exists)
    BY DEF Held, Item
  <2> QED BY <1>4, <2>1
<1>8. HeldItems'
  <2>1. CASE UNCHANGED queue
    BY <1>2, <1>7, <2>1, ItemsKept DEF goroutine
  <2>2. ASSUME NEW k \in {"pod", "tombstone"}, NEW s \in {pods[p], store[p]},
               pods[p].exists \/ store[p].exists, Enqueue(NewItem(k, p, s))
        PROVE  HeldItems'
    <3>1. /\ NewItem(k, p, s) \in Item
          /\ NewItem(k, p, s).pod = p /\ NewItem(k, p, s).at = s
      BY <1>2, NewItemType DEF NewItem
    <3>2. p \in Managed /\ s.ready => NodeOf(p, s) \in seen
      BY DEF SeenNodes
    <3>3. pods[p].rv > 0
      BY <2>2 DEF Appeared
    <3>4. NewItem(k, p, s) \in Held'
      BY <1>2, <1>3, <1>4, <3>1, <3>2, <3>3 DEF Held
    <3> QED BY <1>2, <1>7, <2>2, <3>4, Appending DEF Enqueue, goroutine
  <2> QED BY <1>1, <2>1, <2>2 DEF DeliverUpsert, DeliverDelete
<1>9. Passing'
  BY <1>2, <1>3, PassingKept
<1> QED BY <1>5, <1>6, <1>8, <1>9

LEMMA RequeueKeeps ==
    ASSUME Base, MInv, Collects, NEW item \in backoff, Requeue(item)
    PROVE  MInv'
<1> USE DEF Base, MInv
<1>1. /\ UNCHANGED <<pods, store, goroutine>> /\ backoff' \subseteq backoff
      /\ queue' = Append(queue, item)
  BY DEF Requeue, environment, informer, Enqueue
<1>2. SeenNodes' /\ Appeared' /\ seen' = seen
  BY <1>1, SeenStill
<1>3. Held \subseteq Held' /\ item \in Held
  BY <1>1, <1>2, HeldStill DEF HeldItems
<1>4. HeldItems'
  BY <1>1, <1>3, Appending DEF goroutine
<1> QED BY <1>1, <1>2, <1>4, PassingKept

LEMMA CrashKeeps ==
    ASSUME Base, MInv, Collects, Crash
    PROVE  MInv'
<1> USE DEF Base, MInv
<1>1. /\ UNCHANGED pods
      /\ \A p \in Pods : store'[p] = Absent \/ (store'[p] = pods[p] /\ ~ pods[p].exists)
      /\ queue' = <<>> /\ backoff' = {} /\ step' = "idle"
  BY DEF Crash, environment, Finish
<1>2. seen' = seen
  BY <1>1, SeenSame
<1>3. Managed \subseteq Pods
  BY DEF Managed, Pods
<1>4. SeenNodes' /\ Appeared'
  <2>1. ASSUME NEW q \in Managed
        PROVE  /\ pods[q].ready => NodeOf(q, pods[q]) \in seen
               /\ store'[q].ready => NodeOf(q, store'[q]) \in seen
    <3>1. store'[q] = Absent \/ store'[q] = pods[q]
      BY <1>1, <1>3
    <3> QED BY <3>1 DEF SeenNodes, Absent
  <2>2. SeenNodes'
    BY <1>1, <1>2, <2>1 DEF SeenNodes, NodeOf
  <2>3. Appeared'
    BY <1>1 DEF Appeared, Absent
  <2> QED BY <2>2, <2>3
<1>5. HeldItems' /\ Passing'
  BY <1>1 DEF HeldItems, Passing
<1> QED BY <1>4, <1>5

--------------------------------------------------------------------------------
(* The goroutine.                                                                *)

\* What an item leaves behind when it fails is held like itself.
LEMMA FailHeld ==
    ASSUME HeldItems, NEW item \in Held, Fail(item), Held \subseteq Held'
    PROVE  backoff' \subseteq Held'
<1>1. CASE item.tries < RequeueLimit
  <2>1. item \in Item /\ [item EXCEPT !.tries = @ + 1] \in Item
    BY <1>1, RegistrationAssumption DEF Item, Held
  <2>2. [item EXCEPT !.tries = @ + 1] \in Held
    BY <2>1 DEF Held, Item
  <2> QED BY <1>1, <2>2 DEF Fail, HeldItems
<1>2. CASE ~ (item.tries < RequeueLimit)
  BY <1>2 DEF Fail, HeldItems
<1> QED BY <1>1, <1>2

LEMMA GetKeeps ==
    ASSUME Base, MInv, Collects,
           GetUnmanaged \/ GetUnreadyLeader \/ GetReadyLeader \/ GetWorker
    PROVE  MInv'
<1> USE DEF Base, MInv
<1>1. /\ CanGet /\ queue' = Tail(queue) /\ UNCHANGED <<pods, store>>
  BY DEF GetUnmanaged, GetUnreadyLeader, GetReadyLeader, GetWorker, environment, informer
<1>2. SeenNodes' /\ Appeared' /\ seen' = seen
  BY <1>1, SeenStill
<1>3. Held \subseteq Held'
  BY <1>1, <1>2, HeldStill
<1>4. Head(queue) \in Held /\ queue' \in Seq(Held')
  <2>1. queue \in Seq(Held) /\ queue # <<>>
    BY <1>1 DEF HeldItems, CanGet
  <2>2. Head(queue) \in Held
    BY <2>1
  <2>3. queue \in Seq(Held')
    BY <1>3, <2>1
  <2> QED BY <1>1, <2>1, <2>2, <2>3
<1>5. CASE GetUnmanaged
  <2>1. UNCHANGED goroutine /\ UNCHANGED backoff
    BY <1>5 DEF GetUnmanaged
  <2>2. HeldItems'
    BY <1>3, <1>4, <2>1 DEF HeldItems, goroutine
  <2> QED BY <1>2, <2>1, <2>2, PassingKept
<1>6. CASE GetUnreadyLeader
  <2>1. UNCHANGED goroutine /\ backoff' \subseteq Held'
    BY <1>3, <1>4, <1>6, FailHeld DEF GetUnreadyLeader
  <2>2. HeldItems'
    BY <1>3, <1>4, <2>1 DEF HeldItems, goroutine
  <2> QED BY <1>2, <2>1, <2>2, PassingKept
<1>7. CASE GetReadyLeader \/ GetWorker
  <2>1. HeldItems'
    BY <1>3, <1>4, <1>7 DEF GetReadyLeader, GetWorker, HeldItems
  <2>2. Passing'
    BY <1>7 DEF GetReadyLeader, GetWorker, Passing
  <2> QED BY <1>2, <2>1, <2>2
<1> QED BY <1>5, <1>6, <1>7

\* The steps that end the item, with or without an error.
LEMMA EndKeeps ==
    ASSUME Base, MInv, Collects, UNCHANGED <<pods, store, queue>>, step # "idle", Finish,
           Fail(current) \/ UNCHANGED backoff
    PROVE  MInv'
<1> USE DEF Base, MInv
<1>1. SeenNodes' /\ Appeared' /\ seen' = seen
  BY SeenStill
<1>2. Held \subseteq Held'
  BY <1>1, HeldStill
<1>3. queue' \in Seq(Held') /\ current \in Held
  BY <1>2 DEF HeldItems
<1>4. backoff' \subseteq Held'
  BY <1>2, <1>3, FailHeld DEF HeldItems
<1>5. HeldItems' /\ Passing'
  BY <1>3, <1>4 DEF HeldItems, Finish, Passing
<1> QED BY <1>1, <1>5

\* The steps that go on with it.
LEMMA GoOnKeeps ==
    ASSUME Base, MInv, Collects, UNCHANGED <<pods, store, queue, backoff, current>>,
           step # "idle", Passing'
    PROVE  MInv'
<1> USE DEF Base, MInv
<1>1. SeenNodes' /\ Appeared' /\ seen' = seen
  BY SeenStill
<1>2. Held \subseteq Held'
  BY <1>1, HeldStill
<1>3. HeldItems'
  BY <1>2 DEF HeldItems
<1> QED BY <1>1, <1>3

\* The leader's own name is never among those that are not in the store.
LEMMA ListExistedKeeps ==
    ASSUME Base, MInv, Collects, ListExisted
    PROVE  MInv'
<1> USE DEF Base, MInv
<1>1. /\ step = "list" /\ current \in Held /\ current.at.ready
      /\ current.pod \in Leaders /\ Self.pod = current.pod
  BY SelfType DEF ListExisted, HeldItems, Passing, StepRole
<1>2. store[current.pod].exists
  BY <1>1 DEF ListExisted, Reachable, Held
<1>3. Names(nodes[current.pod]) \subseteq Workers \cup {current.pod}
  BY <1>1 DEF OnlyWorkersAndSelf
<1>4. Names(todo') \subseteq Workers
  <2>1. \A n \in todo' : n.pod \in Names(nodes[current.pod]) /\ ~ store[n.pod].exists
    BY <1>1 DEF ListExisted, Names
  <2> QED BY <1>2, <1>3, <2>1 DEF Names
<1>5. Names(rest') \subseteq Workers \cup {current.pod}
  <2>1. \A n \in rest' : n.pod \in Names(nodes[current.pod])
    BY <1>1 DEF ListExisted, NodeOf
  <2> QED BY <1>3, <2>1 DEF Names
<1>6. Passing'
  BY <1>1, <1>4, <1>5 DEF ListExisted, Passing
<1> QED BY <1>1, <1>6, GoOnKeeps DEF ListExisted, environment, informer

\* What is to add has been seen: ready workers of the store, and the snapshot.
LEMMA DiffKeeps ==
    ASSUME Base, MInv, Collects, DiffLeader
    PROVE  MInv'
<1> USE DEF Base, MInv
<1>1. /\ step = "prune" /\ current \in Held /\ current.at.ready
      /\ current.pod \in Leaders /\ Self.pod = current.pod
  BY SelfType DEF DiffLeader, HeldItems, Passing, StepRole
<1>2. Self \in seen
  BY <1>1 DEF Self, Held, Managed
<1>3. ListReadyWorkers \subseteq seen
  BY DEF ListReadyWorkers, IsGroupWorker, SeenNodes, Managed
<1>4. seen' = seen
  BY SeenSame DEF DiffLeader, environment
<1>5. todo' \subseteq seen'
  BY <1>2, <1>3, <1>4 DEF DiffLeader
<1>6. Names(rest') \subseteq Workers
  <2>1. \A n \in rest' : n \in rest /\ n.pod # current.pod
    BY <1>1 DEF DiffLeader, Names
  <2>2. Names(rest) \subseteq Workers \cup {current.pod}
    BY <1>1 DEF Passing
  <2> QED BY <2>1, <2>2 DEF Names
<1>7. Passing'
  BY <1>1, <1>5, <1>6 DEF DiffLeader, Passing
<1> QED BY <1>1, <1>7, GoOnKeeps DEF DiffLeader, environment, informer

\* One request is done: less is left to do.
LEMMA LessKeeps ==
    ASSUME Base, MInv, Collects, UNCHANGED <<pods, store, queue, backoff, step, current, rest>>,
           todo' \subseteq todo, step # "idle"
    PROVE  MInv'
<1> USE DEF Base, MInv
<1>1. seen' = seen
  BY SeenSame
<1>2. Names(todo') \subseteq Names(todo) /\ Names(rest') = Names(rest)
  BY DEF Names
<1>3. Passing'
  BY <1>1, <1>2 DEF Passing
<1> QED BY <1>3, GoOnKeeps

LEMMA RequestKeeps ==
    ASSUME Base, MInv, Collects, NEW n \in todo,
           PostWorker(n) \/ Prune(n) \/ AddToLeader(n) \/ RemoveFromLeader(n)
    PROVE  MInv'
<1>1. step # "idle" /\ UNCHANGED <<pods, store, queue>>
  BY DEF PostWorker, Prune, AddToLeader, RemoveFromLeader, PostLeader, informer
<1>2. CASE Fail(current) /\ Finish
  BY <1>1, <1>2, EndKeeps
<1>3. CASE UNCHANGED <<step, current, rest, backoff>> /\ todo' = todo \ {n}
  BY <1>1, <1>3, LessKeeps
<1> QED BY <1>2, <1>3 DEF PostWorker, Prune, AddToLeader, RemoveFromLeader, PostLeader

LEMMA ProcessKeeps ==
    ASSUME Base, MInv, Collects, ProcessNextItem
    PROVE  MInv'
<1>1. CASE FinishWorker \/ FinishLeader \/ ListExistedFails
  <2>1. /\ step # "idle" /\ Finish /\ UNCHANGED <<pods, store, queue>>
        /\ Fail(current) \/ UNCHANGED backoff
    BY <1>1 DEF FinishWorker, FinishLeader, ListExistedFails, environment, informer
  <2> QED BY <2>1, EndKeeps
<1>2. CASE StartRemoving
  <2>1. Passing'
    BY <1>2 DEF StartRemoving, Passing, MInv
  <2>2. step # "idle" /\ UNCHANGED <<pods, store, queue, backoff, current>>
    BY <1>2 DEF StartRemoving, environment, informer
  <2> QED BY <2>1, <2>2, GoOnKeeps
<1> QED BY <1>1, <1>2, GetKeeps, ListExistedKeeps, DiffKeeps, RequestKeeps
        DEF ProcessNextItem

LEMMA HStep ==
    ASSUME HInv, [HNext]_<<vars, seen>>
    PROVE  HInv'
<1>1. Base'
  BY BaseStep DEF HInv, HNext, vars
<1>2. CASE HNext
  <2>1. Next /\ Collects
    BY <1>2 DEF HNext, Collects
  <2>2. MInv'
    BY <1>1, <2>1, EnvironmentKeeps, DeliverKeeps, RequeueKeeps, ProcessKeeps, CrashKeeps
       DEF HInv, Next
  <2> QED BY <1>1, <2>2 DEF HInv
<1>3. CASE UNCHANGED <<vars, seen>>
  <2>1. /\ UNCHANGED <<pods, store, queue, backoff, step, current, todo, rest, goroutine>>
        /\ seen' = seen
    BY <1>3 DEF vars, goroutine
  <2>2. SeenNodes' /\ Appeared'
    BY <2>1 DEF HInv, MInv, SeenNodes, Appeared, NodeOf
  <2>3. HeldItems'
    <3>1. Held \subseteq Held'
      BY <2>1, HeldStill
    <3> QED BY <2>1, <3>1, ItemsKept DEF HInv, MInv
  <2>4. Passing'
    BY <2>1, PassingKept DEF HInv, MInv
  <2> QED BY <1>1, <2>2, <2>3, <2>4 DEF HInv, MInv
<1> QED BY <1>2, <1>3

LEMMA HInitHolds == HInit => HInv
<1>1. HInit => TypeOK
  BY TypeInit DEF HInit
<1>2. HInit => StepRole /\ OnlyWorkersAndSelf
  BY DEF HInit, Init, StepRole, OnlyWorkersAndSelf, Names
<1> QED BY <1>1, <1>2, MInit DEF HInv, Base

--------------------------------------------------------------------------------
(* The refinement.                                                               *)

Allowed == [CM!Next]_<<nodes, seen>>

\* An add of a seen node is a Join, or the name was listed already.
LEMMA AddIsAllowed ==
    ASSUME TypeOK, NEW l \in Leaders, NEW n \in seen, n.pod \in Workers \cup {l},
           nodes' = nodes \/ nodes' = [nodes EXCEPT ![l] = Added(nodes[l], n)], seen' = seen
    PROVE  Allowed
<1>1. CASE nodes' = nodes
  BY <1>1 DEF Allowed
<1>2. CASE n.pod \in Names(nodes[l]) /\ nodes' = [nodes EXCEPT ![l] = Added(nodes[l], n)]
  <2>1. nodes' = nodes
    BY <1>2 DEF Added, TypeOK
  <2> QED BY <2>1 DEF Allowed
<1>3. CASE n.pod \notin Names(nodes[l]) /\ nodes' = [nodes EXCEPT ![l] = Added(nodes[l], n)]
  <2>1. nodes' = [nodes EXCEPT ![l] = @ \cup {n}]
    BY <1>3 DEF Added
  <2>2. CM!Join(l, n)
    BY <1>3, <2>1 DEF CM!Join, CM!MemberNames, Names
  <2> QED BY <2>2 DEF Allowed, CM!Next
<1> QED BY <1>1, <1>2, <1>3

LEMMA RemoveIsAllowed ==
    ASSUME NEW l \in Leaders, NEW n, n.pod \in Workers,
           nodes' = nodes \/ nodes' = [nodes EXCEPT ![l] = Removed(nodes[l], n)], seen' = seen
    PROVE  Allowed
<1>1. CASE nodes' = nodes
  BY <1>1 DEF Allowed
<1>2. CASE nodes' = [nodes EXCEPT ![l] = Removed(nodes[l], n)]
  <2>1. CM!Leave(l, n.pod)
    BY <1>2 DEF CM!Leave, Removed
  <2> QED BY <2>1 DEF Allowed, CM!Next
<1> QED BY <1>1, <1>2

\* A step that leaves the lists alone is one in which at most pods appear.
LEMMA AppearIsAllowed ==
    ASSUME UNCHANGED nodes, seen \subseteq seen', seen' \subseteq CM!Member
    PROVE  Allowed
BY DEF Allowed, CM!Next, CM!Appear

\* A restart or a deletion clears the list of at most one leader, and nothing is
\* seen by it.
LEMMA EnvironmentIsAllowed ==
    ASSUME HInv, HInv', Collects, Environment
    PROVE  Allowed
<1>1. PICK p \in Pods : CreatePod(p) \/ ProbePod(p) \/ RestartPod(p) \/ DeletePod(p)
  BY DEF Environment
<1>2. seen \subseteq seen' /\ seen' \subseteq CM!Member
  BY SeenStaysTyped DEF HInv, Base, MInv
<1>3. CASE UNCHANGED nodes
  BY <1>2, <1>3, AppearIsAllowed
<1>4. CASE nodes' # nodes
  <2>1. /\ RestartPod(p) \/ DeletePod(p)
        /\ nodes' = [l \in Leaders |-> IF l = p THEN {} ELSE nodes[l]]
    BY <1>1, <1>4 DEF CreatePod, ProbePod, RestartPod, DeletePod
  <2>2. nodes \in [Leaders -> SUBSET Node]
    BY DEF HInv, Base, TypeOK
  <2>3. p \in Leaders
    BY <1>4, <2>1, <2>2
  <2>4. nodes' = [nodes EXCEPT ![p] = {}]
    BY <2>1, <2>2, <2>3
  <2>5. /\ ~ (pods'[p].exists /\ pods'[p].ready)
        /\ \A q \in Pods \ {p} : pods'[q] = pods[q]
    BY <2>1 DEF RestartPod, DeletePod, Touch, HInv, Base, TypeOK, PodStatus
  <2>6. ReadyNodes' \subseteq seen
    BY <2>5 DEF ReadyNodes, NodeOf, HInv, MInv, SeenNodes, Managed, Pods
  <2>7. CM!Clear(p)
    BY <2>4, <2>6 DEF CM!Clear, Collects
  <2> QED BY <2>3, <2>7 DEF Allowed, CM!Next
<1> QED BY <1>3, <1>4

\* A request of the goroutine, whatever becomes of it.
LEMMA RequestIsAllowed ==
    ASSUME HInv, Collects, NEW n \in todo,
           PostWorker(n) \/ Prune(n) \/ AddToLeader(n) \/ RemoveFromLeader(n)
    PROVE  Allowed
<1> USE DEF HInv, Base, MInv
<1>1. step # "idle" /\ UNCHANGED pods /\ current \in Held
  BY DEF PostWorker, Prune, AddToLeader, RemoveFromLeader, PostLeader, HeldItems
<1>2. seen' = seen /\ Self.pod = current.pod
  BY <1>1, SeenSame, SelfType
<1>3. CASE PostWorker(n)
  <2>1. n.pod \in Leaders /\ Self.pod \in Workers
    BY <1>2, <1>3 DEF PostWorker, StepRole, Names
  <2>2. nodes' = nodes \/ nodes' = [nodes EXCEPT ![n.pod] = Applied(nodes[n.pod])]
    <3>1. Posted(n, Applied(nodes[n.pod]))
      BY <1>3 DEF PostWorker, Posted
    <3> QED BY <3>1, PostChangesOneList
  <2>3. CASE current.at.ready
    <3>1. Self \in seen
      BY <1>1, <1>2, <2>1, <2>3 DEF Self, Held, Managed
    <3> QED BY <1>2, <2>1, <2>2, <2>3, <3>1, AddIsAllowed DEF Applied
  <2>4. CASE ~ current.at.ready
    BY <1>2, <2>1, <2>2, <2>4, RemoveIsAllowed DEF Applied
  <2> QED BY <2>3, <2>4
<1>4. CASE Prune(n) \/ RemoveFromLeader(n)
  <2>1. Self.pod \in Leaders /\ n.pod \in Workers
    BY <1>2, <1>4 DEF Prune, RemoveFromLeader, StepRole, Passing, Names
  <2>2. Posted(Self, Removed(nodes[Self.pod], n))
    BY <1>4 DEF Prune, RemoveFromLeader, PostLeader, Posted
  <2>3. nodes' = nodes \/ nodes' = [nodes EXCEPT ![Self.pod] = Removed(nodes[Self.pod], n)]
    BY <2>2, PostChangesOneList
  <2> QED BY <1>2, <2>1, <2>3, RemoveIsAllowed
<1>5. CASE AddToLeader(n)
  <2>1. Self.pod \in Leaders /\ n.pod \in Workers \cup {Self.pod} /\ n \in seen
    BY <1>2, <1>5 DEF AddToLeader, StepRole, Passing, Names
  <2>2. Posted(Self, Added(nodes[Self.pod], n))
    BY <1>5 DEF AddToLeader, PostLeader, Posted
  <2>3. nodes' = nodes \/ nodes' = [nodes EXCEPT ![Self.pod] = Added(nodes[Self.pod], n)]
    BY <2>2, PostChangesOneList
  <2> QED BY <1>2, <2>1, <2>3, AddIsAllowed
<1> QED BY <1>3, <1>4, <1>5

LEMMA StepIsAllowed ==
    ASSUME HInv, HInv', [HNext]_<<vars, seen>>
    PROVE  Allowed
<1>1. CASE UNCHANGED <<vars, seen>>
  BY <1>1 DEF Allowed, vars
<1>2. CASE HNext
  <2>1. Next /\ Collects
    BY <1>2 DEF HNext, Collects
  <2>2. CASE UNCHANGED nodes
    <3>1. seen \subseteq seen' /\ seen' \subseteq CM!Member
      BY <2>1, SeenStaysTyped DEF HInv, Base, MInv
    <3> QED BY <2>2, <3>1, AppearIsAllowed
  <2>3. CASE nodes' # nodes
    <3>1. \/ Environment
          \/ \E n \in todo : PostWorker(n) \/ Prune(n) \/ AddToLeader(n) \/ RemoveFromLeader(n)
      BY <2>1, <2>3 DEF Next, Deliver, DeliverUpsert, DeliverDelete, Requeue, Crash,
           ProcessNextItem, GetUnmanaged, GetUnreadyLeader, GetReadyLeader, GetWorker,
           FinishWorker, ListExisted, ListExistedFails, DiffLeader, StartRemoving,
           FinishLeader, environment
    <3> QED BY <2>1, <3>1, EnvironmentIsAllowed, RequestIsAllowed
  <2> QED BY <2>2, <2>3
<1> QED BY <1>1, <1>2

\* The register controller implements ClusterMembership, for all sets of pods,
\* bounds, lost and refused requests, overtaken retries, abrupt deletions and
\* restarts: a node joins a list only under an address at which it has been ready,
\* one name joins once, no leader is taken off its own list (AddNode, RemoveNode,
\* ProcessLeader, ListExistedWorkers).
THEOREM RefinesMembership == HSpec => ImplementsMembership
<1>1. HInit => HInv
  BY HInitHolds
<1>2. HInv /\ [HNext]_<<vars, seen>> => HInv'
  BY HStep
<1>3. HInit => CM!Init
  BY DEF HInit, Init, CM!Init
<1>4. HInv /\ HInv' /\ [HNext]_<<vars, seen>> => [CM!Next]_<<nodes, seen>>
  BY StepIsAllowed DEF Allowed
<1> QED BY <1>1, <1>2, <1>3, <1>4, PTL DEF HSpec, ImplementsMembership, CM!Spec
================================================================================

------------------------------ MODULE ProcessProofs ------------------------------
(* Proofs about Process, for every number of workers and of signals.               *)
EXTENDS Process, TLAPS

\* Signals that have come to c are in it, or have been received.
SignalsCounted ==
    /\ handler = "none" <=> pc <= 2
    /\ handler = "none" => caught = 0 /\ buffered = 0
    /\ handler = "first" => buffered <= caught
    /\ handler = "second" => buffered < caught
    /\ caught <= sent

\* Nothing is launched before the stores it reads have been filled.
LaunchedSynced ==
    /\ starter = "serving" => {"deployments", "groups", "operators"} \subseteq synced
    /\ \A w \in Workers : worker[w] # "none" =>
          IF w[1] = "register" THEN pc > 10
          ELSE {"deployments", "groups", "operators"} \subseteq synced
    /\ pc > 9 => "pods" \in synced

IInv == TypeOK /\ SignalsCounted /\ LaunchedSynced /\ ExitsWhenAsked

\* Which statement of main is where.
LEMMA Length ==
  Len(Program) = 11
  BY DEF Program

LEMMA Statements ==
  ASSUME NEW k \in 1..11
  PROVE  /\ Program[k] = "Notify" <=> k = 1
         /\ Program[k] = "SetupSignalHandler" <=> k = 2
         /\ Program[k] = "NewForConfig" <=> k = 3
         /\ Program[k] = "NewController" <=> k = 4
         /\ Program[k] = "StartKube" <=> k = 5
         /\ Program[k] = "StartCrd" <=> k = 6
         /\ Program[k] = "StartController" <=> k = 7
         /\ Program[k] = "RunInformer" <=> k = 8
         /\ Program[k] = "WaitForCacheSync" <=> k = 9
         /\ Program[k] = "StartWorker" <=> k = 10
         /\ Program[k] = "Stop" <=> k = 11
<1>1. k \in {1, 2, 3, 4, 5, 6, 7, 8, 9, 10, 11}
  OBVIOUS
<1> QED  BY <1>1 DEF Program

LEMMA AfterSetup ==
  ASSUME pc \in 1..Len(Program), After("SetupSignalHandler")
  PROVE  pc > 2
<1>1. PICK i \in 1..(pc - 1) : Program[i] = "SetupSignalHandler"
  BY DEF After
<1>2. pc \in 1..11
  BY Length
<1>3. i = 2
  BY <1>1, <1>2, Statements
<1> QED  BY <1>1, <1>2, <1>3

LEMMA Counts ==
  ASSUME TypeOK, SignalsCounted
  PROVE  /\ handler = "second" => caught > 0
         /\ handler = "second" /\ buffered > 0 => caught > 1
<1>1. caught \in 0..MaxSignals /\ buffered \in 0..2
  BY DEF TypeOK
<1> QED  BY <1>1, ProcessAssumption DEF SignalsCounted

LEMMA WorkerKinds ==
  ASSUME NEW w \in Workers
  PROVE  /\ w[1] \in {"group", "operator", "register"}
         /\ w[1] = "register" <=> w = <<"register", 1>>
  BY DEF Workers

LEMMA RegisterWorker ==
  <<"register", 1>> \in Workers
  BY DEF Workers

--------------------------------------------------------------------------------
LEMMA InitHolds ==
  Init => IInv
<1> SUFFICES ASSUME Init
             PROVE  IInv
  OBVIOUS
<1>1. pc \in 1..Len(Program)
  BY DEF Init, Program
<1>2. TypeOK
  BY <1>1, ProcessAssumption DEF Init, TypeOK
<1> QED  BY <1>2 DEF IInv, Init, SignalsCounted, LaunchedSynced, ExitsWhenAsked

\* A step of main that only goes on, or starts another goroutine.
LEMMA MainKeeps ==
  ASSUME IInv, Main
  PROVE  IInv'
<1> USE Length, ProcessAssumption DEF IInv, Advance, signals, informers, stopped
<1>0. pc \in 1..11
  BY DEF TypeOK
<1>1. CASE Notify
  <2>1. exit = "alive" /\ pc = 1
    BY <1>0, <1>1, Statements DEF Notify, Statement
  <2>2. TypeOK'
    BY <1>1, <2>1 DEF Notify, TypeOK
  <2>3. SignalsCounted'
    BY <1>1, <2>1 DEF Notify, TypeOK, SignalsCounted
  <2>4. LaunchedSynced'
    BY <1>1, <2>1 DEF Notify, TypeOK, LaunchedSynced
  <2>5. ExitsWhenAsked'
    BY <1>1, <2>1, Statements DEF Notify, TypeOK, SignalsCounted, ExitsWhenAsked
  <2> QED  BY <2>2, <2>3, <2>4, <2>5
<1>2. CASE SetupSignalHandler
  <2>1. exit = "alive" /\ pc = 2
    BY <1>0, <1>2, Statements DEF SetupSignalHandler, Statement
  <2>2. TypeOK'
    BY <1>2, <2>1 DEF SetupSignalHandler, TypeOK
  <2>3. SignalsCounted'
    BY <1>2, <2>1 DEF SetupSignalHandler, TypeOK, SignalsCounted
  <2>4. LaunchedSynced'
    BY <1>2, <2>1 DEF SetupSignalHandler, TypeOK, LaunchedSynced
  <2>5. ExitsWhenAsked'
    BY <1>2, <2>1, Statements DEF SetupSignalHandler, TypeOK, SignalsCounted, ExitsWhenAsked
  <2> QED  BY <2>2, <2>3, <2>4, <2>5
<1>3. CASE NewForConfig
  <2>1. exit = "alive" /\ pc = 3
    BY <1>0, <1>3, Statements DEF NewForConfig, Statement
  <2>2. UNCHANGED <<apiServer, sent, buffered, caught, handler, launched, requested, running,
                    synced, starter, worker>>
    BY <1>3 DEF NewForConfig
  <2>3. CASE pc' = pc + 1 /\ exit' = "alive"
    <3>1. TypeOK'
      BY <2>1, <2>2, <2>3 DEF TypeOK
    <3>2. SignalsCounted'
      BY <2>1, <2>2, <2>3 DEF TypeOK, SignalsCounted
    <3>3. LaunchedSynced'
      BY <2>1, <2>2, <2>3 DEF TypeOK, LaunchedSynced
    <3>4. ExitsWhenAsked'
      BY <2>1, <2>2, <2>3, Statements DEF TypeOK, SignalsCounted, ExitsWhenAsked
    <3> QED  BY <3>1, <3>2, <3>3, <3>4
  <2>4. CASE pc' = pc /\ exit' = "code 1"
    <3>1. TypeOK'
      BY <2>1, <2>2, <2>4 DEF TypeOK
    <3>2. SignalsCounted'
      BY <2>1, <2>2, <2>4 DEF TypeOK, SignalsCounted
    <3>3. LaunchedSynced'
      BY <2>1, <2>2, <2>4 DEF TypeOK, LaunchedSynced
    <3>4. ExitsWhenAsked'
      BY <2>1, <2>2, <2>4, Statements DEF TypeOK, SignalsCounted, ExitsWhenAsked
    <3> QED  BY <3>1, <3>2, <3>3, <3>4
  <2> QED  BY <1>3, <2>1, <2>3, <2>4 DEF NewForConfig
<1>4. CASE NewController
  <2>1. exit = "alive" /\ pc = 4
    BY <1>0, <1>4, Statements DEF NewController, Statement
  <2>2. TypeOK'
    BY <1>4, <2>1 DEF NewController, TypeOK
  <2>3. SignalsCounted'
    BY <1>4, <2>1 DEF NewController, TypeOK, SignalsCounted
  <2>4. LaunchedSynced'
    BY <1>4, <2>1 DEF NewController, TypeOK, LaunchedSynced
  <2>5. ExitsWhenAsked'
    BY <1>4, <2>1, Statements DEF NewController, TypeOK, SignalsCounted, ExitsWhenAsked
  <2> QED  BY <2>2, <2>3, <2>4, <2>5
<1>5. CASE GoFactoryStart("kube")
  <2>1. exit = "alive" /\ pc = 5
    BY <1>0, <1>5, Statements DEF GoFactoryStart, Statement
  <2>2. TypeOK'
    BY <1>5, <2>1 DEF GoFactoryStart, TypeOK
  <2>3. SignalsCounted'
    BY <1>5, <2>1 DEF GoFactoryStart, TypeOK, SignalsCounted
  <2>4. LaunchedSynced'
    BY <1>5, <2>1 DEF GoFactoryStart, TypeOK, LaunchedSynced
  <2>5. ExitsWhenAsked'
    BY <1>5, <2>1, Statements DEF GoFactoryStart, TypeOK, SignalsCounted, ExitsWhenAsked
  <2> QED  BY <2>2, <2>3, <2>4, <2>5
<1>6. CASE GoFactoryStart("crd")
  <2>1. exit = "alive" /\ pc = 6
    BY <1>0, <1>6, Statements DEF GoFactoryStart, Statement
  <2>2. TypeOK'
    BY <1>6, <2>1 DEF GoFactoryStart, TypeOK
  <2>3. SignalsCounted'
    BY <1>6, <2>1 DEF GoFactoryStart, TypeOK, SignalsCounted
  <2>4. LaunchedSynced'
    BY <1>6, <2>1 DEF GoFactoryStart, TypeOK, LaunchedSynced
  <2>5. ExitsWhenAsked'
    BY <1>6, <2>1, Statements DEF GoFactoryStart, TypeOK, SignalsCounted, ExitsWhenAsked
  <2> QED  BY <2>2, <2>3, <2>4, <2>5
<1>7. CASE GoControllerStart
  <2>1. exit = "alive" /\ pc = 7
    BY <1>0, <1>7, Statements DEF GoControllerStart, Statement
  <2>2. TypeOK'
    BY <1>7, <2>1 DEF GoControllerStart, TypeOK
  <2>3. SignalsCounted'
    BY <1>7, <2>1 DEF GoControllerStart, TypeOK, SignalsCounted
  <2>4. LaunchedSynced'
    BY <1>7, <2>1 DEF GoControllerStart, TypeOK, LaunchedSynced
  <2>5. ExitsWhenAsked'
    BY <1>7, <2>1, Statements DEF GoControllerStart, TypeOK, SignalsCounted, ExitsWhenAsked
  <2> QED  BY <2>2, <2>3, <2>4, <2>5
<1>8. CASE GoPodInformer
  <2>1. exit = "alive" /\ pc = 8
    BY <1>0, <1>8, Statements DEF GoPodInformer, Statement
  <2>2. TypeOK'
    BY <1>8, <2>1 DEF GoPodInformer, TypeOK, Informers
  <2>3. SignalsCounted'
    BY <1>8, <2>1 DEF GoPodInformer, TypeOK, SignalsCounted
  <2>4. LaunchedSynced'
    BY <1>8, <2>1 DEF GoPodInformer, TypeOK, LaunchedSynced
  <2>5. ExitsWhenAsked'
    BY <1>8, <2>1, Statements DEF GoPodInformer, TypeOK, SignalsCounted, ExitsWhenAsked
  <2> QED  BY <2>2, <2>3, <2>4, <2>5
<1>9. CASE WaitForPods
  <2>1. exit = "alive" /\ pc = 9
    BY <1>0, <1>9, Statements DEF WaitForPods, Statement
  <2>2. UNCHANGED <<apiServer, sent, buffered, caught, handler, launched, requested, running,
                    synced, starter, worker>>
    BY <1>9 DEF WaitForPods
  <2>3. CASE pc' = pc + 1 /\ exit' = "alive" /\ "pods" \in synced
    <3>1. TypeOK'
      BY <2>1, <2>2, <2>3 DEF TypeOK
    <3>2. SignalsCounted'
      BY <2>1, <2>2, <2>3 DEF TypeOK, SignalsCounted
    <3>3. LaunchedSynced'
      BY <2>1, <2>2, <2>3 DEF TypeOK, LaunchedSynced
    <3>4. ExitsWhenAsked'
      BY <2>1, <2>2, <2>3, Statements DEF TypeOK, SignalsCounted, ExitsWhenAsked
    <3> QED  BY <3>1, <3>2, <3>3, <3>4
  <2>4. CASE pc' = pc /\ exit' = "code 0" /\ handler = "second"
    <3>1. TypeOK'
      BY <2>1, <2>2, <2>4 DEF TypeOK
    <3>2. SignalsCounted'
      BY <2>1, <2>2, <2>4 DEF TypeOK, SignalsCounted
    <3>3. LaunchedSynced'
      BY <2>1, <2>2, <2>4 DEF TypeOK, LaunchedSynced
    <3>4. ExitsWhenAsked'
      BY <2>1, <2>2, <2>4, Counts, Statements DEF ExitsWhenAsked
    <3> QED  BY <3>1, <3>2, <3>3, <3>4
  <2> QED  BY <1>9, <2>1, <2>3, <2>4 DEF WaitForPods
<1>10. CASE GoRegisterWorker
  <2>1. exit = "alive" /\ pc = 10
    BY <1>0, <1>10, Statements DEF GoRegisterWorker, Statement
  <2>2. TypeOK'
    BY <1>10, <2>1, WorkerKinds, RegisterWorker DEF GoRegisterWorker, TypeOK
  <2>3. SignalsCounted'
    BY <1>10, <2>1 DEF GoRegisterWorker, TypeOK, SignalsCounted
  <2>4. LaunchedSynced'
    BY <1>10, <2>1, WorkerKinds, RegisterWorker DEF GoRegisterWorker, TypeOK, LaunchedSynced
  <2>5. ExitsWhenAsked'
    BY <1>10, <2>1, Statements DEF GoRegisterWorker, TypeOK, SignalsCounted, ExitsWhenAsked
  <2> QED  BY <2>2, <2>3, <2>4, <2>5
<1>11. CASE Stop
  <2>1. exit = "alive" /\ pc = 11
    BY <1>0, <1>11, Statements DEF Stop, Statement
  <2>2. TypeOK'
    BY <1>11, <2>1 DEF Stop, TypeOK
  <2>3. SignalsCounted'
    BY <1>11, <2>1 DEF Stop, TypeOK, SignalsCounted
  <2>4. LaunchedSynced'
    BY <1>11, <2>1 DEF Stop, TypeOK, LaunchedSynced
  <2>5. ExitsWhenAsked'
    <3>1. caught' > 0 /\ exit' = "code 0"
      BY <1>11, Counts DEF Stop
    <3> QED  BY <3>1 DEF ExitsWhenAsked
  <2> QED  BY <2>2, <2>3, <2>4, <2>5
<1> QED
  BY <1>1, <1>2, <1>3, <1>4, <1>5, <1>6, <1>7, <1>8, <1>9, <1>10, <1>11 DEF Main

LEMMA SignalsKeep ==
  ASSUME IInv, SendSignal \/ HandleSignals
  PROVE  IInv'
<1> USE ProcessAssumption DEF IInv, TypeOK, SignalsCounted, LaunchedSynced, ExitsWhenAsked, informers, stopped
<1>1. CASE SendSignal
  <2>1. CASE After("SetupSignalHandler") /\ buffered < 2
    BY <1>1, <2>1, AfterSetup, ProcessAssumption DEF SendSignal
  <2>2. CASE ~ (After("SetupSignalHandler") /\ buffered < 2)
    BY <1>1, <2>2, ProcessAssumption DEF SendSignal
  <2> QED  BY <2>1, <2>2
<1>2. CASE ReceiveFirst
  <2>1. TypeOK'
    BY <1>2 DEF ReceiveFirst
  <2>2. SignalsCounted'
    BY <1>2 DEF ReceiveFirst
  <2>3. LaunchedSynced'
    BY <1>2 DEF ReceiveFirst
  <2>4. ExitsWhenAsked'
    BY <1>2 DEF ReceiveFirst
  <2> QED  BY <2>1, <2>2, <2>3, <2>4
<1>3. CASE ReceiveSecond
  <2>1. TypeOK'
    BY <1>3 DEF ReceiveSecond, signals
  <2>2. SignalsCounted'
    BY <1>3 DEF ReceiveSecond, signals
  <2>3. LaunchedSynced'
    BY <1>3 DEF ReceiveSecond, signals
  <2>4. ExitsWhenAsked'
    <3>1. caught' > 1 /\ exit' = "code 1"
      BY <1>3, Counts DEF ReceiveSecond, signals
    <3> QED  BY <3>1
  <2> QED  BY <2>1, <2>2, <2>3, <2>4
<1> QED  BY <1>1, <1>2, <1>3 DEF HandleSignals

LEMMA OthersKeep ==
  ASSUME IInv,
         \/ \E f \in {"kube", "crd"} : FactoryStart(f)
         \/ \E i \in Informers : ListAndWatch(i)
         \/ Controller
         \/ \E w \in Workers : RunWorker(w) \/ Work(w)
  PROVE  IInv'
<1> USE ProcessAssumption DEF IInv, TypeOK, SignalsCounted, LaunchedSynced, ExitsWhenAsked, signals, informers, stopped
<1>1. ASSUME NEW f \in {"kube", "crd"}, FactoryStart(f)
      PROVE  IInv'
  <2>1. TypeOK'
    BY <1>1 DEF FactoryStart
  <2>2. SignalsCounted'
    BY <1>1 DEF FactoryStart
  <2>3. LaunchedSynced'
    BY <1>1 DEF FactoryStart
  <2>4. ExitsWhenAsked'
    BY <1>1 DEF FactoryStart
  <2> QED  BY <2>1, <2>2, <2>3, <2>4
<1>2. ASSUME NEW i \in Informers, ListAndWatch(i)
      PROVE  IInv'
  <2>1. TypeOK'
    BY <1>2 DEF ListAndWatch
  <2>2. SignalsCounted'
    BY <1>2 DEF ListAndWatch
  <2>3. LaunchedSynced'
    BY <1>2 DEF ListAndWatch
  <2>4. ExitsWhenAsked'
    BY <1>2 DEF ListAndWatch
  <2> QED  BY <2>1, <2>2, <2>3, <2>4
<1>3. CASE Start
  <2>1. TypeOK'
    BY <1>3, WorkerKinds DEF Start
  <2>2. SignalsCounted'
    BY <1>3, WorkerKinds DEF Start
  <2>3. LaunchedSynced'
    BY <1>3, WorkerKinds DEF Start
  <2>4. ExitsWhenAsked'
    BY <1>3, WorkerKinds DEF Start
  <2> QED  BY <2>1, <2>2, <2>3, <2>4
<1>4. CASE Return
  <2>1. TypeOK'
    BY <1>4 DEF Return
  <2>2. SignalsCounted'
    BY <1>4 DEF Return
  <2>3. LaunchedSynced'
    BY <1>4 DEF Return
  <2>4. ExitsWhenAsked'
    BY <1>4 DEF Return
  <2> QED  BY <2>1, <2>2, <2>3, <2>4
<1>5. ASSUME NEW w \in Workers, RunWorker(w) \/ Work(w)
      PROVE  IInv'
  <2>1. TypeOK'
    BY <1>5 DEF RunWorker, Work, GetItem, DoneItem, Quit
  <2>2. SignalsCounted'
    BY <1>5 DEF RunWorker, Work, GetItem, DoneItem, Quit
  <2>3. LaunchedSynced'
    <3>1. /\ UNCHANGED <<pc, synced, starter>>
          /\ \A v \in Workers : worker'[v] # "none" => worker[v] # "none"
      BY <1>5 DEF RunWorker, Work, GetItem, DoneItem, Quit
    <3> QED BY <3>1
  <2>4. ExitsWhenAsked'
    BY <1>5 DEF RunWorker, Work, GetItem, DoneItem, Quit
  <2> QED  BY <2>1, <2>2, <2>3, <2>4
<1> HIDE DEF IInv
<1> QED  BY <1>1, <1>2, <1>3, <1>4, <1>5 DEF Controller

\* Every state satisfies the inductive invariant.
THEOREM Inductive ==
  Spec => []IInv
<1>1. IInv /\ [Next]_vars => IInv'
  <2> SUFFICES ASSUME IInv, [Next]_vars
               PROVE  IInv'
    OBVIOUS
  <2>1. CASE UNCHANGED vars
    <3>1. TypeOK'
      BY <2>1 DEF vars, IInv, TypeOK
    <3>2. SignalsCounted' /\ ExitsWhenAsked'
      BY <2>1 DEF vars, IInv, SignalsCounted, ExitsWhenAsked
    <3>3. LaunchedSynced'
      BY <2>1 DEF vars, IInv, LaunchedSynced
    <3> QED BY <3>1, <3>2, <3>3 DEF IInv
  <2> QED  BY <2>1, MainKeeps, SignalsKeep, OthersKeep DEF Next
<1> QED  BY <1>1, InitHolds, PTL DEF Spec

\* TypeOK holds for any number of workers and signals.
THEOREM TypeCorrect ==
  Spec => []TypeOK
<1>1. IInv => TypeOK
  BY DEF IInv
<1> QED  BY <1>1, Inductive, PTL

\* ExitsWhenAsked: no order of statements, signals and goroutines ends the process
\* unasked.
THEOREM OnlyExitsWhenAsked ==
  Spec => []ExitsWhenAsked
<1>1. IInv => ExitsWhenAsked
  BY DEF IInv
<1> QED  BY <1>1, Inductive, PTL

\* WorkFromSyncedStores: no worker has an item before its stores are filled.
THEOREM WorkersReadSyncedStores ==
  Spec => []WorkFromSyncedStores
<1>1. IInv => WorkFromSyncedStores
  <2> SUFFICES ASSUME IInv, NEW w \in Workers, worker[w] = "busy"
               PROVE  Reads[w[1]] \subseteq synced
    BY DEF WorkFromSyncedStores
  <2>1. CASE w[1] = "register"
    <3>1. "pods" \in synced
      <4>1. pc \in 1..11
        BY Length DEF IInv, TypeOK
      <4>2. pc > 10
        BY <2>1, Zenon DEF IInv, LaunchedSynced
      <4>3. pc > 9
        BY <4>1, <4>2
      <4> QED  BY <4>3 DEF IInv, LaunchedSynced
    <3> QED  BY <2>1, <3>1 DEF Reads
  <2>2. CASE w[1] # "register"
    <3>1. {"deployments", "groups", "operators"} \subseteq synced
      BY <2>2 DEF IInv, LaunchedSynced
    <3>2. w[1] = "group" \/ w[1] = "operator"
      BY <2>2, WorkerKinds
    <3> QED  BY <3>1, <3>2 DEF Reads
  <2> QED  BY <2>1, <2>2
<1> QED  BY <1>1, Inductive, PTL
================================================================================

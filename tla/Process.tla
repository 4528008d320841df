--------------------------------- MODULE Process ---------------------------------
(* The controller process from its first statement to its end: main.go, the      *)
(* signal handler (utils/signals.go), the informer factories and the informers    *)
(* they run, OperatorController.Start and RegisterController.Run, up to the        *)
(* workers whose work GroupSync, OperatorSync and Registration model.              *)
EXTENDS Naturals, Sequences

CONSTANTS
    Threads,    \* workers of each of the two kinds in the operator controller (12)
    MaxSignals  \* bound: SIGINTs and SIGTERMs sent to the process

ASSUME ProcessAssumption == MaxSignals \in Nat

VARIABLES
    pc,         \* main's next statement
    apiServer,  \* does it answer?  Fixed for each behaviour
    sent,       \* signals sent so far
    buffered,   \* signals in the channel c of SetupSignalHandler
    caught,     \* signals that have come to that channel
    handler,    \* the goroutine that receives from c
    launched,   \* factories whose Start is a goroutine not yet run
    requested,  \* informers the factories hold
    running,    \* informers that have been started
    synced,     \* informers whose HasSynced is true
    starter,    \* the goroutine of OperatorController.Start
    worker,     \* what each worker goroutine does
    exit        \* how the process has ended

signals == <<sent, buffered, caught, handler>>
informers == <<launched, requested, running, synced>>
vars == <<pc, apiServer, sent, buffered, caught, handler, launched, requested,
          running, synced, starter, worker, exit>>

--------------------------------------------------------------------------------
\* The informers that each factory holds; that of pods is the register
\* controller's own.
FactoryInformers == [kube |-> {"deployments", "services"}, crd |-> {"groups", "operators"}]
Informers == {"deployments", "services", "groups", "operators", "pods"}

Workers == ({"group", "operator"} \X Threads) \cup {<<"register", 1>>}

\* What a worker of each kind looks up in the informers' stores; a group worker
\* also reads services, and that store it finds as it is.
Reads == [group |-> {"deployments", "groups"}, operator |-> {"groups", "operators"},
          register |-> {"pods"}]

\* Mutant of Program: the factories start before anyone has asked them for an
\* informer.
ProgramEagerFactories ==
    <<"Notify", "SetupSignalHandler", "NewForConfig", "StartKube", "StartCrd",
      "NewController", "StartController", "RunInformer", "WaitForCacheSync",
      "StartWorker", "Stop">>

\* The statements of main that matter to others, those of rc.Run at the end.
Program ==
    <<"Notify", "SetupSignalHandler", "NewForConfig", "NewController",
      "StartKube", "StartCrd", "StartController", "RunInformer",
      "WaitForCacheSync", "StartWorker", "Stop">>

TypeOK ==
    /\ pc \in 1..Len(Program)
    /\ apiServer \in {"up", "down"}
    /\ {sent, caught} \subseteq 0..MaxSignals
    /\ buffered \in 0..2
    /\ handler \in {"none", "first", "second"}
    /\ launched \subseteq {"kube", "crd"}
    /\ requested \subseteq Informers
    /\ running \subseteq Informers
    /\ synced \subseteq running
    /\ starter \in {"none", "waiting", "serving", "returned"}
    /\ worker \in [Workers -> {"none", "launched", "idle", "busy", "returned"}]
    /\ exit \in {"alive", "code 0", "code 1", "killed"}

Init ==
    /\ pc = 1
    /\ apiServer \in {"up", "down"}
    /\ sent = 0 /\ buffered = 0 /\ caught = 0
    /\ handler = "none"
    /\ launched = {} /\ requested = {} /\ running = {} /\ synced = {}
    /\ starter = "none"
    /\ worker = [w \in Workers |-> "none"]
    /\ exit = "alive"

\* stopCh is closed, which is what the handler does before it waits again.
stopped == handler = "second"

Statement(name) == exit = "alive" /\ Program[pc] = name
After(name) == \E i \in 1..(pc - 1) : Program[i] = name

--------------------------------------------------------------------------------
(* Signals.                                                                     *)

\* Before the first signal.Notify a signal kills the process.  From then on it
\* goes to the channels that have been registered: signalCh, which nobody reads,
\* and, once SetupSignalHandler has run, c, unless its two places are taken.
SendSignal ==
    /\ exit = "alive"
    /\ sent < MaxSignals
    /\ sent' = sent + 1
    /\ exit' = IF After("Notify") THEN exit ELSE "killed"
    /\ IF After("SetupSignalHandler") /\ buffered < 2
       THEN buffered' = buffered + 1 /\ caught' = caught + 1
       ELSE UNCHANGED <<buffered, caught>>
    /\ UNCHANGED <<pc, apiServer, handler, informers, starter, worker>>

\* The goroutine of SetupSignalHandler: the first signal closes stopCh.
ReceiveFirst ==
    /\ exit = "alive"
    /\ handler = "first"
    /\ buffered > 0
    /\ buffered' = buffered - 1
    /\ handler' = "second"
    /\ UNCHANGED <<pc, apiServer, sent, caught, informers, starter, worker, exit>>

\* The second one ends the process, wherever its goroutines are.
ReceiveSecond ==
    /\ exit = "alive"
    /\ handler = "second"
    /\ buffered > 0
    /\ exit' = "code 1"
    /\ UNCHANGED <<pc, apiServer, signals, informers, starter, worker>>

--------------------------------------------------------------------------------
(* main, one action per kind of statement.                                      *)

Advance == pc' = pc + 1

Notify ==
    /\ Statement("Notify")
    /\ Advance
    /\ UNCHANGED <<apiServer, signals, informers, starter, worker, exit>>

SetupSignalHandler ==
    /\ Statement("SetupSignalHandler")
    /\ Advance
    /\ handler' = "first"
    /\ UNCHANGED <<apiServer, sent, buffered, caught, informers, starter, worker, exit>>

\* buildConfig and the two clients: log.Fatal if there is no valid configuration.
NewForConfig ==
    /\ Statement("NewForConfig")
    /\ \/ Advance /\ UNCHANGED exit
       \/ exit' = "code 1" /\ UNCHANGED pc
    /\ UNCHANGED <<apiServer, signals, informers, starter, worker>>

\* NewController asks for listers, informers and their HasSynced, which makes
\* the factories hold the informers (InformerFor).  The register controller
\* builds its informer itself.
NewController ==
    /\ Statement("NewController")
    /\ Advance
    /\ requested' = Informers
    /\ UNCHANGED <<apiServer, signals, launched, running, synced, starter, worker, exit>>

GoFactoryStart(f) ==
    /\ Statement(IF f = "kube" THEN "StartKube" ELSE "StartCrd")
    /\ Advance
    /\ launched' = launched \cup {f}
    /\ UNCHANGED <<apiServer, signals, requested, running, synced, starter, worker, exit>>

GoControllerStart ==
    /\ Statement("StartController")
    /\ Advance
    /\ starter' = "waiting"
    /\ UNCHANGED <<apiServer, signals, informers, worker, exit>>

GoPodInformer ==
    /\ Statement("RunInformer")
    /\ Advance
    /\ running' = running \cup {"pods"}
    /\ UNCHANGED <<apiServer, signals, launched, requested, synced, starter, worker, exit>>

\* Mutants of WaitForPods: the wait ignores stopCh; it does not wait.
WaitForPodsOnly ==
    /\ Statement("WaitForCacheSync")
    /\ "pods" \in synced /\ Advance /\ UNCHANGED exit
    /\ UNCHANGED <<apiServer, signals, informers, starter, worker>>
WaitForNoPods ==
    /\ Statement("WaitForCacheSync")
    /\ Advance
    /\ UNCHANGED <<apiServer, signals, informers, starter, worker, exit>>

\* cache.WaitForCacheSync polls until the informer has synced or stopCh is
\* closed; then Run returns, and main with it.
WaitForPods ==
    /\ Statement("WaitForCacheSync")
    /\ \/ "pods" \in synced /\ Advance /\ UNCHANGED exit
       \/ stopped /\ exit' = "code 0" /\ UNCHANGED pc
    /\ UNCHANGED <<apiServer, signals, informers, starter, worker>>

GoRegisterWorker ==
    /\ Statement("StartWorker")
    /\ Advance
    /\ worker' = [worker EXCEPT ![<<"register", 1>>] = "launched"]
    /\ UNCHANGED <<apiServer, signals, informers, starter, exit>>

\* Mutants of Stop: main goes on after Run; nothing holds it in Run.
StopGoesOn ==
    /\ Statement("Stop")
    /\ stopped
    /\ Advance
    /\ UNCHANGED <<apiServer, signals, informers, starter, worker, exit>>
StopAtOnce ==
    /\ Statement("Stop")
    /\ exit' = "code 0"
    /\ UNCHANGED <<pc, apiServer, signals, informers, starter, worker>>

\* <-stopCh, and main returns: it waits for no worker, busy or not.
Stop ==
    /\ Statement("Stop")
    /\ stopped
    /\ exit' = "code 0"
    /\ UNCHANGED <<pc, apiServer, signals, informers, starter, worker>>

--------------------------------------------------------------------------------
(* The other goroutines.                                                        *)

\* sharedInformerFactory.Start, under its lock.
FactoryStart(f) ==
    /\ exit = "alive"
    /\ f \in launched
    /\ launched' = launched \ {f}
    /\ running' = running \cup (requested \cap FactoryInformers[f])
    /\ UNCHANGED <<pc, apiServer, signals, requested, synced, starter, worker, exit>>

\* An informer's initial list is in its store.
ListAndWatch(i) ==
    /\ exit = "alive"
    /\ apiServer = "up"
    /\ i \in running \ synced
    /\ synced' = synced \cup {i}
    /\ UNCHANGED <<pc, apiServer, signals, launched, requested, running, starter, worker, exit>>

\* OperatorController.Start waits for three of the four stores it reads.
Start ==
    /\ exit = "alive"
    /\ starter = "waiting"
    /\ \/ /\ {"deployments", "groups", "operators"} \subseteq synced
          /\ starter' = "serving"
          /\ worker' = [w \in Workers |->
                IF w[1] \in {"group", "operator"} THEN "launched" ELSE worker[w]]
       \/ stopped /\ starter' = "returned" /\ UNCHANGED worker
    /\ UNCHANGED <<pc, apiServer, signals, informers, exit>>

\* Its deferred calls shut both queues down.
Return ==
    /\ exit = "alive"
    /\ starter = "serving"
    /\ stopped
    /\ starter' = "returned"
    /\ UNCHANGED <<pc, apiServer, signals, informers, worker, exit>>

\* wait.Until looks at stopCh before it runs the loop for the first time.
RunWorker(w) ==
    /\ exit = "alive"
    /\ worker[w] = "launched"
    /\ worker' = [worker EXCEPT ![w] = IF stopped THEN "returned" ELSE "idle"]
    /\ UNCHANGED <<pc, apiServer, signals, informers, starter, exit>>

\* queue.Get hands out an item; what there is to do is in the other modules.
GetItem(w) ==
    /\ exit = "alive"
    /\ worker[w] = "idle"
    /\ worker' = [worker EXCEPT ![w] = "busy"]
    /\ UNCHANGED <<pc, apiServer, signals, informers, starter, exit>>

DoneItem(w) ==
    /\ exit = "alive"
    /\ worker[w] = "busy"
    /\ worker' = [worker EXCEPT ![w] = "idle"]
    /\ UNCHANGED <<pc, apiServer, signals, informers, starter, exit>>

\* queue.Get returns quit from a queue that is shut down; that of the register
\* controller never is.
Quit(w) ==
    /\ exit = "alive"
    /\ worker[w] = "idle"
    /\ w[1] # "register" /\ starter = "returned"
    /\ worker' = [worker EXCEPT ![w] = "returned"]
    /\ UNCHANGED <<pc, apiServer, signals, informers, starter, exit>>

Main ==
    \/ Notify \/ SetupSignalHandler \/ NewForConfig \/ NewController
    \/ GoFactoryStart("kube") \/ GoFactoryStart("crd") \/ GoControllerStart
    \/ GoPodInformer \/ WaitForPods \/ GoRegisterWorker \/ Stop

HandleSignals == ReceiveFirst \/ ReceiveSecond
Controller == Start \/ Return
Work(w) == GetItem(w) \/ DoneItem(w) \/ Quit(w)

Next ==
    \/ SendSignal
    \/ Main
    \/ HandleSignals
    \/ \E f \in {"kube", "crd"} : FactoryStart(f)
    \/ \E i \in Informers : ListAndWatch(i)
    \/ Controller
    \/ \E w \in Workers : RunWorker(w) \/ Work(w)

Spec == Init /\ [][Next]_vars

\* The Go scheduler runs every goroutine; an API server that answers, answers
\* every list.
FairSpec ==
    /\ Spec
    /\ WF_vars(Main) /\ WF_vars(HandleSignals) /\ WF_vars(Controller)
    /\ \A f \in {"kube", "crd"} : WF_vars(FactoryStart(f))
    /\ \A i \in Informers : WF_vars(ListAndWatch(i))
    /\ \A w \in Workers : WF_vars(RunWorker(w))

--------------------------------------------------------------------------------
\* A worker has an item only when the stores it looks objects up in hold the whole
\* initial list: otherwise every deployment and group of before the restart would
\* be taken to be missing (WaitForCacheSync in Start and Run).
WorkFromSyncedStores ==
    \A w \in Workers : worker[w] = "busy" => Reads[w[1]] \subseteq synced

\* The process ends with code 0 only after a signal, and the second signal, or a
\* bad configuration, is all that ends it with code 1 (SetupSignalHandler's doc).
ExitsWhenAsked ==
    /\ exit = "code 0" => caught > 0
    /\ exit = "code 1" => caught > 1 \/ Program[pc] = "NewForConfig"

\* Against an API server that answers, every worker comes to run, in whatever
\* order the goroutines of main are scheduled: the factories start the informers
\* after NewController has asked for them.
WorkersComeToRun ==
    apiServer = "up" ~> \/ \A w \in Workers : worker[w] \notin {"none", "launched"}
                 \/ stopped
                 \/ exit # "alive"

\* A signal that has come to the handler ends the process, though main may be
\* waiting for a store that an unreachable API server never fills.
SignalsEndTheProcess == caught > 0 ~> exit # "alive"
=================================================================================

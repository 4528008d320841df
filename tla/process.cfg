SPECIFICATION FairSpec
CONSTANTS
    t1 = t1
    t2 = t2
    Threads = {t1,t2}
    MaxSignals = 3
CHECK_DEADLOCK FALSE
INVARIANTS
    TypeOK
    
    ExitsWhenAsked
PROPERTIES
    WorkersComeToRun
    SignalsEndTheProcess

\* Four tasks, two workers, panics of any thread.
CONSTANTS
    NumLayers = 3
    QueueLimit = 2
    Workers = {w1, w2}
    MainMayPanic = TRUE
    WorkerMayPanic = TRUE
SPECIFICATION FairSpec
INVARIANTS
    TypeOK
    TaskInOnePlace
    WaitedTaskIsComing
    InterruptedStaysInside
    SuccessMeansEverything
PROPERTIES
    PanicIsFinal
    ImplementsPromise
    CancelTerminates
    TerminatesUnlessWorkerPanics

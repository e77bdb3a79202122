SPECIFICATION FairSpec
CONSTANTS
    Workers = {w1, w2}
    Callers = {c1}
    Tasks = {k1, k2, k3}
    NULL = NULL
INVARIANTS
    ReapedThreadsNeedNoLock
    WorkersInUseAreAlive
PROPERTIES
    AcceptedTasksRun
    ShutdownTerminates
    ImplementsTaskPool

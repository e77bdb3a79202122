\* Two completers, asynchronous (1) and synchronous (2), two listeners (3, 4)
\* and two events; five callback entries are never all in use.
SPECIFICATION FairSpec
CONSTANTS
    Null = Null
    Entries = {1, 2, 3, 4, 5}
    AsyncCompleters = {1}
    SyncCompleters = {2}
    Results = {3, 4}
    Kinds = {"then", "catchError", "whenComplete"}
    MaxEvents = 2
INVARIANTS
    LoopIsScheduled
    NoListenerLost
    ListenersInOrder
PROPERTIES
    ImplementsMicrotaskQueue
    ListenersAreCalled
\* The last event may be the last.
CHECK_DEADLOCK FALSE

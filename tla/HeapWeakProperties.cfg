SPECIFICATION HeapSpec
CONSTANTS
    Threads = {m, t}
    Owner = m
    Marker = t
    Rounds = 2
    NULL = NULL
    k = k
    v = v
    x = x
    w = w
    Obj <- MCObj
    WeakProperty <- MCWeakProperty
    InitialHeaps <- MCInitialHeaps
    WeakSets <- MCWeakSets
    BlockSize = 2
    kMaxNonEmpty = 0
    MaxOps = 1
    MaxGCs = 2
INVARIANT OldToNewIsRemembered

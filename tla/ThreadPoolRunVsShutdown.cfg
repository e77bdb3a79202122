SPECIFICATION Spec
CONSTANTS
    Workers = {w1, w2}
    Callers = {c1}
    Tasks = {k1, k2}
    NULL = NULL
INVARIANT
    HandoverWorkerIsAlive

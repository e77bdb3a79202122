SPECIFICATION FairSpec
CONSTANTS
    i1 = i1
    i2 = i2
    t1 = t1
    t2 = t2
    t3 = t3
    Null = Null
    Isolates = {i1, i2}
    TimersOf <- MCTimersOf
    Mortal = {i2}
    Delays = {0, 1}
    MaxTime = 3
INVARIANTS TimersInPlace WakeupIsScheduled HeapKeepsOrderOfSix
PROPERTIES BatchesInOrder TimersFireIfAllLive
CHECK_DEADLOCK FALSE

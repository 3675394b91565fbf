SPECIFICATION Spec
CONSTANTS
    t1 = t1
    Threads = {t1, t2, t3}
    Mutexes = {m1, m2}
    NoTask = NoTask
    Prio <- SamePrio
    MaxDepth = 2
INVARIANTS TypeOK HoldsLock CountIsNesting
PROPERTY ImplementsRecursiveMutex

SPECIFICATION Spec
CONSTANTS
    t1 = t1
    Threads = {t1, t2}
    Mutexes = {m1}
    NoTask = NoTask
    Prio <- MixedPrio
    MaxDepth = 2
INVARIANT HoldsLock

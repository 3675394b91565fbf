--------------------------- MODULE RecursiveMutex ---------------------------
(***************************************************************************)
(* What a CMSIS-RTOS2 mutex created with osMutexRecursive promises: a      *)
(* thread may acquire a mutex it already holds, and the mutex is free for  *)
(* another thread only after as many releases as there were acquisitions.  *)
(* The only state is how many acquisitions each thread has not undone yet. *)
(***************************************************************************)
EXTENDS Naturals

CONSTANTS Threads, Mutexes

VARIABLE depth      \* depth[t][m]: acquisitions of m that t has not released

Free(t, m) == \A u \in Threads \ {t} : depth[u][m] = 0

Init == depth = [t \in Threads |-> [m \in Mutexes |-> 0]]

Acquire(t, m) ==
    /\ Free(t, m)
    /\ depth' = [depth EXCEPT ![t][m] = @ + 1]

Release(t, m) ==
    /\ depth[t][m] > 0
    /\ depth' = [depth EXCEPT ![t][m] = @ - 1]

Next == \E t \in Threads, m \in Mutexes : Acquire(t, m) \/ Release(t, m)

Spec == Init /\ [][Next]_depth

=============================================================================

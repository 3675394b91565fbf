------------------------------ MODULE RtosMutex ------------------------------
(***************************************************************************)
(* osMutexAcquire and osMutexRelease of mbed-os/src/RTOS.cpp, which build  *)
(* the recursive mutex of CMSIS-RTOS2 out of the non-recursive mutex of    *)
(* the ASP3 kernel: the kernel keeps the owner and the FIFO of waiters,    *)
(* the wrapper keeps its own tskid and count and updates them outside the  *)
(* kernel call.                                                            *)
(*                                                                         *)
(* The machine has one processor.  rdq is the kernel's ready queue in      *)
(* order of precedence (priority, then FIFO); its head is the task that    *)
(* runs, and every step of a thread is a step of the head of rdq.  A task  *)
(* can be preempted between any two steps by a more urgent task that an    *)
(* interrupt or a release makes ready.  As in ASP3 a smaller number is a   *)
(* more urgent priority.                                                   *)
(***************************************************************************)
EXTENDS Naturals, Sequences, SequencesExt

CONSTANTS
    Threads,        \* the tasks that use the mutexes
    Mutexes,        \* the mutexes
    NoTask,         \* p_loctsk = NULL, and tskid = 0
    Prio,           \* Prio[t]: the base priority of t
    MaxDepth        \* bound: how often a thread nests one mutex

ASSUME PrioAssumption     == Prio \in [Threads -> Nat]
ASSUME NoTaskAssumption   == NoTask \notin Threads
ASSUME MaxDepthAssumption == MaxDepth \in Nat \ {0}

VARIABLES
    rdq,            \* ready queue, the running task first
    loctsk,         \* kernel: p_loctsk of each mutex
    waitq,          \* kernel: wait_queue of each mutex (mtxatr = 0: FIFO)
    lastmtx,        \* kernel: mutexes of each task, p_lastmtx at the end
    tskid, count,   \* wrapper: rtos_mutex_t.tskid and .count
    pc, arg,        \* where each thread is, and in a call for which mutex
    depth           \* acquisitions that returned osOK, less the releases

kernel  == <<rdq, loctsk, waitq, lastmtx>>
wrapper == <<tskid, count>>
vars    == <<kernel, wrapper, pc, arg, depth>>

-----------------------------------------------------------------------------
Running(t) == rdq # <<>> /\ Head(rdq) = t

(* t becomes ready behind every task at least as urgent as itself. *)
MakeReady(q, t) ==
    \E k \in 0 .. Len(q) :
        /\ \A i \in 1 .. k : Prio[q[i]] <= Prio[t]
        /\ \A i \in (k + 1) .. Len(q) : Prio[q[i]] > Prio[t]
        /\ rdq' = SubSeq(q, 1, k) \o <<t>> \o SubSeq(q, k + 1, Len(q))

Goto(t, label) == pc' = [pc EXCEPT ![t] = label]

-----------------------------------------------------------------------------
(* osMutexAcquire: the call of tloc_mtx.  The kernel decides atomically;   *)
(* a call with timeout 0 polls, any other call waits.                      *)
LockFree(t, m) ==
    /\ loctsk[m] = NoTask
    /\ loctsk' = [loctsk EXCEPT ![m] = t]
    /\ lastmtx' = [lastmtx EXCEPT ![t] = Append(@, m)]
    /\ Goto(t, "locked")
    /\ UNCHANGED <<rdq, waitq>>

LockOwn(t, m) ==                    \* E_OBJ
    /\ loctsk[m] = t
    /\ Goto(t, "counting")
    /\ UNCHANGED kernel

LockPoll(t, m) ==                   \* E_TMOUT at once: osErrorTimeout
    /\ loctsk[m] \notin {NoTask, t}
    /\ UNCHANGED <<pc, kernel>>

LockWait(t, m) ==
    /\ loctsk[m] \notin {NoTask, t}
    /\ waitq' = [waitq EXCEPT ![m] = Append(@, t)]
    /\ rdq' = Tail(rdq)
    /\ Goto(t, "waiting")
    /\ UNCHANGED <<loctsk, lastmtx>>

Acquire(t, m) ==
    /\ Running(t) /\ pc[t] = "user" /\ depth[t][m] < MaxDepth
    /\ arg' = [arg EXCEPT ![t] = m]
    /\ LockFree(t, m) \/ LockOwn(t, m) \/ LockPoll(t, m) \/ LockWait(t, m)
    /\ UNCHANGED <<wrapper, depth>>

(* The call comes back with the mutex: result->tskid = tskid. *)
AcquireReturns(t) ==
    /\ Running(t) /\ pc[t] = "locked"
    /\ tskid' = [tskid EXCEPT ![arg[t]] = t]
    /\ depth' = [depth EXCEPT ![t][arg[t]] = @ + 1]
    /\ Goto(t, "user")
    /\ UNCHANGED <<kernel, count, arg>>

(* The call comes back with E_OBJ: result->count++. *)
NestReturns(t) ==
    /\ Running(t) /\ pc[t] = "counting"
    /\ count' = [count EXCEPT ![arg[t]] = @ + 1]
    /\ depth' = [depth EXCEPT ![t][arg[t]] = @ + 1]
    /\ Goto(t, "user")
    /\ UNCHANGED <<kernel, tskid, arg>>

(* The timeout of a waiting task: it leaves the queue with E_TMOUT. *)
Timeout(m, i) ==
    LET t == waitq[m][i] IN
    /\ waitq' = [waitq EXCEPT ![m] = RemoveAt(@, i)]
    /\ MakeReady(rdq, t)
    /\ Goto(t, "user")
    /\ UNCHANGED <<loctsk, lastmtx, wrapper, arg, depth>>

-----------------------------------------------------------------------------
(* osMutexRelease, in the section between loc_cpu and unl_cpu.  Also a     *)
(* thread that does not hold the mutex may call it.                        *)
NestedOnce(t, m) == tskid[m] = t /\ count[m] > 1    \* bug: off by one
NestedAnyone(t, m) == count[m] > 0                  \* bug: not only the owner

Nested(t, m) == tskid[m] = t /\ count[m] > 0

Release(t, m) ==
    /\ Running(t) /\ pc[t] = "user"
    /\ arg' = [arg EXCEPT ![t] = m]
    /\ \/ /\ Nested(t, m)
          /\ count' = [count EXCEPT ![m] = @ - 1]
          /\ depth' = [depth EXCEPT ![t][m] = @ - 1]
          /\ UNCHANGED pc
       \/ /\ ~Nested(t, m)
          /\ Goto(t, "unlock")
          /\ UNCHANGED <<count, depth>>
    /\ UNCHANGED <<kernel, tskid>>

(* unl_mtx: only the mutex locked last can be unlocked (E_OBJ otherwise).  *)
IsLastAlways(t, m) == TRUE          \* bug: does not look who owns it

IsLast(t, m) == lastmtx[t] # <<>> /\ lastmtx[t][Len(lastmtx[t])] = m

UnlockRefused(t) ==                 \* osError, nothing changed
    /\ Running(t) /\ pc[t] = "unlock" /\ ~IsLast(t, arg[t])
    /\ Goto(t, "user")
    /\ UNCHANGED <<kernel, wrapper, arg, depth>>

(* mutex_release: the first waiter owns the mutex before it runs again. *)
HandOver(m, popped) ==
    LET w == Head(waitq[m]) IN
    /\ loctsk' = [loctsk EXCEPT ![m] = w]
    /\ lastmtx' = [popped EXCEPT ![w] = Append(@, m)]
    /\ waitq' = [waitq EXCEPT ![m] = Tail(@)]
    /\ MakeReady(rdq, w)

Unlock(t) ==
    LET m == arg[t]
        popped == [lastmtx EXCEPT ![t] = SubSeq(@, 1, Len(@) - 1)] IN
    /\ Running(t) /\ pc[t] = "unlock" /\ IsLast(t, m)
    /\ \/ /\ waitq[m] = <<>>
          /\ loctsk' = [loctsk EXCEPT ![m] = NoTask]
          /\ lastmtx' = popped
          /\ Goto(t, "unlocked")
          /\ UNCHANGED <<rdq, waitq>>
       \/ /\ waitq[m] # <<>>
          /\ HandOver(m, popped)
          /\ pc' = [pc EXCEPT ![t] = "unlocked", ![Head(waitq[m])] = "locked"]
    /\ depth' = [depth EXCEPT ![t][m] = @ - 1]
    /\ UNCHANGED <<wrapper, arg>>

(* Back from unl_mtx: result->tskid = 0, outside any lock. *)
ReleaseReturns(t) ==
    /\ Running(t) /\ pc[t] = "unlocked"
    /\ tskid' = [tskid EXCEPT ![arg[t]] = NoTask]
    /\ Goto(t, "user")
    /\ UNCHANGED <<kernel, count, arg, depth>>

-----------------------------------------------------------------------------
(* The rest of the program: a running thread sleeps on something else, an  *)
(* interrupt wakes it, and rot_rdq (osThreadYield) gives way to the next   *)
(* task of the same priority.                                              *)
Sleep(t) ==
    /\ Running(t) /\ pc[t] = "user"
    /\ rdq' = Tail(rdq)
    /\ Goto(t, "asleep")
    /\ UNCHANGED <<loctsk, waitq, lastmtx, wrapper, arg, depth>>

Wake(t) ==
    /\ pc[t] = "asleep"
    /\ MakeReady(rdq, t)
    /\ Goto(t, "user")
    /\ UNCHANGED <<loctsk, waitq, lastmtx, wrapper, arg, depth>>

Yield(t) ==
    /\ Running(t) /\ pc[t] = "user"
    /\ MakeReady(Tail(rdq), t)
    /\ UNCHANGED <<loctsk, waitq, lastmtx, wrapper, pc, arg, depth>>

-----------------------------------------------------------------------------
Init ==
    /\ rdq = <<>>
    /\ loctsk = [m \in Mutexes |-> NoTask]
    /\ waitq = [m \in Mutexes |-> <<>>]
    /\ lastmtx = [t \in Threads |-> <<>>]
    /\ tskid = [m \in Mutexes |-> NoTask]
    /\ count = [m \in Mutexes |-> 0]
    /\ pc = [t \in Threads |-> "asleep"]
    /\ arg \in [Threads -> Mutexes]
    /\ depth = [t \in Threads |-> [m \in Mutexes |-> 0]]

Step(t) ==
    \/ \E m \in Mutexes : Acquire(t, m) \/ Release(t, m)
    \/ AcquireReturns(t) \/ NestReturns(t)
    \/ UnlockRefused(t) \/ Unlock(t) \/ ReleaseReturns(t)
    \/ Sleep(t) \/ Wake(t) \/ Yield(t)

Next ==
    \/ \E t \in Threads : Step(t)
    \/ \E m \in Mutexes : \E i \in 1 .. Len(waitq[m]) : Timeout(m, i)

Spec == Init /\ [][Next]_vars

-----------------------------------------------------------------------------
Labels == {"user", "asleep", "locked", "counting", "waiting", "unlock", "unlocked"}

TypeOK ==
    /\ rdq \in Seq(Threads)
    /\ loctsk \in [Mutexes -> Threads \cup {NoTask}]
    /\ waitq \in [Mutexes -> Seq(Threads)]
    /\ lastmtx \in [Threads -> Seq(Mutexes)]
    /\ tskid \in [Mutexes -> Threads \cup {NoTask}]
    /\ count \in [Mutexes -> Nat]
    /\ pc \in [Threads -> Labels]
    /\ arg \in [Threads -> Mutexes]
    /\ depth \in [Threads -> [Mutexes -> Nat]]

(* A thread whose acquisitions returned osOK more often than it released   *)
(* the mutex is the task for which the kernel holds the mutex, so no two   *)
(* threads are inside at once: what osMutexRecursive means.                *)
HoldsLock == \A t \in Threads, m \in Mutexes : depth[t][m] > 0 => loctsk[m] = t

(* The nesting count of the wrapper is the nesting of the thread that owns *)
(* the mutex, so a mutex that changes hands starts with count 0: nothing   *)
(* of the last owner's nesting is left for the next one.                   *)
CountIsNesting ==
    \A m \in Mutexes :
        count[m] > 0 => \E t \in Threads : loctsk[m] = t /\ depth[t][m] = count[m] + 1

Abstract == INSTANCE RecursiveMutex

(* The wrapper implements the recursive mutex. *)
ImplementsRecursiveMutex == Abstract!Spec

=============================================================================

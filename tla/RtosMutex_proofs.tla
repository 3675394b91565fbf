--------------------------- MODULE RtosMutex_proofs ---------------------------
(***************************************************************************)
(* Proofs about RtosMutex for every set of threads and mutexes and every   *)
(* nesting bound, when all the threads that share the mutexes have one     *)
(* priority.                                                               *)
(***************************************************************************)
EXTENDS RtosMutex, SequenceTheorems, TLAPS

(* All users of the mutexes have the same priority. *)
SamePriority == \A t, u \in Threads : Prio[t] = Prio[u]

(* t was given m by the kernel and has not come back from tloc_mtx yet. *)
Acquiring(t, m) == pc[t] = "locked" /\ arg[t] = m

(* A thread inside osMutexRelease, or about to count a nested acquisition, *)
(* is the running one: no task of the same priority runs before it is      *)
(* through, so nobody sees tskid and count half updated.                   *)
MidwayRuns ==
    \A t \in Threads : pc[t] \in {"counting", "unlock", "unlocked"} => Running(t)

(* Whoever waits in a queue is in tloc_mtx for that mutex, once. *)
WaitersWait ==
    \A m \in Mutexes : \A i \in 1 .. Len(waitq[m]) :
        /\ pc[waitq[m][i]] = "waiting"
        /\ arg[waitq[m][i]] = m
        /\ \A j \in 1 .. Len(waitq[m]) : waitq[m][i] = waitq[m][j] => i = j

(* The kernel's list of a task's mutexes names only mutexes it holds. *)
ListedHeld ==
    \A t \in Threads : \A i \in 1 .. Len(lastmtx[t]) :
        /\ loctsk[lastmtx[t][i]] = t
        /\ \A j \in 1 .. Len(lastmtx[t]) : lastmtx[t][i] = lastmtx[t][j] => i = j

(* The kernel holds the mutex for every thread in the middle of acquiring. *)
MidwayHeld ==
    \A t \in Threads :
        /\ pc[t] = "locked" => loctsk[arg[t]] = t
        /\ pc[t] = "counting" => loctsk[arg[t]] = t

(* t has given m back to the kernel and has not cleared tskid yet. *)
Leaving(t, m) == pc[t] = "unlocked" /\ arg[t] = m

(* The wrapper's owner is the kernel's, except while the owner is still    *)
(* returning from tloc_mtx and while the last owner returns from unl_mtx.  *)
OwnerKnown ==
    \A m \in Mutexes :
        /\ \A t \in Threads : loctsk[m] = t /\ ~Acquiring(t, m) => tskid[m] = t
        /\ \A t \in Threads :
               tskid[m] = t => loctsk[m] = t \/ Leaving(t, m)

(* The nesting of a thread is the wrapper's count and the kernel's owner. *)
DepthKnown ==
    \A t \in Threads, m \in Mutexes :
        depth[t][m] = IF loctsk[m] = t /\ ~Acquiring(t, m) THEN count[m] + 1 ELSE 0

CountZero ==
    \A m \in Mutexes :
        count[m] > 0 => \E t \in Threads : loctsk[m] = t /\ ~Acquiring(t, m)

(* In osMutexRelease past the section, the owner has no nesting left. *)
UnlockBottom ==
    \A t \in Threads :
        pc[t] = "unlock" /\ loctsk[arg[t]] = t => count[arg[t]] = 0

(* While the last owner returns from unl_mtx, the mutex is free or its next *)
(* owner has not come back from tloc_mtx: tskid = 0 erases no owner.       *)
LeavingGone ==
    \A t, u \in Threads :
        pc[t] = "unlocked" /\ loctsk[arg[t]] = u => Acquiring(u, arg[t])

IInv ==
    /\ TypeOK /\ MidwayRuns /\ WaitersWait /\ ListedHeld /\ MidwayHeld
    /\ OwnerKnown /\ DepthKnown /\ CountZero /\ UnlockBottom /\ LeavingGone

-----------------------------------------------------------------------------
(* Under one priority a task that becomes ready never overtakes the head:  *)
(* the running task goes on running.                                       *)
LEMMA ReadyBehind ==
    ASSUME SamePriority, NEW q \in Seq(Threads), NEW t \in Threads, MakeReady(q, t)
    PROVE  /\ rdq' \in Seq(Threads)
           /\ q # <<>> => rdq' # <<>> /\ Head(rdq') = Head(q)
<1>1. PICK k \in 0 .. Len(q) :
          /\ \A i \in 1 .. k : Prio[q[i]] <= Prio[t]
          /\ \A i \in (k + 1) .. Len(q) : Prio[q[i]] > Prio[t]
          /\ rdq' = SubSeq(q, 1, k) \o <<t>> \o SubSeq(q, k + 1, Len(q))
    BY DEF MakeReady
<1>2. SubSeq(q, 1, k) \in Seq(Threads) /\ SubSeq(q, k + 1, Len(q)) \in Seq(Threads)
    BY <1>1
<1>3. rdq' \in Seq(Threads)
    BY <1>1, <1>2
<1>4. ASSUME q # <<>> PROVE k # 0
    <2>1. q[1] \in Threads BY <1>4
    <2>2. Prio[q[1]] = Prio[t] /\ Prio[t] \in Nat
        BY <2>1, PrioAssumption DEF SamePriority
    <2>3. QED BY <1>1, <1>4, <2>1, <2>2
<1>5. ASSUME q # <<>> PROVE rdq' # <<>> /\ Head(rdq') = Head(q)
    <2> DEFINE A == SubSeq(q, 1, k)
               B == SubSeq(q, k + 1, Len(q))
               C == A \o <<t>>
    <2>1. k \in 1 .. Len(q) BY <1>1, <1>4, <1>5
    <2>2. A \in Seq(Threads) /\ Len(A) = k /\ A[1] = q[1]
        BY <2>1
    <2>3. C \in Seq(Threads) /\ Len(C) = k + 1 /\ C[1] = A[1]
        BY <2>1, <2>2
    <2>4. B \in Seq(Threads) BY <1>2
    <2>5. (C \o B)[1] = C[1] /\ Len(C \o B) >= 1 /\ C \o B \in Seq(Threads)
        <3> HIDE DEF B, C
        <3>1. QED BY <2>3, <2>4, <2>1
    <2>6. rdq' = C \o B BY <1>1
    <2> HIDE DEF A, B, C
    <2>7. rdq'[1] = q[1] /\ rdq' # <<>>
        BY <2>2, <2>3, <2>5, <2>6
    <2>8. QED BY <1>5, <2>7, <1>3
<1>6. QED BY <1>3, <1>5

LEMMA RemoveWaiter ==
    ASSUME NEW s \in Seq(Threads), NEW i \in 1 .. Len(s)
    PROVE  /\ RemoveAt(s, i) \in Seq(Threads)
           /\ Len(RemoveAt(s, i)) = Len(s) - 1
           /\ \A j \in 1 .. Len(s) - 1 :
                  RemoveAt(s, i)[j] = IF j < i THEN s[j] ELSE s[j + 1]
<1> DEFINE A == SubSeq(s, 1, i - 1)
           B == SubSeq(s, i + 1, Len(s))
<1>1. RemoveAt(s, i) = A \o B
    BY DEF RemoveAt
<1>2. /\ A \in Seq(Threads) /\ Len(A) = i - 1
      /\ \A j \in 1 .. i - 1 : A[j] = s[j]
    <2>1. \A j \in 1 .. i - 1 : s[j] \in Threads OBVIOUS
    <2>2. QED BY <2>1, SubSeqProperties
<1>3. /\ B \in Seq(Threads) /\ Len(B) = Len(s) - i
      /\ \A j \in 1 .. Len(s) - i : B[j] = s[i + j]
    <2>1. \A j \in i + 1 .. Len(s) : s[j] \in Threads OBVIOUS
    <2>2. QED BY <2>1, SubSeqProperties
<1> HIDE DEF A, B
<1>4. /\ A \o B \in Seq(Threads)
      /\ Len(A \o B) = Len(A) + Len(B)
      /\ \A j \in 1 .. Len(A) + Len(B) :
             (A \o B)[j] = IF j <= Len(A) THEN A[j] ELSE B[j - Len(A)]
    BY <1>2, <1>3, ConcatProperties
<1>5. QED BY <1>1, <1>2, <1>3, <1>4

THEOREM InitInv == Init => IInv
<1> SUFFICES ASSUME Init PROVE IInv
    OBVIOUS
<1> USE NoTaskAssumption DEF Init
<1>1. TypeOK BY DEF TypeOK, Labels
<1>2. MidwayRuns /\ WaitersWait /\ ListedHeld /\ MidwayHeld
    BY DEF MidwayRuns, WaitersWait, ListedHeld, MidwayHeld
<1>3. OwnerKnown /\ DepthKnown /\ CountZero /\ UnlockBottom /\ LeavingGone
    BY DEF OwnerKnown, DepthKnown, CountZero, UnlockBottom, LeavingGone, Acquiring, Leaving
<1>4. QED BY <1>1, <1>2, <1>3 DEF IInv

-----------------------------------------------------------------------------
(* Frame lemmas: what a step that leaves the queues alone preserves. *)
LEMMA WaitersFrame ==
    ASSUME TypeOK, WaitersWait, NEW t \in Threads, pc[t] # "waiting", waitq' = waitq,
           \A u \in Threads \ {t} : pc'[u] = pc[u] /\ arg'[u] = arg[u]
    PROVE  WaitersWait'
<1> SUFFICES ASSUME NEW m \in Mutexes, NEW i \in 1 .. Len(waitq[m])
             PROVE  /\ pc'[waitq[m][i]] = "waiting"
                    /\ arg'[waitq[m][i]] = m
                    /\ \A j \in 1 .. Len(waitq[m]) : waitq[m][i] = waitq[m][j] => i = j
    BY DEF WaitersWait
<1>1. waitq[m][i] \in Threads BY DEF TypeOK
<1>2. QED BY <1>1 DEF WaitersWait

LEMMA ListedFrame ==
    ASSUME ListedHeld, UNCHANGED <<loctsk, lastmtx>>
    PROVE  ListedHeld'
BY DEF ListedHeld

LEMMA OwnerFrame ==
    ASSUME OwnerKnown, UNCHANGED <<loctsk, tskid>>,
           \A u \in Threads, n \in Mutexes :
               Acquiring(u, n)' = Acquiring(u, n) /\ (Leaving(u, n) => Leaving(u, n)')
    PROVE  OwnerKnown'
BY DEF OwnerKnown

LEMMA DepthFrame ==
    ASSUME DepthKnown, CountZero, UNCHANGED <<loctsk, count, depth>>,
           \A u \in Threads, n \in Mutexes : Acquiring(u, n)' = Acquiring(u, n)
    PROVE  DepthKnown' /\ CountZero'
BY DEF DepthKnown, CountZero

LEMMA AcquireReturnsInv ==
    ASSUME IInv, NEW t \in Threads, AcquireReturns(t)
    PROVE  IInv'
<1> DEFINE m == arg[t]
<1>1. /\ m \in Mutexes /\ Running(t) /\ pc[t] = "locked" /\ loctsk[m] = t
      /\ pc' = [pc EXCEPT ![t] = "user"]
      /\ tskid' = [tskid EXCEPT ![m] = t]
      /\ UNCHANGED <<rdq, loctsk, waitq, lastmtx, count, arg>>
    BY DEF IInv, TypeOK, MidwayHeld, AcquireReturns, Goto, kernel
<1>2. depth' \in [Threads -> [Mutexes -> Nat]]
    BY <1>1 DEF IInv, TypeOK, AcquireReturns
<1>3. \A u \in Threads, n \in Mutexes :
          depth'[u][n] = IF u = t /\ n = m THEN depth[u][n] + 1 ELSE depth[u][n]
    BY <1>1 DEF IInv, TypeOK, AcquireReturns
<1> HIDE DEF m
<1>4. TypeOK'
    BY <1>1, <1>2 DEF IInv, TypeOK, Labels
<1>5. MidwayRuns'
    BY <1>1 DEF IInv, TypeOK, MidwayRuns, Running
<1>6. WaitersWait'
    BY <1>1, WaitersFrame DEF IInv, TypeOK
<1>7. ListedHeld'
    BY <1>1, ListedFrame DEF IInv
<1>8. MidwayHeld'
    BY <1>1 DEF IInv, TypeOK, MidwayHeld
<1>9. OwnerKnown'
    BY <1>1 DEF IInv, TypeOK, OwnerKnown, Acquiring, Leaving, m
<1>10. DepthKnown'
    BY <1>1, <1>3 DEF IInv, TypeOK, DepthKnown, Acquiring, m, CountZero
<1>11. CountZero'
    BY <1>1 DEF IInv, TypeOK, CountZero, Acquiring
<1>12. UnlockBottom'
    BY <1>1 DEF IInv, TypeOK, UnlockBottom
<1>13. LeavingGone'
    BY <1>1 DEF IInv, TypeOK, LeavingGone, MidwayRuns, Running, Acquiring
<1>14. QED
    BY <1>4, <1>5, <1>6, <1>7, <1>8, <1>9, <1>10, <1>11, <1>12, <1>13 DEF IInv

LEMMA NestReturnsInv ==
    ASSUME IInv, NEW t \in Threads, NestReturns(t)
    PROVE  IInv'
<1> DEFINE m == arg[t]
<1>1. /\ m \in Mutexes /\ Running(t) /\ pc[t] = "counting" /\ loctsk[m] = t
      /\ pc' = [pc EXCEPT ![t] = "user"]
      /\ count' = [count EXCEPT ![m] = @ + 1]
      /\ UNCHANGED <<rdq, loctsk, waitq, lastmtx, tskid, arg>>
    BY DEF IInv, TypeOK, MidwayHeld, NestReturns, Goto, kernel
<1>2. \A u \in Threads, n \in Mutexes :
          Acquiring(u, n)' = Acquiring(u, n) /\ (Leaving(u, n) => Leaving(u, n)')
    BY <1>1 DEF IInv, TypeOK, Acquiring, Leaving
<1>3. \A u \in Threads, n \in Mutexes :
          depth'[u][n] = IF u = t /\ n = m THEN depth[u][n] + 1 ELSE depth[u][n]
    BY <1>1 DEF IInv, TypeOK, NestReturns
<1>4. TypeOK'
    <2>1. depth' \in [Threads -> [Mutexes -> Nat]]
        BY <1>1 DEF IInv, TypeOK, NestReturns
    <2>2. count' \in [Mutexes -> Nat]
        BY <1>1 DEF IInv, TypeOK
    <2>3. QED BY <1>1, <2>1, <2>2 DEF IInv, TypeOK, Labels
<1> HIDE DEF m
<1>5. MidwayRuns'
    BY <1>1 DEF IInv, TypeOK, MidwayRuns, Running
<1>6. WaitersWait'
    BY <1>1, WaitersFrame DEF IInv, TypeOK
<1>7. ListedHeld'
    BY <1>1, ListedFrame DEF IInv
<1>8. MidwayHeld'
    BY <1>1 DEF IInv, TypeOK, MidwayHeld
<1>9. OwnerKnown'
    BY <1>1, <1>2, OwnerFrame DEF IInv
<1>10. DepthKnown'
    <2> SUFFICES ASSUME NEW u \in Threads, NEW n \in Mutexes
                 PROVE  depth'[u][n] = IF loctsk'[n] = u /\ ~Acquiring(u, n)'
                                       THEN count'[n] + 1 ELSE 0
        BY DEF DepthKnown
    <2>1. depth[u][n] = IF loctsk[n] = u /\ ~Acquiring(u, n) THEN count[n] + 1 ELSE 0
        BY DEF IInv, DepthKnown
    <2>2. CASE n = m
        <3>1. ~Acquiring(t, m) BY <1>1 DEF Acquiring
        <3>2. count'[m] = count[m] + 1 BY <1>1 DEF IInv, TypeOK
        <3>3. CASE u = t BY <1>1, <1>2, <1>3, <2>1, <2>2, <3>1, <3>2, <3>3
        <3>4. CASE u # t BY <1>1, <1>2, <1>3, <2>1, <2>2, <3>1, <3>2, <3>4
        <3>5. QED BY <3>3, <3>4
    <2>3. CASE n # m
        <3>1. count'[n] = count[n] BY <1>1, <2>3 DEF IInv, TypeOK
        <3>2. QED BY <1>1, <1>2, <1>3, <2>1, <2>3, <3>1
    <2>4. QED BY <2>2, <2>3
<1>11. CountZero'
    <2>1. ~Acquiring(t, m) BY <1>1 DEF Acquiring
    <2>2. QED BY <1>1, <1>2, <2>1 DEF IInv, TypeOK, CountZero
<1>12. UnlockBottom'
    BY <1>1 DEF IInv, TypeOK, UnlockBottom, MidwayRuns, Running
<1>13. LeavingGone'
    BY <1>1 DEF IInv, TypeOK, LeavingGone, MidwayRuns, Running, Acquiring
<1>14. QED
    BY <1>4, <1>5, <1>6, <1>7, <1>8, <1>9, <1>10, <1>11, <1>12, <1>13 DEF IInv

LEMMA ReleaseNestedInv ==
    ASSUME IInv, NEW t \in Threads, NEW m \in Mutexes, Release(t, m), Nested(t, m)
    PROVE  IInv'
<1>1. /\ Running(t) /\ pc[t] = "user" /\ tskid[m] = t /\ count[m] > 0
      /\ arg' = [arg EXCEPT ![t] = m]
      /\ count' = [count EXCEPT ![m] = @ - 1]
      /\ depth' = [depth EXCEPT ![t][m] = @ - 1]
      /\ UNCHANGED <<rdq, loctsk, waitq, lastmtx, tskid, pc>>
    BY DEF Release, Nested, kernel
<1>2. \A u \in Threads, n \in Mutexes :
          Acquiring(u, n)' = Acquiring(u, n) /\ (Leaving(u, n) => Leaving(u, n)')
    BY <1>1 DEF IInv, TypeOK, Acquiring, Leaving
<1>3. ~Acquiring(t, m) /\ loctsk[m] = t /\ depth[t][m] = count[m] + 1
    <2>1. ~Acquiring(t, m) /\ ~Leaving(t, m) BY <1>1 DEF Acquiring, Leaving
    <2>2. QED BY <1>1, <2>1 DEF IInv, OwnerKnown, DepthKnown
<1>4. TypeOK'
    <2>1. count[m] \in Nat \ {0} /\ depth[t][m] - 1 \in Nat
        BY <1>1, <1>3 DEF IInv, TypeOK
    <2>2. depth' \in [Threads -> [Mutexes -> Nat]]
        BY <1>1, <2>1 DEF IInv, TypeOK
    <2>3. count' \in [Mutexes -> Nat]
        BY <1>1, <2>1 DEF IInv, TypeOK
    <2>4. QED BY <1>1, <2>2, <2>3 DEF IInv, TypeOK
<1>5. MidwayRuns'
    BY <1>1 DEF IInv, TypeOK, MidwayRuns, Running
<1>6. WaitersWait'
    BY <1>1, WaitersFrame DEF IInv, TypeOK
<1>7. ListedHeld'
    BY <1>1, ListedFrame DEF IInv
<1>8. MidwayHeld'
    BY <1>1 DEF IInv, TypeOK, MidwayHeld
<1>9. OwnerKnown'
    BY <1>1, <1>2, OwnerFrame DEF IInv
<1>10. DepthKnown'
    <2>1. \A u \in Threads, n \in Mutexes :
             depth'[u][n] = IF u = t /\ n = m THEN depth[u][n] - 1 ELSE depth[u][n]
        BY <1>1 DEF IInv, TypeOK
    <2> SUFFICES ASSUME NEW u \in Threads, NEW n \in Mutexes
                 PROVE  depth'[u][n] = IF loctsk'[n] = u /\ ~Acquiring(u, n)'
                                       THEN count'[n] + 1 ELSE 0
        BY DEF DepthKnown
    <2>2. depth[u][n] = IF loctsk[n] = u /\ ~Acquiring(u, n) THEN count[n] + 1 ELSE 0
        BY DEF IInv, DepthKnown
    <2>3. count'[n] = IF n = m THEN count[n] - 1 ELSE count[n]
        BY <1>1 DEF IInv, TypeOK
    <2>4. count[n] \in Nat BY DEF IInv, TypeOK
    <2>5. CASE n = m
        BY <1>1, <1>2, <1>3, <2>1, <2>2, <2>3, <2>4, <2>5
    <2>6. CASE n # m
        BY <1>1, <1>2, <1>3, <2>1, <2>2, <2>3, <2>4, <2>6
    <2>7. QED BY <2>5, <2>6
<1>11. CountZero'
    BY <1>1, <1>2, <1>3 DEF IInv, TypeOK, CountZero
<1>12. UnlockBottom'
    BY <1>1 DEF IInv, TypeOK, UnlockBottom, MidwayRuns, Running
<1>13. LeavingGone'
    BY <1>1 DEF IInv, TypeOK, LeavingGone, MidwayRuns, Running, Acquiring
<1>14. QED
    BY <1>4, <1>5, <1>6, <1>7, <1>8, <1>9, <1>10, <1>11, <1>12, <1>13 DEF IInv

LEMMA ReleaseLastInv ==
    ASSUME IInv, NEW t \in Threads, NEW m \in Mutexes, Release(t, m), ~Nested(t, m)
    PROVE  IInv'
<1>1. /\ Running(t) /\ pc[t] = "user" /\ ~(tskid[m] = t /\ count[m] > 0)
      /\ arg' = [arg EXCEPT ![t] = m]
      /\ pc' = [pc EXCEPT ![t] = "unlock"]
      /\ UNCHANGED <<rdq, loctsk, waitq, lastmtx, tskid, count, depth>>
    BY DEF Release, Nested, kernel, Goto
<1>2. \A u \in Threads, n \in Mutexes :
          Acquiring(u, n)' = Acquiring(u, n) /\ (Leaving(u, n) => Leaving(u, n)')
    BY <1>1 DEF IInv, TypeOK, Acquiring, Leaving
<1>3. loctsk[m] = t => count[m] = 0
    <2>1. ~Acquiring(t, m) BY <1>1 DEF Acquiring
    <2>2. QED BY <1>1, <2>1 DEF IInv, TypeOK, OwnerKnown
<1>4. TypeOK'
    BY <1>1 DEF IInv, TypeOK, Labels
<1>5. MidwayRuns'
    BY <1>1 DEF IInv, TypeOK, MidwayRuns, Running
<1>6. WaitersWait'
    BY <1>1, WaitersFrame DEF IInv, TypeOK
<1>7. ListedHeld'
    BY <1>1, ListedFrame DEF IInv
<1>8. MidwayHeld'
    BY <1>1 DEF IInv, TypeOK, MidwayHeld
<1>9. OwnerKnown'
    BY <1>1, <1>2, OwnerFrame DEF IInv
<1>10. DepthKnown' /\ CountZero'
    BY <1>1, <1>2, DepthFrame DEF IInv
<1>12. UnlockBottom'
    BY <1>1, <1>3 DEF IInv, TypeOK, UnlockBottom, MidwayRuns, Running
<1>13. LeavingGone'
    BY <1>1 DEF IInv, TypeOK, LeavingGone, MidwayRuns, Running, Acquiring
<1>14. QED
    BY <1>4, <1>5, <1>6, <1>7, <1>8, <1>9, <1>10, <1>12, <1>13 DEF IInv

LEMMA UnlockRefusedInv ==
    ASSUME IInv, NEW t \in Threads, UnlockRefused(t)
    PROVE  IInv'
<1>1. /\ Running(t) /\ pc[t] = "unlock"
      /\ pc' = [pc EXCEPT ![t] = "user"]
      /\ UNCHANGED <<rdq, loctsk, waitq, lastmtx, tskid, count, arg, depth>>
    BY DEF UnlockRefused, kernel, wrapper, Goto
<1>2. \A u \in Threads, n \in Mutexes :
          Acquiring(u, n)' = Acquiring(u, n) /\ (Leaving(u, n) => Leaving(u, n)')
    BY <1>1 DEF IInv, TypeOK, Acquiring, Leaving
<1>4. TypeOK'
    BY <1>1 DEF IInv, TypeOK, Labels
<1>5. MidwayRuns'
    BY <1>1 DEF IInv, TypeOK, MidwayRuns, Running
<1>6. WaitersWait'
    BY <1>1, WaitersFrame DEF IInv, TypeOK
<1>7. ListedHeld'
    BY <1>1, ListedFrame DEF IInv
<1>8. MidwayHeld'
    BY <1>1 DEF IInv, TypeOK, MidwayHeld
<1>9. OwnerKnown'
    BY <1>1, <1>2, OwnerFrame DEF IInv
<1>10. DepthKnown' /\ CountZero'
    BY <1>1, <1>2, DepthFrame DEF IInv
<1>12. UnlockBottom'
    BY <1>1 DEF IInv, TypeOK, UnlockBottom
<1>13. LeavingGone'
    BY <1>1 DEF IInv, TypeOK, LeavingGone, MidwayRuns, Running, Acquiring
<1>14. QED
    BY <1>4, <1>5, <1>6, <1>7, <1>8, <1>9, <1>10, <1>12, <1>13 DEF IInv

LEMMA ReleaseReturnsInv ==
    ASSUME IInv, NEW t \in Threads, ReleaseReturns(t)
    PROVE  IInv'
<1> DEFINE m == arg[t]
<1>1. /\ m \in Mutexes /\ Running(t) /\ pc[t] = "unlocked"
      /\ pc' = [pc EXCEPT ![t] = "user"]
      /\ tskid' = [tskid EXCEPT ![m] = NoTask]
      /\ UNCHANGED <<rdq, loctsk, waitq, lastmtx, count, arg, depth>>
    BY DEF IInv, TypeOK, ReleaseReturns, Goto, kernel
<1>2. \A u \in Threads, n \in Mutexes :
          Acquiring(u, n)' = Acquiring(u, n) /\ (n # m \/ u # t => Leaving(u, n)' = Leaving(u, n))
    BY <1>1 DEF IInv, TypeOK, Acquiring, Leaving
<1> HIDE DEF m
<1>4. TypeOK'
    BY <1>1 DEF IInv, TypeOK, Labels
<1>5. MidwayRuns'
    BY <1>1 DEF IInv, TypeOK, MidwayRuns, Running
<1>6. WaitersWait'
    BY <1>1, WaitersFrame DEF IInv, TypeOK
<1>7. ListedHeld'
    BY <1>1, ListedFrame DEF IInv
<1>8. MidwayHeld'
    BY <1>1 DEF IInv, TypeOK, MidwayHeld
<1>9. OwnerKnown'
    <2> SUFFICES ASSUME NEW n \in Mutexes, NEW u \in Threads
                 PROVE  /\ loctsk[n] = u /\ ~Acquiring(u, n) => tskid'[n] = u
                        /\ tskid'[n] = u => loctsk[n] = u \/ Leaving(u, n)'
        BY <1>1, <1>2 DEF OwnerKnown
    <2>1. CASE n = m
        <3>1. tskid'[n] = NoTask BY <1>1, <2>1 DEF IInv, TypeOK
        <3>2. loctsk[n] = u => Acquiring(u, n)
            BY <1>1, <2>1 DEF IInv, LeavingGone, m
        <3>3. QED BY <3>1, <3>2, NoTaskAssumption
    <2>2. CASE n # m
        BY <1>1, <1>2, <2>2 DEF IInv, TypeOK, OwnerKnown
    <2>3. QED BY <2>1, <2>2
<1>10. DepthKnown' /\ CountZero'
    BY <1>1, <1>2, DepthFrame DEF IInv
<1>12. UnlockBottom'
    BY <1>1 DEF IInv, TypeOK, UnlockBottom
<1>13. LeavingGone'
    BY <1>1 DEF IInv, TypeOK, LeavingGone, MidwayRuns, Running, Acquiring
<1>14. QED
    BY <1>4, <1>5, <1>6, <1>7, <1>8, <1>9, <1>10, <1>12, <1>13 DEF IInv

-----------------------------------------------------------------------------
(* No thread is midway while another one runs outside the wrapper. *)
LEMMA NobodyMidway ==
    ASSUME IInv, NEW t \in Threads, Running(t), pc[t] = "user"
    PROVE  \A u \in Threads : pc[u] \notin {"counting", "unlock", "unlocked"}
BY DEF IInv, MidwayRuns, Running

(* A step that moves a thread between user, asleep and waiting touches     *)
(* neither the owners nor the wrapper: only the two queues are left to do. *)
LEMMA QuietStep ==
    ASSUME IInv, NEW t \in Threads, NEW label,
           pc[t] \in {"user", "asleep", "waiting"},
           label \in {"user", "asleep", "waiting"},
           pc' = [pc EXCEPT ![t] = label],
           \A u \in Threads \ {t} : arg'[u] = arg[u],
           UNCHANGED <<loctsk, lastmtx, wrapper, depth>>,
           TypeOK', MidwayRuns', WaitersWait'
    PROVE  IInv'
<1>1. \A u \in Threads, n \in Mutexes :
          Acquiring(u, n)' = Acquiring(u, n) /\ (Leaving(u, n) => Leaving(u, n)')
    BY DEF IInv, TypeOK, Acquiring, Leaving
<1>2. ListedHeld'
    BY ListedFrame DEF IInv
<1>3. MidwayHeld'
    BY DEF IInv, TypeOK, MidwayHeld
<1>4. OwnerKnown'
    BY <1>1, OwnerFrame DEF IInv, wrapper
<1>5. DepthKnown' /\ CountZero'
    BY <1>1, DepthFrame DEF IInv, wrapper
<1>6. UnlockBottom'
    BY DEF IInv, TypeOK, UnlockBottom, wrapper
<1>7. LeavingGone'
    <2> SUFFICES ASSUME NEW u \in Threads, NEW v \in Threads,
                        pc'[u] = "unlocked", loctsk'[arg'[u]] = v
                 PROVE  pc'[v] = "locked" /\ arg'[v] = arg'[u]
        BY DEF LeavingGone, Acquiring
    <2>1. u # t BY DEF IInv, TypeOK
    <2>2. pc[u] = "unlocked" /\ arg'[u] = arg[u] /\ arg[u] \in Mutexes
        BY <2>1 DEF IInv, TypeOK
    <2>3. Acquiring(v, arg[u]) BY <2>2 DEF IInv, LeavingGone
    <2>4. v # t BY <2>3 DEF Acquiring
    <2>5. QED BY <2>2, <2>3, <2>4 DEF Acquiring, IInv, TypeOK
<1>8. QED
    BY <1>2, <1>3, <1>4, <1>5, <1>6, <1>7 DEF IInv

LEMMA LockFreeInv ==
    ASSUME IInv, NEW t \in Threads, NEW m \in Mutexes, Acquire(t, m), LockFree(t, m)
    PROVE  IInv'
<1>1. /\ Running(t) /\ pc[t] = "user" /\ loctsk[m] = NoTask
      /\ arg' = [arg EXCEPT ![t] = m]
      /\ pc' = [pc EXCEPT ![t] = "locked"]
      /\ loctsk' = [loctsk EXCEPT ![m] = t]
      /\ lastmtx' = [lastmtx EXCEPT ![t] = Append(@, m)]
      /\ UNCHANGED <<rdq, waitq, tskid, count, depth>>
    BY DEF Acquire, LockFree, wrapper, Goto
<1>2. \A u \in Threads : pc[u] \notin {"counting", "unlock", "unlocked"}
    BY <1>1, NobodyMidway
<1>3. \A u \in Threads, n \in Mutexes :
          /\ Acquiring(u, n)' = (Acquiring(u, n) \/ (u = t /\ n = m))
          /\ ~Leaving(u, n) /\ ~Leaving(u, n)'
    BY <1>1, <1>2 DEF IInv, TypeOK, Acquiring, Leaving
<1>4. TypeOK'
    <2>1. lastmtx' \in [Threads -> Seq(Mutexes)]
        BY <1>1 DEF IInv, TypeOK
    <2>2. QED BY <1>1, <2>1 DEF IInv, TypeOK, Labels
<1>5. MidwayRuns'
    BY <1>1, <1>2 DEF IInv, TypeOK, MidwayRuns
<1>6. WaitersWait'
    BY <1>1, WaitersFrame DEF IInv, TypeOK
<1>7. ListedHeld'
    <2> SUFFICES ASSUME NEW u \in Threads, NEW i \in 1 .. Len(lastmtx'[u])
                 PROVE  /\ loctsk'[lastmtx'[u][i]] = u
                        /\ \A j \in 1 .. Len(lastmtx'[u]) :
                               lastmtx'[u][i] = lastmtx'[u][j] => i = j
        BY DEF ListedHeld
    <2>0. lastmtx[u] \in Seq(Mutexes) BY DEF IInv, TypeOK
    <2>1. \A k \in 1 .. Len(lastmtx[u]) :
              lastmtx[u][k] \in Mutexes /\ lastmtx[u][k] # m
        <3> SUFFICES ASSUME NEW k \in 1 .. Len(lastmtx[u])
                     PROVE  lastmtx[u][k] \in Mutexes /\ lastmtx[u][k] # m
            OBVIOUS
        <3>1. lastmtx[u][k] \in Mutexes BY <2>0
        <3>2. loctsk[lastmtx[u][k]] = u BY DEF IInv, ListedHeld
        <3>3. QED BY <1>1, <3>1, <3>2, NoTaskAssumption
    <2>2. CASE u # t
        <3>1. lastmtx'[u] = lastmtx[u] BY <1>1, <2>2 DEF IInv, TypeOK
        <3>2. /\ loctsk[lastmtx[u][i]] = u
              /\ \A j \in 1 .. Len(lastmtx[u]) : lastmtx[u][i] = lastmtx[u][j] => i = j
            BY <3>1 DEF IInv, ListedHeld
        <3>3. QED BY <1>1, <2>1, <3>1, <3>2 DEF IInv, TypeOK
    <2>3. CASE u = t
        <3>1. lastmtx'[u] = Append(lastmtx[u], m)
            BY <1>1, <2>3 DEF IInv, TypeOK
        <3>2. /\ Len(lastmtx'[u]) = Len(lastmtx[u]) + 1
              /\ lastmtx'[u][Len(lastmtx[u]) + 1] = m
              /\ \A k \in 1 .. Len(lastmtx[u]) : lastmtx'[u][k] = lastmtx[u][k]
            BY <2>0, <3>1, AppendProperties
        <3>3. loctsk'[m] = t /\ \A n \in Mutexes \ {m} : loctsk'[n] = loctsk[n]
            BY <1>1 DEF IInv, TypeOK
        <3>4. \A k \in 1 .. Len(lastmtx[u]) :
                  /\ loctsk[lastmtx[u][k]] = u
                  /\ \A l \in 1 .. Len(lastmtx[u]) : lastmtx[u][k] = lastmtx[u][l] => k = l
            BY DEF IInv, ListedHeld
        <3>5. Len(lastmtx[u]) \in Nat BY <2>0
        <3>6. CASE i = Len(lastmtx[u]) + 1
            <4>1. lastmtx'[u][i] = m BY <3>2, <3>6
            <4>2. ASSUME NEW j \in 1 .. Len(lastmtx'[u]), lastmtx'[u][j] = m
                  PROVE  j = i
                BY <2>1, <3>2, <3>5, <3>6, <4>2
            <4>3. QED BY <2>3, <3>3, <4>1, <4>2
        <3>7. CASE i \in 1 .. Len(lastmtx[u])
            <4>1. lastmtx'[u][i] = lastmtx[u][i] BY <3>2, <3>7
            <4>2. ASSUME NEW j \in 1 .. Len(lastmtx'[u]), lastmtx'[u][i] = lastmtx'[u][j]
                  PROVE  i = j
                <5>1. j # Len(lastmtx[u]) + 1
                    BY <2>1, <3>2, <3>7, <4>1, <4>2
                <5>2. j \in 1 .. Len(lastmtx[u]) BY <3>2, <3>5, <5>1
                <5>3. QED BY <3>2, <3>4, <3>7, <4>1, <4>2, <5>2
            <4>3. QED BY <2>1, <3>3, <3>4, <3>7, <4>1, <4>2
        <3>8. QED BY <3>2, <3>5, <3>6, <3>7
    <2>4. QED BY <2>2, <2>3
<1>8. MidwayHeld'
    BY <1>1, NoTaskAssumption DEF IInv, TypeOK, MidwayHeld
<1>9. OwnerKnown'
    <2> SUFFICES ASSUME NEW n \in Mutexes, NEW u \in Threads
                 PROVE  /\ loctsk'[n] = u /\ ~Acquiring(u, n)' => tskid'[n] = u
                        /\ tskid'[n] = u => loctsk'[n] = u \/ Leaving(u, n)'
        BY DEF OwnerKnown
    <2>1. CASE n = m
        <3>1. loctsk'[n] = t /\ tskid'[n] = tskid[n] BY <1>1, <2>1 DEF IInv, TypeOK
        <3>2. tskid[n] # u BY <1>1, <1>3, <2>1, NoTaskAssumption DEF IInv, OwnerKnown
        <3>3. QED BY <1>3, <2>1, <3>1, <3>2
    <2>2. CASE n # m
        BY <1>1, <1>3, <2>2 DEF IInv, TypeOK, OwnerKnown
    <2>3. QED BY <2>1, <2>2
<1>10. DepthKnown'
    <2> SUFFICES ASSUME NEW u \in Threads, NEW n \in Mutexes
                 PROVE  depth[u][n] = IF loctsk'[n] = u /\ ~Acquiring(u, n)'
                                      THEN count[n] + 1 ELSE 0
        BY <1>1 DEF DepthKnown
    <2>1. depth[u][n] = IF loctsk[n] = u /\ ~Acquiring(u, n) THEN count[n] + 1 ELSE 0
        BY DEF IInv, DepthKnown
    <2>2. loctsk'[n] = IF n = m THEN t ELSE loctsk[n]
        BY <1>1 DEF IInv, TypeOK
    <2>3. QED BY <1>1, <1>3, <2>1, <2>2, NoTaskAssumption
<1>11. CountZero'
    BY <1>1, <1>3, NoTaskAssumption DEF IInv, TypeOK, CountZero
<1>12. UnlockBottom'
    BY <1>1, <1>2 DEF IInv, TypeOK, UnlockBottom
<1>13. LeavingGone'
    BY <1>1, <1>2 DEF IInv, TypeOK, LeavingGone
<1>14. QED
    BY <1>4, <1>5, <1>6, <1>7, <1>8, <1>9, <1>10, <1>11, <1>12, <1>13 DEF IInv

LEMMA LockOwnInv ==
    ASSUME IInv, NEW t \in Threads, NEW m \in Mutexes, Acquire(t, m), LockOwn(t, m)
    PROVE  IInv'
<1>1. /\ Running(t) /\ pc[t] = "user" /\ loctsk[m] = t
      /\ arg' = [arg EXCEPT ![t] = m]
      /\ pc' = [pc EXCEPT ![t] = "counting"]
      /\ UNCHANGED <<rdq, loctsk, waitq, lastmtx, tskid, count, depth>>
    BY DEF Acquire, LockOwn, kernel, wrapper, Goto
<1>2. \A u \in Threads, n \in Mutexes :
          Acquiring(u, n)' = Acquiring(u, n) /\ (Leaving(u, n) => Leaving(u, n)')
    BY <1>1 DEF IInv, TypeOK, Acquiring, Leaving
<1>4. TypeOK'
    BY <1>1 DEF IInv, TypeOK, Labels
<1>5. MidwayRuns'
    BY <1>1 DEF IInv, TypeOK, MidwayRuns, Running
<1>6. WaitersWait'
    BY <1>1, WaitersFrame DEF IInv, TypeOK
<1>7. ListedHeld'
    BY <1>1, ListedFrame DEF IInv
<1>8. MidwayHeld'
    BY <1>1 DEF IInv, TypeOK, MidwayHeld
<1>9. OwnerKnown'
    BY <1>1, <1>2, OwnerFrame DEF IInv
<1>10. DepthKnown' /\ CountZero'
    BY <1>1, <1>2, DepthFrame DEF IInv
<1>12. UnlockBottom'
    BY <1>1 DEF IInv, TypeOK, UnlockBottom
<1>13. LeavingGone'
    BY <1>1 DEF IInv, TypeOK, LeavingGone, MidwayRuns, Running, Acquiring
<1>14. QED
    BY <1>4, <1>5, <1>6, <1>7, <1>8, <1>9, <1>10, <1>12, <1>13 DEF IInv

LEMMA LockPollInv ==
    ASSUME IInv, NEW t \in Threads, NEW m \in Mutexes, Acquire(t, m), LockPoll(t, m)
    PROVE  IInv'
<1>1. /\ Running(t) /\ pc[t] = "user"
      /\ arg' = [arg EXCEPT ![t] = m]
      /\ pc' = [pc EXCEPT ![t] = "user"]
      /\ UNCHANGED <<rdq, loctsk, waitq, lastmtx, tskid, count, depth>>
    BY DEF Acquire, LockPoll, kernel, wrapper, IInv, TypeOK
<1>2. TypeOK'
    BY <1>1 DEF IInv, TypeOK, Labels
<1>3. MidwayRuns'
    BY <1>1 DEF IInv, TypeOK, MidwayRuns, Running
<1>4. WaitersWait'
    BY <1>1, WaitersFrame DEF IInv, TypeOK
<1>5. \A u \in Threads \ {t} : arg'[u] = arg[u]
    BY <1>1 DEF IInv, TypeOK
<1>6. QED BY <1>1, <1>2, <1>3, <1>4, <1>5, QuietStep DEF wrapper

LEMMA LockWaitInv ==
    ASSUME IInv, NEW t \in Threads, NEW m \in Mutexes, Acquire(t, m), LockWait(t, m)
    PROVE  IInv'
<1>1. /\ Running(t) /\ pc[t] = "user"
      /\ arg' = [arg EXCEPT ![t] = m]
      /\ pc' = [pc EXCEPT ![t] = "waiting"]
      /\ waitq' = [waitq EXCEPT ![m] = Append(@, t)]
      /\ rdq' = Tail(rdq)
      /\ UNCHANGED <<loctsk, lastmtx, tskid, count, depth>>
    BY DEF Acquire, LockWait, wrapper, Goto
<1>2. TypeOK'
    <2>1. rdq' \in Seq(Threads)
        BY <1>1 DEF IInv, TypeOK, Running
    <2>2. waitq' \in [Mutexes -> Seq(Threads)]
        BY <1>1 DEF IInv, TypeOK
    <2>3. QED BY <1>1, <2>1, <2>2 DEF IInv, TypeOK, Labels
<1>3. MidwayRuns'
    BY <1>1, NobodyMidway DEF IInv, TypeOK, MidwayRuns
<1>4. WaitersWait'
    <2> SUFFICES ASSUME NEW n \in Mutexes, NEW i \in 1 .. Len(waitq'[n])
                 PROVE  /\ pc'[waitq'[n][i]] = "waiting"
                        /\ arg'[waitq'[n][i]] = n
                        /\ \A j \in 1 .. Len(waitq'[n]) :
                               waitq'[n][i] = waitq'[n][j] => i = j
        BY DEF WaitersWait
    <2>0. waitq[n] \in Seq(Threads) BY DEF IInv, TypeOK
    <2>1. \A k \in 1 .. Len(waitq[n]) :
              waitq[n][k] \in Threads /\ waitq[n][k] # t
        BY <1>1, <2>0 DEF IInv, WaitersWait
    <2>2. \A k \in 1 .. Len(waitq[n]) :
              /\ pc'[waitq[n][k]] = "waiting"
              /\ arg'[waitq[n][k]] = n
              /\ \A l \in 1 .. Len(waitq[n]) : waitq[n][k] = waitq[n][l] => k = l
        <3> SUFFICES ASSUME NEW k \in 1 .. Len(waitq[n])
                     PROVE  /\ pc'[waitq[n][k]] = "waiting"
                            /\ arg'[waitq[n][k]] = n
                            /\ \A l \in 1 .. Len(waitq[n]) :
                                   waitq[n][k] = waitq[n][l] => k = l
            OBVIOUS
        <3>1. /\ pc[waitq[n][k]] = "waiting"
              /\ arg[waitq[n][k]] = n
              /\ \A l \in 1 .. Len(waitq[n]) : waitq[n][k] = waitq[n][l] => k = l
            BY DEF IInv, WaitersWait
        <3>2. QED BY <1>1, <2>1, <3>1 DEF IInv, TypeOK
    <2>3. CASE n # m
        <3>1. waitq'[n] = waitq[n] BY <1>1, <2>3 DEF IInv, TypeOK
        <3>2. QED BY <2>2, <3>1
    <2>4. CASE n = m
        <3>1. waitq'[n] = Append(waitq[n], t)
            BY <1>1, <2>4 DEF IInv, TypeOK
        <3>2. /\ Len(waitq'[n]) = Len(waitq[n]) + 1
              /\ waitq'[n][Len(waitq[n]) + 1] = t
              /\ \A k \in 1 .. Len(waitq[n]) : waitq'[n][k] = waitq[n][k]
            BY <2>0, <3>1, AppendProperties
        <3>3. pc'[t] = "waiting" /\ arg'[t] = n
            BY <1>1, <2>4 DEF IInv, TypeOK
        <3>4. Len(waitq[n]) \in Nat BY <2>0
        <3>5. CASE i = Len(waitq[n]) + 1
            <4>1. waitq'[n][i] = t BY <3>2, <3>5
            <4>2. ASSUME NEW j \in 1 .. Len(waitq'[n]), waitq'[n][j] = t
                  PROVE  j = i
                BY <2>1, <3>2, <3>4, <3>5, <4>2
            <4>3. QED BY <3>3, <4>1, <4>2
        <3>6. CASE i \in 1 .. Len(waitq[n])
            <4>1. waitq'[n][i] = waitq[n][i] BY <3>2, <3>6
            <4>2. ASSUME NEW j \in 1 .. Len(waitq'[n]), waitq'[n][i] = waitq'[n][j]
                  PROVE  i = j
                <5>1. j # Len(waitq[n]) + 1
                    BY <2>1, <3>2, <3>6, <4>1, <4>2
                <5>2. j \in 1 .. Len(waitq[n]) BY <3>2, <3>4, <5>1
                <5>3. QED BY <2>2, <3>2, <3>6, <4>1, <4>2, <5>2
            <4>3. QED BY <2>2, <3>6, <4>1, <4>2
        <3>7. QED BY <3>2, <3>4, <3>5, <3>6
    <2>5. QED BY <2>3, <2>4
<1>5. \A u \in Threads \ {t} : arg'[u] = arg[u]
    BY <1>1 DEF IInv, TypeOK
<1>6. QED BY <1>1, <1>2, <1>3, <1>4, <1>5, QuietStep DEF wrapper

(* A thread that does not run becomes ready: nobody midway is overtaken. *)
LEMMA ReadyMidway ==
    ASSUME IInv, SamePriority, NEW t \in Threads,
           pc[t] \in {"asleep", "waiting"}, pc' = [pc EXCEPT ![t] = "user"],
           MakeReady(rdq, t)
    PROVE  MidwayRuns' /\ rdq' \in Seq(Threads)
<1>1. rdq \in Seq(Threads) BY DEF IInv, TypeOK
<1>2. /\ rdq' \in Seq(Threads)
      /\ rdq # <<>> => rdq' # <<>> /\ Head(rdq') = Head(rdq)
    BY <1>1, ReadyBehind
<1>3. ASSUME NEW u \in Threads, pc'[u] \in {"counting", "unlock", "unlocked"}
      PROVE  Running(u)'
    <2>1. Running(u) BY <1>3 DEF IInv, TypeOK, MidwayRuns
    <2>2. QED BY <1>2, <2>1 DEF Running
<1>4. QED BY <1>2, <1>3 DEF MidwayRuns

LEMMA WakeInv ==
    ASSUME IInv, SamePriority, NEW t \in Threads, Wake(t)
    PROVE  IInv'
<1>1. /\ pc[t] = "asleep" /\ MakeReady(rdq, t)
      /\ pc' = [pc EXCEPT ![t] = "user"]
      /\ UNCHANGED <<loctsk, waitq, lastmtx, wrapper, arg, depth>>
    BY DEF Wake, Goto
<1>2. MidwayRuns' /\ rdq' \in Seq(Threads)
    BY <1>1, ReadyMidway
<1>3. TypeOK'
    BY <1>1, <1>2 DEF IInv, TypeOK, Labels, wrapper
<1>4. WaitersWait'
    BY <1>1, WaitersFrame DEF IInv, TypeOK
<1>5. QED BY <1>1, <1>2, <1>3, <1>4, QuietStep

LEMMA SleepInv ==
    ASSUME IInv, NEW t \in Threads, Sleep(t)
    PROVE  IInv'
<1>1. /\ Running(t) /\ pc[t] = "user" /\ rdq' = Tail(rdq)
      /\ pc' = [pc EXCEPT ![t] = "asleep"]
      /\ UNCHANGED <<loctsk, waitq, lastmtx, wrapper, arg, depth>>
    BY DEF Sleep, Goto
<1>2. TypeOK'
    <2>1. rdq' \in Seq(Threads) BY <1>1 DEF IInv, TypeOK, Running
    <2>2. QED BY <1>1, <2>1 DEF IInv, TypeOK, Labels, wrapper
<1>3. MidwayRuns'
    BY <1>1, NobodyMidway DEF IInv, TypeOK, MidwayRuns
<1>4. WaitersWait'
    BY <1>1, WaitersFrame DEF IInv, TypeOK
<1>5. QED BY <1>1, <1>2, <1>3, <1>4, QuietStep

LEMMA YieldInv ==
    ASSUME IInv, SamePriority, NEW t \in Threads, Yield(t)
    PROVE  IInv'
<1>1. /\ Running(t) /\ pc[t] = "user" /\ MakeReady(Tail(rdq), t)
      /\ pc' = [pc EXCEPT ![t] = "user"]
      /\ UNCHANGED <<pc, loctsk, waitq, lastmtx, wrapper, arg, depth>>
    BY DEF Yield, IInv, TypeOK
<1>2. TypeOK'
    <2>1. Tail(rdq) \in Seq(Threads) BY <1>1 DEF IInv, TypeOK, Running
    <2>2. rdq' \in Seq(Threads) BY <1>1, <2>1, ReadyBehind
    <2>3. QED BY <1>1, <2>2 DEF IInv, TypeOK, wrapper
<1>3. MidwayRuns'
    BY <1>1, NobodyMidway DEF IInv, TypeOK, MidwayRuns
<1>4. WaitersWait'
    BY <1>1, WaitersFrame DEF IInv, TypeOK
<1>5. QED BY <1>1, <1>2, <1>3, <1>4, QuietStep

(* A queue without its i-th member still holds only waiters, each once. *)
LEMMA DequeuedWait ==
    ASSUME TypeOK, WaitersWait, NEW m \in Mutexes, NEW i \in 1 .. Len(waitq[m]),
           NEW q \in Seq(Threads), Len(q) = Len(waitq[m]) - 1,
           \A j \in 1 .. Len(waitq[m]) - 1 :
               q[j] = IF j < i THEN waitq[m][j] ELSE waitq[m][j + 1],
           waitq' = [waitq EXCEPT ![m] = q],
           \A u \in Threads \ {waitq[m][i]} : pc'[u] = pc[u], UNCHANGED arg
    PROVE  WaitersWait'
<1> DEFINE s == waitq[m]
           t == s[i]
<1>0. s \in Seq(Threads) BY DEF TypeOK
<1>1. s \in Seq(Threads) /\ Len(s) \in Nat /\ t \in Threads
    BY <1>0
<1>2. ASSUME NEW j \in 1 .. Len(q)
      PROVE  \E k \in 1 .. Len(s) :
                 /\ q[j] = s[k] /\ k # i
                 /\ k = IF j < i THEN j ELSE j + 1
    <2>1. CASE j < i BY <1>1, <2>1
    <2>2. CASE ~(j < i) BY <1>1, <2>2
    <2>3. QED BY <2>1, <2>2
<1>3. \A k \in 1 .. Len(s) : s[k] \in Threads /\ pc[s[k]] = "waiting" /\ arg[s[k]] = m
    BY <1>1 DEF WaitersWait
<1>4. \A k, l \in 1 .. Len(s) : s[k] = s[l] => k = l
    BY DEF WaitersWait
<1>5. ASSUME NEW j \in 1 .. Len(q)
      PROVE  pc'[q[j]] = "waiting" /\ arg'[q[j]] = m
    <2>1. PICK k \in 1 .. Len(s) : q[j] = s[k] /\ k # i BY <1>2
    <2>2. s[k] # t BY <1>4, <2>1
    <2>3. QED BY <1>3, <2>1, <2>2
<1>6. ASSUME NEW j \in 1 .. Len(q), NEW l \in 1 .. Len(q), q[j] = q[l]
      PROVE  j = l
    <2>1. PICK a \in 1 .. Len(s) :
              q[j] = s[a] /\ a = IF j < i THEN j ELSE j + 1
        BY <1>2
    <2>2. PICK b \in 1 .. Len(s) :
              q[l] = s[b] /\ b = IF l < i THEN l ELSE l + 1
        BY <1>2
    <2>3. a = b BY <1>4, <1>6, <2>1, <2>2
    <2>4. QED BY <2>1, <2>2, <2>3
<1>7. ASSUME NEW n \in Mutexes \ {m}, NEW j \in 1 .. Len(waitq[n])
      PROVE  pc'[waitq[n][j]] = "waiting" /\ arg'[waitq[n][j]] = n
    <2>1. waitq[n] \in Seq(Threads) BY DEF TypeOK
    <2>2. waitq[n][j] \in Threads BY <2>1
    <2>3. pc[waitq[n][j]] = "waiting" /\ arg[waitq[n][j]] = n
        BY DEF WaitersWait
    <2>4. waitq[n][j] # t BY <1>3, <2>3
    <2>5. QED BY <2>2, <2>3, <2>4
<1>8. waitq'[m] = q /\ \A n \in Mutexes \ {m} : waitq'[n] = waitq[n]
    BY DEF TypeOK
<1>9. QED
    <2> SUFFICES ASSUME NEW n \in Mutexes, NEW j \in 1 .. Len(waitq'[n])
                 PROVE  /\ pc'[waitq'[n][j]] = "waiting"
                        /\ arg'[waitq'[n][j]] = n
                        /\ \A l \in 1 .. Len(waitq'[n]) :
                               waitq'[n][j] = waitq'[n][l] => j = l
        BY DEF WaitersWait
    <2>1. CASE n = m BY <1>5, <1>6, <1>8, <2>1
    <2>2. CASE n # m
        <3>1. waitq'[n] = waitq[n] BY <1>8, <2>2
        <3>2. \A l \in 1 .. Len(waitq[n]) : waitq[n][j] = waitq[n][l] => j = l
            BY <3>1 DEF WaitersWait
        <3>3. QED BY <1>7, <2>2, <3>1, <3>2
    <2>3. QED BY <2>1, <2>2

LEMMA TimeoutInv ==
    ASSUME IInv, SamePriority, NEW m \in Mutexes, NEW i \in 1 .. Len(waitq[m]),
           Timeout(m, i)
    PROVE  IInv'
<1> DEFINE t == waitq[m][i]
           q == RemoveAt(waitq[m], i)
<1>1. t \in Threads /\ pc[t] = "waiting"
    BY DEF IInv, TypeOK, WaitersWait
<1>2. /\ waitq' = [waitq EXCEPT ![m] = q] /\ MakeReady(rdq, t)
      /\ pc' = [pc EXCEPT ![t] = "user"]
      /\ UNCHANGED <<loctsk, lastmtx, wrapper, arg, depth>>
    BY DEF Timeout, Goto
<1>3. /\ q \in Seq(Threads) /\ Len(q) = Len(waitq[m]) - 1
      /\ \A j \in 1 .. Len(waitq[m]) - 1 :
             q[j] = IF j < i THEN waitq[m][j] ELSE waitq[m][j + 1]
    BY RemoveWaiter DEF IInv, TypeOK
<1> HIDE DEF q
<1>4. MidwayRuns' /\ rdq' \in Seq(Threads)
    BY <1>1, <1>2, ReadyMidway
<1>5. \A u \in Threads \ {t} : pc'[u] = pc[u]
    BY <1>2 DEF IInv, TypeOK
<1>6. WaitersWait'
    BY <1>2, <1>3, <1>5, DequeuedWait DEF IInv
<1> HIDE DEF t
<1>7. TypeOK'
    BY <1>1, <1>2, <1>3, <1>4 DEF IInv, TypeOK, Labels, wrapper
<1>8. QED BY <1>1, <1>2, <1>4, <1>6, <1>7, QuietStep

-----------------------------------------------------------------------------
(* unl_mtx takes the last mutex from the list of its owner.  What both     *)
(* outcomes share: t owns m with no nesting left, and the shorter list     *)
(* names the other mutexes of t.                                           *)
Popped(t) == [lastmtx EXCEPT ![t] = SubSeq(@, 1, Len(@) - 1)]

LEMMA UnlockFacts ==
    ASSUME IInv, NEW t \in Threads, NEW m \in Mutexes, Running(t), arg[t] = m,
           pc[t] = "unlock", IsLast(t, m)
    PROVE  /\ loctsk[m] = t /\ count[m] = 0 /\ tskid[m] = t /\ depth[t][m] = 1
           /\ \A u \in Threads \ {t} : pc[u] \notin {"counting", "unlock", "unlocked"}
           /\ Popped(t) \in [Threads -> Seq(Mutexes)]
           /\ \A u \in Threads : \A i \in 1 .. Len(Popped(t)[u]) :
                  /\ loctsk[Popped(t)[u][i]] = u
                  /\ Popped(t)[u][i] \in Mutexes \ {m}
                  /\ \A j \in 1 .. Len(Popped(t)[u]) :
                         Popped(t)[u][i] = Popped(t)[u][j] => i = j
<1> DEFINE s == lastmtx[t]
           p == SubSeq(s, 1, Len(s) - 1)
<1>0. lastmtx[t] \in Seq(Mutexes) /\ NoTask \notin Threads
    BY NoTaskAssumption DEF IInv, TypeOK
<1>1. s \in Seq(Mutexes) /\ Len(s) \in Nat \ {0} /\ s[Len(s)] = m
    BY <1>0 DEF IsLast
<1>2. loctsk[m] = t
    BY <1>1 DEF IInv, ListedHeld
<1>3. ~Acquiring(t, m) BY DEF Acquiring
<1>4. count[m] = 0 /\ tskid[m] = t /\ depth[t][m] = 1
    <2>1. count[m] = 0 BY <1>2 DEF IInv, UnlockBottom
    <2>2. tskid[m] = t BY <1>2, <1>3 DEF IInv, OwnerKnown
    <2>3. QED BY <1>2, <1>3, <2>1, <2>2 DEF IInv, DepthKnown
<1>5. \A u \in Threads \ {t} : pc[u] \notin {"counting", "unlock", "unlocked"}
    BY DEF IInv, MidwayRuns, Running
<1>6. /\ p \in Seq(Mutexes) /\ Len(p) = Len(s) - 1
      /\ \A k \in 1 .. Len(s) - 1 : p[k] = s[k]
    <2>1. \A k \in 1 .. Len(s) - 1 : s[k] \in Mutexes BY <1>1
    <2>2. QED BY <1>1, <2>1, SubSeqProperties
<1>7. Popped(t)[t] = p /\ \A u \in Threads \ {t} : Popped(t)[u] = lastmtx[u]
    BY DEF Popped, IInv, TypeOK
<1>8. Popped(t) \in [Threads -> Seq(Mutexes)]
    BY <1>6 DEF Popped, IInv, TypeOK
<1>9. \A u \in Threads : \A k, l \in 1 .. Len(lastmtx[u]) :
          loctsk[lastmtx[u][k]] = u /\ (lastmtx[u][k] = lastmtx[u][l] => k = l)
    BY DEF IInv, ListedHeld
<1>10. ASSUME NEW u \in Threads, NEW i \in 1 .. Len(Popped(t)[u])
       PROVE  /\ loctsk[Popped(t)[u][i]] = u
              /\ Popped(t)[u][i] \in Mutexes \ {m}
              /\ \A j \in 1 .. Len(Popped(t)[u]) :
                     Popped(t)[u][i] = Popped(t)[u][j] => i = j
    <2>0. Popped(t)[u] \in Seq(Mutexes) BY <1>8
    <2>1. Popped(t)[u][i] \in Mutexes BY <2>0
    <2>2. CASE u = t
        <3>1. Popped(t)[u] = p BY <1>7, <2>2
        <3>2. i \in 1 .. Len(s) - 1 BY <1>6, <3>1
        <3>3. i \in 1 .. Len(s) /\ i # Len(s) /\ Len(s) \in 1 .. Len(s)
            BY <1>1, <3>2
        <3>4. Popped(t)[u][i] = s[i] BY <1>6, <3>1, <3>2
        <3>5. s[i] # m BY <1>1, <1>9, <3>3
        <3>6. ASSUME NEW j \in 1 .. Len(p), p[i] = p[j] PROVE i = j
            <4>1. j \in 1 .. Len(s) /\ s[i] = s[j]
                BY <1>1, <1>6, <3>1, <3>2, <3>6
            <4>2. QED BY <1>9, <3>3, <4>1
        <3>7. loctsk[s[i]] = t BY <1>9, <3>3
        <3> HIDE DEF s, p
        <3>8. QED BY <2>1, <2>2, <3>1, <3>4, <3>5, <3>6, <3>7
    <2>3. CASE u # t
        <3>1. Popped(t)[u] = lastmtx[u] BY <1>7, <2>3
        <3>2. loctsk[lastmtx[u][i]] = u BY <1>9, <3>1
        <3>3. lastmtx[u][i] # m BY <1>2, <2>3, <3>2
        <3>4. QED BY <1>9, <2>1, <3>1, <3>2, <3>3
    <2>4. QED BY <2>2, <2>3
<1>11. QED BY <1>2, <1>4, <1>5, <1>8, <1>10

LEMMA UnlockFreeInv ==
    ASSUME IInv, NEW t \in Threads, Unlock(t), waitq[arg[t]] = <<>>
    PROVE  IInv'
<1> DEFINE m == arg[t]
           popped == Popped(t)
<1>1. /\ m \in Mutexes /\ Running(t) /\ pc[t] = "unlock" /\ IsLast(t, m)
      /\ loctsk' = [loctsk EXCEPT ![m] = NoTask]
      /\ lastmtx' = popped
      /\ pc' = [pc EXCEPT ![t] = "unlocked"]
      /\ depth' = [depth EXCEPT ![t][m] = @ - 1]
      /\ UNCHANGED <<rdq, waitq, tskid, count, arg>>
    BY DEF IInv, TypeOK, Unlock, Goto, wrapper, Popped
<1>2. /\ loctsk[m] = t /\ count[m] = 0 /\ tskid[m] = t /\ depth[t][m] = 1
      /\ \A u \in Threads \ {t} : pc[u] \notin {"counting", "unlock", "unlocked"}
      /\ popped \in [Threads -> Seq(Mutexes)]
    BY <1>1, UnlockFacts
<1>3. \A u \in Threads : \A i \in 1 .. Len(popped[u]) :
          /\ loctsk[popped[u][i]] = u
          /\ popped[u][i] \in Mutexes \ {m}
          /\ \A j \in 1 .. Len(popped[u]) : popped[u][i] = popped[u][j] => i = j
    BY <1>1, UnlockFacts
<1>4. \A u \in Threads, n \in Mutexes :
          /\ Acquiring(u, n)' = Acquiring(u, n)
          /\ Leaving(u, n)' = (u = t /\ n = m)
    BY <1>1, <1>2 DEF IInv, TypeOK, Acquiring, Leaving
<1>5. /\ \A n \in Mutexes : loctsk'[n] = IF n = m THEN NoTask ELSE loctsk[n]
      /\ \A u \in Threads, n \in Mutexes :
             depth'[u][n] = IF u = t /\ n = m THEN 0 ELSE depth[u][n]
      /\ depth' \in [Threads -> [Mutexes -> Nat]]
    BY <1>1, <1>2 DEF IInv, TypeOK
<1> HIDE DEF m, popped
<1>6. TypeOK'
    BY <1>1, <1>2, <1>5 DEF IInv, TypeOK, Labels
<1>7. MidwayRuns'
    BY <1>1, <1>2 DEF IInv, TypeOK, MidwayRuns, Running
<1>8. WaitersWait'
    BY <1>1, WaitersFrame DEF IInv, TypeOK
<1>9. ListedHeld'
    <2> SUFFICES ASSUME NEW u \in Threads, NEW i \in 1 .. Len(popped[u])
                 PROVE  /\ loctsk'[popped[u][i]] = u
                        /\ \A j \in 1 .. Len(popped[u]) :
                               popped[u][i] = popped[u][j] => i = j
        BY <1>1 DEF ListedHeld
    <2>1. QED BY <1>3, <1>5
<1>10. MidwayHeld'
    BY <1>1, <1>2, <1>5 DEF IInv, TypeOK, MidwayHeld
<1>11. OwnerKnown'
    <2> SUFFICES ASSUME NEW n \in Mutexes, NEW u \in Threads
                 PROVE  /\ loctsk'[n] = u /\ ~Acquiring(u, n)' => tskid[n] = u
                        /\ tskid[n] = u => loctsk'[n] = u \/ Leaving(u, n)'
        BY <1>1 DEF OwnerKnown
    <2>1. /\ loctsk[n] = u /\ ~Acquiring(u, n) => tskid[n] = u
          /\ tskid[n] = u => loctsk[n] = u \/ Leaving(u, n)
        BY DEF IInv, OwnerKnown
    <2>2. CASE n = m BY <1>2, <1>4, <1>5, <2>2, NoTaskAssumption
    <2>3. CASE n # m
        <3>1. ~Leaving(u, n) BY <1>1, <1>2 DEF Leaving
        <3>2. QED BY <1>4, <1>5, <2>1, <2>3, <3>1
    <2>4. QED BY <2>2, <2>3
<1>12. DepthKnown'
    <2> SUFFICES ASSUME NEW u \in Threads, NEW n \in Mutexes
                 PROVE  depth'[u][n] = IF loctsk'[n] = u /\ ~Acquiring(u, n)'
                                       THEN count[n] + 1 ELSE 0
        BY <1>1 DEF DepthKnown
    <2>1. depth[u][n] = IF loctsk[n] = u /\ ~Acquiring(u, n) THEN count[n] + 1 ELSE 0
        BY DEF IInv, DepthKnown
    <2>2. QED BY <1>2, <1>4, <1>5, <2>1, NoTaskAssumption
<1>13. CountZero'
    BY <1>1, <1>2, <1>4, <1>5 DEF IInv, TypeOK, CountZero
<1>14. UnlockBottom'
    BY <1>1, <1>2 DEF IInv, TypeOK, UnlockBottom
<1>15. LeavingGone'
    BY <1>1, <1>2, <1>5, NoTaskAssumption DEF IInv, TypeOK, LeavingGone, m
<1>16. QED
    BY <1>6, <1>7, <1>8, <1>9, <1>10, <1>11, <1>12, <1>13, <1>14, <1>15 DEF IInv

LEMMA HandOverInv ==
    ASSUME IInv, SamePriority, NEW t \in Threads, Unlock(t), waitq[arg[t]] # <<>>
    PROVE  IInv'
<1> DEFINE m == arg[t]
           w == Head(waitq[m])
           popped == Popped(t)
<1>1. /\ m \in Mutexes /\ Running(t) /\ pc[t] = "unlock" /\ IsLast(t, m)
      /\ loctsk' = [loctsk EXCEPT ![m] = w]
      /\ lastmtx' = [popped EXCEPT ![w] = Append(@, m)]
      /\ waitq' = [waitq EXCEPT ![m] = Tail(@)]
      /\ MakeReady(rdq, w)
      /\ pc' = [pc EXCEPT ![t] = "unlocked", ![w] = "locked"]
      /\ depth' = [depth EXCEPT ![t][m] = @ - 1]
      /\ UNCHANGED <<tskid, count, arg>>
    BY DEF IInv, TypeOK, Unlock, HandOver, wrapper, Popped
<1>2. /\ loctsk[m] = t /\ count[m] = 0 /\ tskid[m] = t /\ depth[t][m] = 1
      /\ \A u \in Threads \ {t} : pc[u] \notin {"counting", "unlock", "unlocked"}
      /\ popped \in [Threads -> Seq(Mutexes)]
    BY <1>1, UnlockFacts
<1>3. \A u \in Threads : \A i \in 1 .. Len(popped[u]) :
          /\ loctsk[popped[u][i]] = u
          /\ popped[u][i] \in Mutexes \ {m}
          /\ \A j \in 1 .. Len(popped[u]) : popped[u][i] = popped[u][j] => i = j
    BY <1>1, UnlockFacts
<1>4. waitq[m] \in Seq(Threads) /\ waitq[m] # <<>> /\ 1 \in 1 .. Len(waitq[m])
    <2>1. waitq[m] \in Seq(Threads) BY <1>1 DEF IInv, TypeOK
    <2>2. QED BY <2>1
<1>5. w \in Threads /\ w = waitq[m][1] /\ pc[w] = "waiting" /\ arg[w] = m /\ w # t
    <2>1. w \in Threads /\ w = waitq[m][1] BY <1>4
    <2>2. pc[waitq[m][1]] = "waiting" /\ arg[waitq[m][1]] = m
        BY <1>1, <1>4 DEF IInv, WaitersWait
    <2>3. QED BY <1>1, <2>1, <2>2
<1>6. /\ rdq \in Seq(Threads) /\ rdq # <<>> /\ Head(rdq) = t
      /\ rdq' \in Seq(Threads) /\ rdq' # <<>> /\ Head(rdq') = t
    <2>1. rdq \in Seq(Threads) /\ rdq # <<>> /\ Head(rdq) = t
        BY <1>1 DEF IInv, TypeOK, Running
    <2>2. QED BY <1>1, <1>5, <2>1, ReadyBehind
<1>7. WaitersWait' /\ waitq' \in [Mutexes -> Seq(Threads)]
    <2> DEFINE q == Tail(waitq[m])
    <2>1. /\ q \in Seq(Threads) /\ Len(q) = Len(waitq[m]) - 1
          /\ \A j \in 1 .. Len(waitq[m]) - 1 : q[j] = waitq[m][j + 1]
        BY <1>4, HeadTailProperties
    <2>2. \A j \in 1 .. Len(waitq[m]) - 1 :
              q[j] = IF j < 1 THEN waitq[m][j] ELSE waitq[m][j + 1]
        BY <2>1
    <2> HIDE DEF q
    <2>3. waitq' = [waitq EXCEPT ![m] = q]
        BY <1>1 DEF q
    <2>4. waitq' \in [Mutexes -> Seq(Threads)]
        BY <1>1, <2>1, <2>3 DEF IInv, TypeOK
    <2>5. ASSUME NEW n \in Mutexes, NEW j \in 1 .. Len(waitq'[n])
          PROVE  waitq'[n][j] \in Threads \ {t, w}
        <3>1. waitq'[n][j] \in Threads BY <2>4
        <3>2. CASE n = m
            <4>1. waitq'[n] = q BY <1>1, <2>3, <3>2 DEF IInv, TypeOK
            <4>2. j + 1 \in 1 .. Len(waitq[m]) /\ waitq'[n][j] = waitq[m][j + 1] /\ j + 1 # 1
                BY <1>4, <2>1, <4>1
            <4>3. /\ pc[waitq[m][j + 1]] = "waiting"
                  /\ waitq[m][j + 1] = waitq[m][1] => j + 1 = 1
                BY <1>1, <1>4, <4>2 DEF IInv, WaitersWait
            <4>4. QED BY <1>1, <1>5, <3>1, <4>2, <4>3
        <3>3. CASE n # m
            <4>1. waitq'[n] = waitq[n] BY <1>1, <2>3, <3>3 DEF IInv, TypeOK
            <4>2. pc[waitq[n][j]] = "waiting" /\ arg[waitq[n][j]] = n
                BY <4>1 DEF IInv, WaitersWait
            <4>3. QED BY <1>1, <1>5, <3>1, <3>3, <4>1, <4>2
        <3>4. QED BY <3>2, <3>3
    <2>6. ASSUME NEW n \in Mutexes, NEW j \in 1 .. Len(waitq'[n])
          PROVE  /\ pc[waitq'[n][j]] = "waiting" /\ arg[waitq'[n][j]] = n
                 /\ \A l \in 1 .. Len(waitq'[n]) : waitq'[n][j] = waitq'[n][l] => j = l
        <3>1. CASE n = m
            <4>1. waitq'[n] = q BY <1>1, <2>3, <3>1 DEF IInv, TypeOK
            <4>2. j + 1 \in 1 .. Len(waitq[m]) /\ waitq'[n][j] = waitq[m][j + 1]
                BY <1>4, <2>1, <4>1
            <4>3. /\ pc[waitq[m][j + 1]] = "waiting" /\ arg[waitq[m][j + 1]] = m
                BY <1>1, <4>2 DEF IInv, WaitersWait
            <4>4. ASSUME NEW l \in 1 .. Len(waitq'[n]), waitq'[n][j] = waitq'[n][l]
                  PROVE  j = l
                <5>1. l + 1 \in 1 .. Len(waitq[m]) /\ waitq'[n][l] = waitq[m][l + 1]
                    BY <1>4, <2>1, <4>1
                <5>2. j + 1 = l + 1
                    BY <1>1, <4>2, <4>4, <5>1 DEF IInv, WaitersWait
                <5>3. QED BY <5>2
            <4>5. QED BY <3>1, <4>2, <4>3, <4>4
        <3>2. CASE n # m
            <4>1. waitq'[n] = waitq[n] BY <1>1, <2>3, <3>2 DEF IInv, TypeOK
            <4>2. QED BY <4>1 DEF IInv, WaitersWait
        <3>3. QED BY <3>1, <3>2
    <2>7. \A u \in Threads \ {t, w} : pc'[u] = pc[u] /\ arg'[u] = arg[u]
        BY <1>1, <1>5 DEF IInv, TypeOK
    <2>8. WaitersWait'
        <3> SUFFICES ASSUME NEW n \in Mutexes, NEW j \in 1 .. Len(waitq'[n])
                     PROVE  /\ pc'[waitq'[n][j]] = "waiting"
                            /\ arg'[waitq'[n][j]] = n
                            /\ \A l \in 1 .. Len(waitq'[n]) :
                                   waitq'[n][j] = waitq'[n][l] => j = l
            BY DEF WaitersWait
        <3>1. QED BY <2>5, <2>6, <2>7
    <2>9. QED BY <2>4, <2>8
<1> HIDE DEF w
<1>8. \A u \in Threads, n \in Mutexes :
          /\ Acquiring(u, n)' = (Acquiring(u, n) \/ (u = w /\ n = m))
          /\ Leaving(u, n)' = (u = t /\ n = m)
    BY <1>1, <1>2, <1>5 DEF IInv, TypeOK, Acquiring, Leaving
<1>9. /\ \A n \in Mutexes : loctsk'[n] = IF n = m THEN w ELSE loctsk[n]
      /\ \A u \in Threads, n \in Mutexes :
             depth'[u][n] = IF u = t /\ n = m THEN 0 ELSE depth[u][n]
      /\ depth' \in [Threads -> [Mutexes -> Nat]]
    <2>1. \A n \in Mutexes : loctsk'[n] = IF n = m THEN w ELSE loctsk[n]
        BY <1>1 DEF IInv, TypeOK
    <2>2. \A u \in Threads, n \in Mutexes :
              depth'[u][n] = IF u = t /\ n = m THEN depth[u][n] - 1 ELSE depth[u][n]
        BY <1>1 DEF IInv, TypeOK
    <2>3. depth' \in [Threads -> [Mutexes -> Nat]]
        <3>1. depth \in [Threads -> [Mutexes -> Nat]] BY DEF IInv, TypeOK
        <3>2. depth[t][m] - 1 \in Nat BY <1>2
        <3>3. [depth[t] EXCEPT ![m] = depth[t][m] - 1] \in [Mutexes -> Nat]
            BY <3>1, <3>2
        <3>4. depth' = [depth EXCEPT ![t] = [depth[t] EXCEPT ![m] = depth[t][m] - 1]]
            BY <1>1
        <3>5. QED BY <3>1, <3>3, <3>4
    <2>4. \A u \in Threads, n \in Mutexes :
              depth'[u][n] = IF u = t /\ n = m THEN 0 ELSE depth[u][n]
        BY <1>2, <2>2
    <2>5. QED BY <2>1, <2>3, <2>4
<1>10. lastmtx' \in [Threads -> Seq(Mutexes)]
    BY <1>1, <1>2, <1>5
<1> HIDE DEF m, popped
<1>11. TypeOK'
    BY <1>1, <1>5, <1>6, <1>7, <1>9, <1>10 DEF IInv, TypeOK, Labels
<1>12. MidwayRuns'
    BY <1>1, <1>2, <1>5, <1>6 DEF IInv, TypeOK, MidwayRuns, Running
<1>13. ListedHeld'
    <2> SUFFICES ASSUME NEW u \in Threads, NEW i \in 1 .. Len(lastmtx'[u])
                 PROVE  /\ loctsk'[lastmtx'[u][i]] = u
                        /\ \A j \in 1 .. Len(lastmtx'[u]) :
                               lastmtx'[u][i] = lastmtx'[u][j] => i = j
        BY DEF ListedHeld
    <2>0. popped[u] \in Seq(Mutexes) /\ Len(popped[u]) \in Nat
        <3>1. popped[u] \in Seq(Mutexes) BY <1>2
        <3>2. QED BY <3>1
    <2>1. CASE u # w
        <3>1. lastmtx'[u] = popped[u] BY <1>1, <1>2, <2>1
        <3>2. /\ loctsk[popped[u][i]] = u
              /\ popped[u][i] \in Mutexes \ {m}
              /\ \A j \in 1 .. Len(popped[u]) : popped[u][i] = popped[u][j] => i = j
            BY <1>3, <3>1
        <3>3. QED BY <1>9, <3>1, <3>2
    <2>2. CASE u = w
        <3>1. lastmtx'[u] = Append(popped[u], m)
            BY <1>1, <1>2, <2>2
        <3>2. /\ Len(lastmtx'[u]) = Len(popped[u]) + 1
              /\ lastmtx'[u][Len(popped[u]) + 1] = m
              /\ \A k \in 1 .. Len(popped[u]) : lastmtx'[u][k] = popped[u][k]
            BY <1>1, <2>0, <3>1, AppendProperties
        <3>3. CASE i = Len(popped[u]) + 1
            <4>1. lastmtx'[u][i] = m BY <3>2, <3>3
            <4>2. ASSUME NEW j \in 1 .. Len(lastmtx'[u]), lastmtx'[u][j] = m
                  PROVE  j = i
                BY <1>3, <2>0, <3>2, <3>3, <4>2
            <4>3. QED BY <1>1, <1>9, <2>2, <4>1, <4>2
        <3>4. CASE i \in 1 .. Len(popped[u])
            <4>1. lastmtx'[u][i] = popped[u][i] BY <3>2, <3>4
            <4>2. ASSUME NEW j \in 1 .. Len(lastmtx'[u]), lastmtx'[u][i] = lastmtx'[u][j]
                  PROVE  i = j
                <5>1. j # Len(popped[u]) + 1
                    BY <1>3, <3>2, <3>4, <4>1, <4>2
                <5>2. j \in 1 .. Len(popped[u]) BY <2>0, <3>2, <5>1
                <5>3. QED BY <1>3, <3>2, <3>4, <4>1, <4>2, <5>2
            <4>3. loctsk[popped[u][i]] = u /\ popped[u][i] \in Mutexes \ {m}
                BY <1>3, <3>4
            <4>4. loctsk'[lastmtx'[u][i]] = u
                BY <1>9, <4>1, <4>3
            <4>5. QED BY <4>2, <4>4
        <3>5. QED BY <2>0, <3>2, <3>3, <3>4
    <2>3. QED BY <2>1, <2>2
<1>14. MidwayHeld'
    <2> SUFFICES ASSUME NEW u \in Threads, pc'[u] \in {"locked", "counting"}
                 PROVE  loctsk'[arg[u]] = u
        BY <1>1 DEF MidwayHeld
    <2>0. pc \in [Threads -> Labels] /\ arg[u] \in Mutexes BY DEF IInv, TypeOK
    <2>1. CASE u = w BY <1>1, <1>5, <1>9, <2>1
    <2>2. CASE u # w
        <3>1. u # t /\ pc[u] \in {"locked", "counting"} BY <1>1, <1>5, <2>0, <2>2
        <3>2. loctsk[arg[u]] = u BY <3>1 DEF IInv, MidwayHeld
        <3>3. arg[u] # m BY <1>2, <3>1, <3>2
        <3>4. QED BY <1>9, <2>0, <3>2, <3>3
    <2>3. QED BY <2>1, <2>2
<1>15. OwnerKnown'
    <2> SUFFICES ASSUME NEW n \in Mutexes, NEW u \in Threads
                 PROVE  /\ loctsk'[n] = u /\ ~Acquiring(u, n)' => tskid[n] = u
                        /\ tskid[n] = u => loctsk'[n] = u \/ Leaving(u, n)'
        BY <1>1 DEF OwnerKnown
    <2>1. /\ loctsk[n] = u /\ ~Acquiring(u, n) => tskid[n] = u
          /\ tskid[n] = u => loctsk[n] = u \/ Leaving(u, n)
        BY DEF IInv, OwnerKnown
    <2>2. CASE n = m BY <1>2, <1>8, <1>9, <2>2
    <2>3. CASE n # m
        <3>1. ~Leaving(u, n) BY <1>1, <1>2 DEF Leaving
        <3>2. QED BY <1>8, <1>9, <2>1, <2>3, <3>1
    <2>4. QED BY <2>2, <2>3
<1>16. DepthKnown'
    <2> SUFFICES ASSUME NEW u \in Threads, NEW n \in Mutexes
                 PROVE  depth'[u][n] = IF loctsk'[n] = u /\ ~Acquiring(u, n)'
                                       THEN count[n] + 1 ELSE 0
        BY <1>1 DEF DepthKnown
    <2>1. depth[u][n] = IF loctsk[n] = u /\ ~Acquiring(u, n) THEN count[n] + 1 ELSE 0
        BY DEF IInv, DepthKnown
    <2>2. CASE n = m BY <1>2, <1>5, <1>8, <1>9, <2>1, <2>2
    <2>3. CASE n # m BY <1>8, <1>9, <2>1, <2>3
    <2>4. QED BY <2>2, <2>3
<1>17. CountZero'
    <2> SUFFICES ASSUME NEW n \in Mutexes, count[n] > 0
                 PROVE  \E u \in Threads : loctsk'[n] = u /\ ~Acquiring(u, n)'
        BY <1>1 DEF CountZero
    <2>1. n # m BY <1>2
    <2>2. PICK u \in Threads : loctsk[n] = u /\ ~Acquiring(u, n)
        BY DEF IInv, CountZero
    <2>3. QED BY <1>8, <1>9, <2>1, <2>2
<1>18. UnlockBottom'
    BY <1>1, <1>2, <1>5 DEF IInv, TypeOK, UnlockBottom
<1>19. LeavingGone'
    <2> SUFFICES ASSUME NEW u \in Threads, NEW v \in Threads,
                        pc'[u] = "unlocked", loctsk'[arg[u]] = v
                 PROVE  pc'[v] = "locked" /\ arg[v] = arg[u]
        BY <1>1 DEF LeavingGone, Acquiring
    <2>0. pc \in [Threads -> Labels] BY DEF IInv, TypeOK
    <2>1. u = t BY <1>1, <1>2, <1>5, <2>0
    <2>2. arg[u] = m BY <2>1 DEF m
    <2>3. v = w BY <1>1, <1>9, <2>2
    <2>4. QED BY <1>1, <1>5, <2>0, <2>2, <2>3
<1>20. QED
    BY <1>7, <1>11, <1>12, <1>13, <1>14, <1>15, <1>16, <1>17, <1>18, <1>19 DEF IInv

-----------------------------------------------------------------------------
(* Every step of the specification preserves the invariant. *)
LEMMA StepInv == ASSUME IInv, SamePriority, [Next]_vars PROVE IInv'
<1>1. ASSUME NEW t \in Threads, NEW m \in Mutexes, Acquire(t, m) PROVE IInv'
    BY <1>1, LockFreeInv, LockOwnInv, LockPollInv, LockWaitInv DEF Acquire
<1>2. ASSUME NEW t \in Threads, NEW m \in Mutexes, Release(t, m) PROVE IInv'
    BY <1>2, ReleaseNestedInv, ReleaseLastInv
<1>3. ASSUME NEW t \in Threads, Unlock(t) PROVE IInv'
    BY <1>3, UnlockFreeInv, HandOverInv
<1>4. ASSUME NEW t \in Threads, Step(t) PROVE IInv'
    BY <1>1, <1>2, <1>3, <1>4, AcquireReturnsInv, NestReturnsInv, UnlockRefusedInv,
       ReleaseReturnsInv, SleepInv, WakeInv, YieldInv
    DEF Step
<1>5. ASSUME NEW m \in Mutexes, NEW i \in 1 .. Len(waitq[m]), Timeout(m, i)
      PROVE  IInv'
    BY <1>5, TimeoutInv
<1>6. CASE UNCHANGED vars
    <2> USE <1>6 DEF vars, kernel, wrapper
    <2>1. TypeOK' /\ MidwayRuns' BY DEF IInv, TypeOK, MidwayRuns, Running
    <2>2. WaitersWait' /\ ListedHeld' /\ MidwayHeld'
        BY DEF IInv, WaitersWait, ListedHeld, MidwayHeld
    <2>3. OwnerKnown' /\ DepthKnown' /\ CountZero'
        BY DEF IInv, OwnerKnown, DepthKnown, CountZero, Acquiring, Leaving
    <2>4. UnlockBottom' /\ LeavingGone'
        BY DEF IInv, UnlockBottom, LeavingGone, Acquiring
    <2>5. QED BY <2>1, <2>2, <2>3, <2>4 DEF IInv
<1>7. QED BY <1>4, <1>5, <1>6 DEF Next

(* The strengthening of every invariant below holds in every state. *)
THEOREM Inductive == SamePriority => (Spec => []IInv)
<1> SUFFICES ASSUME SamePriority PROVE Spec => []IInv
    OBVIOUS
<1>1. Init => IInv BY InitInv
<1>2. IInv /\ [Next]_vars => IInv' BY StepInv
<1>3. QED BY <1>1, <1>2, PTL DEF Spec

(* The queues, lists and counters keep their types: in particular count    *)
(* never goes below zero and a queue never names anything but a thread.    *)
THEOREM TypeCorrect == SamePriority => (Spec => []TypeOK)
<1> SUFFICES ASSUME SamePriority PROVE Spec => []TypeOK
    OBVIOUS
<1>1. Spec => []IInv BY Inductive
<1>2. IInv => TypeOK BY DEF IInv
<1>3. QED BY <1>1, <1>2, PTL

(* osMutexAcquire and osMutexRelease keep a mutex with the thread whose    *)
(* acquisitions outnumber its releases, for any number of threads and      *)
(* mutexes and any nesting, provided all its users have one priority.      *)
THEOREM Exclusion == SamePriority => (Spec => []HoldsLock)
<1> SUFFICES ASSUME SamePriority PROVE Spec => []HoldsLock
    OBVIOUS
<1>1. Spec => []IInv BY Inductive
<1>2. IInv => HoldsLock BY DEF IInv, DepthKnown, HoldsLock
<1>3. QED BY <1>1, <1>2, PTL

(* A nesting count left in rtos_mutex_t is the current owner's. *)
THEOREM NestingCounted == SamePriority => (Spec => []CountIsNesting)
<1> SUFFICES ASSUME SamePriority PROVE Spec => []CountIsNesting
    OBVIOUS
<1>1. Spec => []IInv BY Inductive
<1>2. IInv => CountIsNesting BY DEF IInv, DepthKnown, CountZero, CountIsNesting
<1>3. QED BY <1>1, <1>2, PTL

-----------------------------------------------------------------------------
(* A step changes the nesting of at most one thread and mutex, by one. *)
LEMMA StepAbstract ==
    ASSUME IInv, IInv', [Next]_vars
    PROVE  [Abstract!Next]_depth
<1>1. ASSUME NEW t \in Threads, NEW m \in Mutexes, depth[t][m] > 0,
             depth' = [depth EXCEPT ![t][m] = @ - 1]
      PROVE  Abstract!Next
    BY <1>1 DEF Abstract!Next, Abstract!Release
<1>2. ASSUME NEW t \in Threads, NEW m \in Mutexes,
             depth' = [depth EXCEPT ![t][m] = @ + 1]
      PROVE  Abstract!Next
    <2>1. depth'[t][m] > 0 BY <1>2 DEF IInv, TypeOK
    <2>2. loctsk'[m] = t BY <2>1 DEF IInv, DepthKnown
    <2>3. ASSUME NEW u \in Threads \ {t} PROVE depth[u][m] = 0
        <3>1. depth'[u][m] = 0 BY <2>2 DEF IInv, DepthKnown
        <3>2. depth'[u][m] = depth[u][m] BY <1>2 DEF IInv, TypeOK
        <3>3. QED BY <3>1, <3>2
    <2>4. QED BY <1>2, <2>3 DEF Abstract!Next, Abstract!Acquire, Abstract!Free
<1>3. ASSUME NEW t \in Threads, Step(t) PROVE [Abstract!Next]_depth
    <2>1. CASE \E m \in Mutexes : Acquire(t, m)
        BY <2>1 DEF Acquire
    <2>2. ASSUME NEW m \in Mutexes, Release(t, m) PROVE [Abstract!Next]_depth
        <3>1. CASE Nested(t, m)
            <4>1. depth' = [depth EXCEPT ![t][m] = @ - 1]
                BY <2>2, <3>1 DEF Release
            <4>2. loctsk[m] = t /\ ~Acquiring(t, m)
                BY <2>2, <3>1 DEF Release, Nested, IInv, OwnerKnown, Acquiring, Leaving
            <4>3. depth[t][m] > 0
                <5>1. depth[t][m] = count[m] + 1 BY <4>2 DEF IInv, DepthKnown
                <5>2. count[m] \in Nat BY DEF IInv, TypeOK
                <5>3. QED BY <5>1, <5>2
            <4>4. QED BY <1>1, <4>1, <4>3
        <3>2. CASE ~Nested(t, m) BY <2>2, <3>2 DEF Release
        <3>3. QED BY <3>1, <3>2
    <2>3. CASE AcquireReturns(t)
        BY <1>2, <2>3 DEF AcquireReturns, IInv, TypeOK
    <2>4. CASE NestReturns(t)
        BY <1>2, <2>4 DEF NestReturns, IInv, TypeOK
    <2>5. CASE Unlock(t)
        <3>1. arg[t] \in Mutexes BY DEF IInv, TypeOK
        <3>2. depth[t][arg[t]] = 1
            BY <2>5, <3>1, UnlockFacts DEF Unlock
        <3>3. depth' = [depth EXCEPT ![t][arg[t]] = @ - 1]
            BY <2>5 DEF Unlock
        <3>4. depth[t][arg[t]] > 0 BY <3>2
        <3>5. QED BY <1>1, <3>1, <3>3, <3>4
    <2>6. CASE UnlockRefused(t) \/ ReleaseReturns(t) \/ Sleep(t) \/ Wake(t) \/ Yield(t)
        BY <2>6 DEF UnlockRefused, ReleaseReturns, Sleep, Wake, Yield
    <2>7. QED BY <1>3, <2>1, <2>2, <2>3, <2>4, <2>5, <2>6 DEF Step
<1>4. ASSUME NEW m \in Mutexes, NEW i \in 1 .. Len(waitq[m]), Timeout(m, i)
      PROVE  UNCHANGED depth
    BY <1>4 DEF Timeout
<1>5. CASE UNCHANGED vars BY <1>5 DEF vars
<1>6. QED BY <1>3, <1>4, <1>5 DEF Next

(* RTOS.cpp's mutex is a recursive mutex: every behaviour of the wrapper   *)
(* over the kernel is one of RecursiveMutex.                               *)
THEOREM Refinement == SamePriority => (Spec => ImplementsRecursiveMutex)
<1> SUFFICES ASSUME SamePriority PROVE Spec => Abstract!Spec
    BY DEF ImplementsRecursiveMutex
<1>1. Spec => []IInv BY Inductive
<1>2. Init => Abstract!Init BY DEF Init, Abstract!Init
<1>3. IInv /\ IInv' /\ [Next]_vars => [Abstract!Next]_depth BY StepAbstract
<1>4. QED BY <1>1, <1>2, <1>3, PTL DEF Spec, Abstract!Spec

=============================================================================

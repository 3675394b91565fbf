---------------------------- MODULE Threads_proofs ----------------------------
(***************************************************************************)
(* What every thread of the application rests on.  First the loop it runs, *)
(* TaskThread, for any subtasks, any signals and any timers; then the      *)
(* search each of its calls of the RTOS begins with, ObjectList, for any   *)
(* number of objects and of threads that search.  The two share nothing.   *)
(***************************************************************************)
EXTENDS TaskThread, ObjectList, FiniteSetTheorems, TLAPS

(* Progress leaves a timer the loop can wait with. *)
LEMMA ProgressTimer ==
    ASSUME NEW d \in Timers, NEW e \in Nat
    PROVE  Progress(d, e) \in Timers
BY BoundsAssumption DEF Progress, Timers, Forever

(* What a turn of GetTimer's loop is for: the result is no longer than the *)
(* timer it came to, nor than any the result so far was good for.          *)
Within(l, d) == d # Forever => l # Forever /\ l <= d

LEMMA ShorterWithin ==
    ASSUME NEW l \in Timers, NEW d \in Timers, NEW e \in Timers
    PROVE  /\ Shorter(l, d) \in Timers
           /\ Within(Shorter(l, d), d)
           /\ Within(l, e) => Within(Shorter(l, d), e)
BY BoundsAssumption DEF Shorter, Within, Timers, Forever

-----------------------------------------------------------------------------
(* GetTimer's loop has respected every timer it has seen; from its end to  *)
(* the end of the wait these are all the timers, and they stand still.     *)
Scanned ==
    /\ pc = "scan" => \A k \in Tasks : k < scan => Within(limit, timer[k])
    /\ pc = "waiting" => \A k \in Tasks : Within(limit, timer[k])

(* A wait is not over: nothing is flagged, and its time has not passed. *)
Asleep ==
    pc = "waiting" =>
        flags = {} /\ since <= elapsed /\ (limit # Forever => elapsed <= since + limit)

(* While ProcessEvent runs, nothing is owed that signal_clr is about to    *)
(* erase; and the clock is read after every wait.                          *)
IInv ==
    /\ TypeOK /\ NoOtherSignalLost /\ Scanned /\ Asleep
    /\ pc = "event" => owed \cap evt = {}
    /\ elapsed > MaxBusy => pc \in {"waiting", "clear", "woken", "awake"}

LEMMA StepInv == ASSUME IInv, [Next]_vars PROVE IInv'
<1> USE BoundsAssumption, CountAssumption
    DEF IInv, NoOtherSignalLost, Scanned, Asleep, Tasks
<1>1. ASSUME NEW s \in Signals, Signal(s) PROVE IInv'
    BY <1>1 DEF Signal, TypeOK
<1>2. CASE Tick
    BY <1>2 DEF Tick, TypeOK, Timers
<1>3. CASE Begin
    BY <1>3 DEF Begin, TypeOK, Timers
<1>4. CASE Look
    <2>1. /\ limit' \in Timers
          /\ Within(limit', timer[scan])
          /\ \A k \in Tasks : Within(limit, timer[k]) => Within(limit', timer[k])
        BY <1>4, ShorterWithin DEF Look, TypeOK
    <2>2. \A k \in Tasks : k < scan' => k < scan \/ k = scan
        BY <1>4 DEF Look, TypeOK
    <2>3. Scanned' BY <1>4, <2>1, <2>2 DEF Look
    <2>4. QED BY <1>4, <2>1, <2>3 DEF Look, TypeOK
<1>5. CASE Take
    BY <1>5 DEF Take, TypeOK
<1>6. CASE Poll
    BY <1>6 DEF Poll, TypeOK
<1>7. CASE Wait
    <2>1. since' \in 0 .. MaxBusy /\ (limit # Forever => limit >= 0)
        BY <1>7 DEF Wait, TypeOK, Timers
    <2>2. Scanned' BY <1>7 DEF Wait, TypeOK
    <2>3. Asleep' BY <1>7, <2>1 DEF Wait, TypeOK, Timers
    <2>4. QED BY <1>7, <2>1, <2>2, <2>3 DEF Wait, TypeOK
<1>8. CASE ClearTaken
    BY <1>8 DEF ClearTaken, TypeOK
<1>9. CASE TimedOut
    BY <1>9 DEF TimedOut, TypeOK
<1>10. CASE Yield
    BY <1>10 DEF Yield, TypeOK
<1>11. CASE RivalYields
    BY <1>11 DEF RivalYields, TypeOK
<1>12. CASE Advance
    <2>1. timer' \in [Tasks -> Timers]
        BY <1>12, ProgressTimer DEF Advance, TypeOK
    <2>2. QED BY <1>12, <2>1 DEF Advance, TypeOK
<1>13. ASSUME NEW k \in Tasks, NEW d \in Timers, SetTimer(k, d) PROVE IInv'
    BY <1>13 DEF SetTimer, TypeOK
<1>14. CASE SignalClr
    BY <1>14 DEF SignalClr, TypeOK
<1>15. CASE Processed
    BY <1>15 DEF Processed, TypeOK
<1>16. CASE UNCHANGED vars
    BY <1>16 DEF vars, TypeOK
<1>17. QED
    BY <1>1, <1>2, <1>3, <1>4, <1>5, <1>6, <1>7, <1>8, <1>9, <1>10, <1>11,
       <1>12, <1>13, <1>14, <1>15, <1>16
    DEF Next, Loop, Subtask

LEMMA Inductive == Spec => []IInv
<1>1. Init => IInv
    BY BoundsAssumption, CountAssumption
    DEF Init, IInv, TypeOK, NoOtherSignalLost, Scanned, Asleep, Timers
<1>2. IInv /\ [Next]_vars => IInv' BY StepInv
<1>3. QED BY <1>1, <1>2, PTL DEF Spec

(* Whoever raises a signal, and whenever, it is lost only if ProcessEvent  *)
(* was handling the same bit at that moment.                               *)
THEOREM SignalsKept == Spec => []NoOtherSignalLost
<1>1. IInv => NoOtherSignalLost BY DEF IInv
<1>2. QED BY Inductive, <1>1, PTL

(* Whatever timers however many subtasks set, and however long the loop    *)
(* was busy before, GetTimer's loop ends with a timeout the kernel ends    *)
(* the wait by before any of the timers is slept over.                     *)
THEOREM WakesInTime == Spec => []NoOversleep
<1>1. IInv => NoOversleep
    BY BoundsAssumption
    DEF IInv, NoOversleep, Scanned, Asleep, Within, TypeOK, Timers, Forever
<1>2. QED BY Inductive, <1>1, PTL

(* Types: every timer and signal stays in its range.                       *)
THEOREM TypeCorrect == Spec => []TypeOK
<1>1. IInv => TypeOK BY DEF IInv
<1>2. QED BY Inductive, <1>1, PTL

-----------------------------------------------------------------------------
(* The invariant of a list, with the order r of its items.                 *)

(* Who searches, searches for an item that is listed, and turns within the *)
(* number of items.                                                        *)
Searching ==
    /\ \A t \in Thread : at[t] # "idle" => item[t] \in listed
    /\ \A t \in Thread : at[t] = "step" => i[t] < Cardinality(Item)

(* A search nothing was removed from is at an item that is not behind the  *)
(* one it looks for, and has turns enough left to get there.               *)
OnItsWay(r, t) ==
    clean[t] =>
      /\ at[t] # "fault"
      /\ at[t] = "done" => found[t]
      /\ at[t] \in {"test", "step"} =>
           \E j, m \in 1 .. count :
             /\ pos[t] = r[j] /\ item[t] = r[m]
             /\ j <= m /\ (at[t] = "step" => j < m)
             /\ i[t] + (m - j) < count

(* The entry and the counter agree with what is listed. *)
Counted ==
    /\ listed = {} <=> last = Null
    /\ count = Cardinality(listed)

ListInv ==
    /\ ListTypeOK /\ Searching /\ Counted
    /\ \E r \in [1 .. count -> listed] : Ring(r) /\ \A t \in Thread : OnItsWay(r, t)

-----------------------------------------------------------------------------
(* The ring of a list, and the link from each item to the one after it. *)
LEMMA ListedFinite ==
  ASSUME ListTypeOK
  PROVE  /\ IsFiniteSet(listed) /\ Cardinality(listed) \in Nat
         /\ Cardinality(Item) \in Nat /\ Cardinality(listed) <= Cardinality(Item)
         /\ count \in Nat
  BY ItemAssumption, FS_Subset, FS_CardinalityType DEF ListTypeOK

LEMMA RingLinks ==
  ASSUME ListTypeOK, NEW r \in [1 .. count -> listed], Ring(r)
  PROVE  \A k \in 1 .. count :
           /\ r[k] \in listed
           /\ next[r[k]] = r[IF k = count THEN 1 ELSE k + 1]
           /\ r[k] = last <=> k = count
<1> SUFFICES ASSUME NEW k \in 1 .. count
             PROVE  /\ r[k] \in listed
                    /\ next[r[k]] = r[IF k = count THEN 1 ELSE k + 1]
                    /\ r[k] = last <=> k = count
  OBVIOUS
<1>1. count \in Nat /\ count > 0 /\ count \in 1 .. count
  BY ListedFinite
<1>2. r[count] = last /\ next[last] = r[1]
  BY <1>1 DEF Ring
<1>3. CASE k = count
  BY <1>2, <1>3
<1>4. CASE k # count
  <2>1. k \in 1 .. count - 1
    BY <1>1, <1>4
  <2> QED
    BY <1>1, <1>2, <1>4, <2>1 DEF Ring
<1> QED
  BY <1>3, <1>4

(* The search of rtos_queue_remove for the item before x. *)
LEMMA PrevItem ==
  ASSUME ListTypeOK, NEW r \in [1 .. count -> listed], Ring(r), NEW m \in 1 .. count
  PROVE  Prev(r[m]) = r[IF m = 1 THEN count ELSE m - 1]
<1> DEFINE p == IF m = 1 THEN count ELSE m - 1
<1>1. count \in Nat /\ p \in 1 .. count /\ m = IF p = count THEN 1 ELSE p + 1
  BY ListedFinite
<1> HIDE DEF p
<1>2. r[p] \in listed /\ next[r[p]] = r[m]
  BY <1>1, RingLinks
<1>3. ASSUME NEW q \in listed, next[q] = r[m] PROVE q = r[p]
  <2>1. PICK k \in 1 .. count : q = r[k]
    BY DEF Ring
  <2>2. r[IF k = count THEN 1 ELSE k + 1] = r[m] /\ (IF k = count THEN 1 ELSE k + 1) \in 1 .. count
    BY <1>1, <1>3, <2>1, RingLinks
  <2>3. (IF k = count THEN 1 ELSE k + 1) = m
    BY <2>2 DEF Ring
  <2>4. k = p
    BY <1>1, <2>3
  <2> QED
    BY <2>1, <2>4
<1> QED
  BY <1>2, <1>3 DEF Prev, p

(* A new item becomes the first one. *)
LEMMA AddedFirst ==
  ASSUME ListTypeOK, Counted, NEW r \in [1 .. count -> listed], Ring(r),
         NEW x \in Item, x \notin listed, Add(x),
         NEW s, s = [k \in 1 .. count + 1 |-> IF k = 1 THEN x ELSE r[k - 1]]
  PROVE  s \in [1 .. count' -> listed'] /\ Ring(s)'
<1>1. /\ count \in Nat /\ count' = count + 1 /\ listed' = listed \cup {x}
      /\ next \in [Item -> Item \cup {Null}] /\ listed \subseteq Item
  BY ListedFinite DEF Add, ListTypeOK
<1>2. s[1] = x /\ \A k \in 1 .. count : s[k + 1] = r[k] /\ r[k] \in listed /\ r[k] # x
  BY <1>1
<1>3. \A k \in 1 .. count + 1 : k = 1 \/ \E j \in 1 .. count : k = j + 1
  <2> SUFFICES ASSUME NEW k \in 1 .. count + 1, k # 1 PROVE \E j \in 1 .. count : k = j + 1
    OBVIOUS
  <2>1. k - 1 \in 1 .. count /\ k = (k - 1) + 1
    BY <1>1
  <2> QED
    BY <2>1
<1>4. s \in [1 .. count' -> listed']
  BY <1>1
<1>5. {s[k] : k \in 1 .. count + 1} = listed \cup {x}
  <2>1. \A k \in 1 .. count + 1 : s[k] \in listed \cup {x}
    BY <1>2, <1>3
  <2>2. \A y \in listed : \E k \in 1 .. count + 1 : s[k] = y
    <3> SUFFICES ASSUME NEW y \in listed PROVE \E k \in 1 .. count + 1 : s[k] = y
      OBVIOUS
    <3>1. PICK k \in 1 .. count : y = r[k]
      BY DEF Ring
    <3>2. k + 1 \in 1 .. count + 1 /\ s[k + 1] = y
      BY <1>1, <1>2, <3>1
    <3> QED
      BY <3>2
  <2>3. 1 \in 1 .. count + 1
    BY <1>1
  <2> QED
    BY <1>2, <2>1, <2>2, <2>3
<1>6. \A j, k \in 1 .. count + 1 : s[j] = s[k] => j = k
  <2> SUFFICES ASSUME NEW j \in 1 .. count + 1, NEW k \in 1 .. count + 1, s[j] = s[k]
               PROVE  j = k
    OBVIOUS
  <2>1. CASE j = 1 \/ k = 1
    BY <1>2, <1>3, <2>1
  <2>2. CASE j # 1 /\ k # 1
    <3>1. PICK a \in 1 .. count, b \in 1 .. count : j = a + 1 /\ k = b + 1
      BY <1>3, <2>2
    <3>2. r[a] = r[b]
      BY <1>2, <3>1
    <3>3. a = b
      BY <3>2 DEF Ring
    <3> QED
      BY <3>1, <3>3
  <2> QED
    BY <2>1, <2>2
<1> HIDE DEF Ring
<1>7. /\ \A k \in 1 .. count : next'[s[k]] = s[k + 1]
      /\ s[count + 1] = last' /\ next'[last'] = s[1]
  <2>1. CASE count = 0
    <3>1. last = Null
      BY <2>1, ListedFinite, FS_EmptySet DEF Counted
    <3>2. last' = x /\ next'[x] = x
      BY <1>1, <3>1 DEF Add, Link
    <3> QED
      BY <1>2, <2>1, <3>2
  <2>2. CASE count # 0
    <3>1. count \in 1 .. count /\ 1 \in 1 .. count
      BY <1>1, <2>2
    <3>2. last = r[count] /\ last \in listed /\ next[last] = r[1] /\ last # x /\ last # Null
      <4>1. r[count] = last /\ r[count] \in listed /\ next[r[count]] = r[1]
        BY <3>1, RingLinks
      <4> QED
        BY <1>1, <4>1, NullAssumption
    <3>3. last' = last /\ next' = [next EXCEPT ![x] = next[last], ![last] = x]
      BY <3>2 DEF Add, Link
    <3>4. /\ next'[x] = r[1] /\ next'[last] = x
          /\ \A y \in listed : y # last => next'[y] = next[y]
      BY <1>1, <3>2, <3>3
    <3>5. ASSUME NEW k \in 1 .. count PROVE next'[s[k]] = s[k + 1]
      <4>1. CASE k = 1
        BY <1>2, <3>1, <3>4, <4>1
      <4>2. CASE k # 1
        <5>1. PICK j \in 1 .. count : k = j + 1
          BY <1>1, <1>3, <4>2
        <5>2. j # count /\ j \in Nat
          BY <1>1, <5>1
        <5>3. next[r[j]] = r[j + 1] /\ r[j] # last /\ r[j] \in listed
          BY <5>2, RingLinks
        <5> QED
          BY <1>2, <3>4, <5>1, <5>3
      <4> QED
        BY <4>1, <4>2
    <3>6. s[count + 1] = last
      BY <1>2, <3>1, <3>2
    <3> QED
      BY <1>2, <3>3, <3>4, <3>5, <3>6
  <2> QED
    BY <2>1, <2>2
<1>8. count' - 1 = count /\ count' = count + 1
  BY <1>1
<1> QED
  BY <1>1, <1>4, <1>5, <1>6, <1>7, <1>8 DEF Ring

-----------------------------------------------------------------------------
(* s is r without the item at m, in the order of p. *)
Without(r, s, p, m) ==
    /\ p \in [1 .. count - 1 -> 1 .. count] /\ s \in [1 .. count - 1 -> listed]
    /\ \A j, k \in 1 .. count - 1 : p[j] = p[k] => j = k
    /\ \A k \in 1 .. count - 1 : p[k] # m /\ s[k] = r[p[k]]
    /\ \A k \in 1 .. count : k # m => \E j \in 1 .. count - 1 : p[j] = k

LEMMA RingWithout ==
  ASSUME NEW r \in [1 .. count -> listed], Ring(r), NEW m \in 1 .. count,
         NEW s, NEW p, Without(r, s, p, m)
  PROVE  /\ s \in [1 .. count - 1 -> listed \ {r[m]}]
         /\ {s[k] : k \in 1 .. count - 1} = listed \ {r[m]}
         /\ \A j, k \in 1 .. count - 1 : s[j] = s[k] => j = k
<1>1. /\ s \in [1 .. count - 1 -> listed]
      /\ \A k \in 1 .. count - 1 : s[k] = r[p[k]] /\ p[k] \in 1 .. count /\ p[k] # m
      /\ \A j, k \in 1 .. count - 1 : p[j] = p[k] => j = k
  BY DEF Without
<1>2. \A j, k \in 1 .. count : r[j] = r[k] => j = k
  BY DEF Ring
<1>3. \A k \in 1 .. count - 1 : s[k] \in listed \ {r[m]}
  BY <1>1, <1>2
<1>4. \A j, k \in 1 .. count - 1 : s[j] = s[k] => j = k
  BY <1>1, <1>2
<1>5. ASSUME NEW y \in listed \ {r[m]} PROVE \E k \in 1 .. count - 1 : s[k] = y
  <2>1. PICK k \in 1 .. count : y = r[k]
    BY DEF Ring
  <2>2. PICK j \in 1 .. count - 1 : p[j] = k
    BY <1>5, <2>1 DEF Without
  <2> QED
    BY <1>1, <2>1, <2>2
<1> QED
  BY <1>1, <1>3, <1>4, <1>5

(* An item that is not the last one: its neighbours close up. *)
LEMMA RemovedBefore ==
  ASSUME ListTypeOK, NEW r \in [1 .. count -> listed], Ring(r), NEW m \in 1 .. count,
         m # count, Unlink(r[m]), count' = count - 1, listed' = listed \ {r[m]}
  PROVE  \E s \in [1 .. count' -> listed'] : Ring(s)' /\ last' = s[count'] /\ count' # 0
<1> DEFINE p == [k \in 1 .. count - 1 |-> IF k < m THEN k ELSE k + 1]
           q == IF m = 1 THEN count ELSE m - 1
<1>0. PICK s : s = [k \in 1 .. count - 1 |-> r[p[k]]]
  OBVIOUS
<1>1. count \in Nat /\ m \in Nat /\ 1 <= m /\ m < count /\ m + 1 \in 1 .. count /\ q \in 1 .. count
  BY ListedFinite
<1>2. /\ p \in [1 .. count - 1 -> 1 .. count] /\ \A k \in 1 .. count - 1 : p[k] # m
      /\ s \in [1 .. count - 1 -> listed] /\ \A k \in 1 .. count - 1 : s[k] = r[p[k]]
  BY <1>0, <1>1
<1>3. \A j, k \in 1 .. count - 1 : p[j] = p[k] => j = k
  BY <1>1
<1>4. ASSUME NEW k \in 1 .. count, k # m PROVE \E j \in 1 .. count - 1 : p[j] = k
  <2>1. CASE k < m
    BY <1>1, <2>1
  <2>2. CASE k > m
    <3>1. k - 1 \in 1 .. count - 1 /\ p[k - 1] = k
      BY <1>1, <2>2
    <3> QED
      BY <3>1
  <2> QED
    BY <1>1, <1>4, <2>1, <2>2
<1>5. /\ s \in [1 .. count - 1 -> listed']
      /\ {s[k] : k \in 1 .. count - 1} = listed'
      /\ \A j, k \in 1 .. count - 1 : s[j] = s[k] => j = k
  <2> HIDE DEF p
  <2>1. Without(r, s, p, m)
    BY <1>2, <1>3, <1>4 DEF Without
  <2>2. /\ s \in [1 .. count - 1 -> listed \ {r[m]}]
        /\ {s[k] : k \in 1 .. count - 1} = listed \ {r[m]}
        /\ \A j, k \in 1 .. count - 1 : s[j] = s[k] => j = k
    BY <2>1, RingWithout
  <2> QED
    BY <2>2
<1>6. r[m] # last /\ next[r[m]] = r[m + 1] /\ Prev(r[m]) = r[q] /\ r[q] \in listed
  BY <1>1, RingLinks, PrevItem
<1>7. last' = last /\ next' = [next EXCEPT ![r[q]] = r[m + 1]]
  BY <1>6 DEF Unlink
<1>8. next'[r[q]] = r[m + 1] /\ \A k \in 1 .. count : k # q => next'[r[k]] = next[r[k]]
  BY <1>1, <1>6, <1>7, RingLinks DEF ListTypeOK, Ring
<1>9. s[count - 1] = last /\ next'[last] = s[1]
  <2>1. s[count - 1] = r[count] /\ r[count] = last
    BY <1>0, <1>1, RingLinks
  <2>2. s[1] = IF m = 1 THEN r[2] ELSE r[1]
    BY <1>0, <1>1
  <2>3. CASE m = 1
    BY <1>8, <2>1, <2>2, <2>3
  <2>4. CASE m # 1
    <3>1. q # count /\ count \in 1 .. count
      BY <1>1, <2>4
    <3>2. next'[r[count]] = r[1]
      BY <1>8, <3>1, RingLinks
    <3> QED
      BY <2>1, <2>2, <2>4, <3>2
  <2> QED
    BY <2>3, <2>4
<1>10. ASSUME NEW k \in 1 .. count - 2 PROVE next'[s[k]] = s[k + 1]
  <2>1. CASE k = m - 1
    <3>1. q = k /\ s[k] = r[k] /\ s[k + 1] = r[m + 1]
      BY <1>0, <1>1, <2>1
    <3> QED
      BY <1>8, <3>1
  <2>2. CASE k < m - 1
    <3>1. s[k] = r[k] /\ s[k + 1] = r[k + 1] /\ k # q /\ k \in 1 .. count /\ k # count
      BY <1>0, <1>1, <2>2
    <3> QED
      BY <1>8, <3>1, RingLinks
  <2>3. CASE k >= m
    <3>1. /\ s[k] = r[k + 1] /\ s[k + 1] = r[(k + 1) + 1] /\ k + 1 # q /\ k + 1 \in 1 .. count
          /\ k + 1 # count
      BY <1>0, <1>1, <2>3
    <3>2. next[r[k + 1]] = r[(k + 1) + 1]
      BY <3>1, RingLinks
    <3> QED
      BY <1>8, <3>1, <3>2
  <2> QED
    BY <1>1, <2>1, <2>2, <2>3
<1>11. count' - 1 = count - 2 /\ count' = count - 1 /\ count' # 0
  BY <1>1
<1> HIDE DEF p, q
<1>12. Ring(s)'
  BY <1>5, <1>7, <1>9, <1>10, <1>11 DEF Ring
<1> QED
  BY <1>5, <1>7, <1>9, <1>11, <1>12

(* The last item: the first one becomes the last. *)
LEMMA RemovedLast ==
  ASSUME ListTypeOK, NEW r \in [1 .. count -> listed], Ring(r), count \in Nat, count > 1,
         Unlink(r[count]), count' = count - 1, listed' = listed \ {r[count]}
  PROVE  \E s \in [1 .. count' -> listed'] : Ring(s)' /\ last' = s[count'] /\ count' # 0
<1> DEFINE p == [k \in 1 .. count - 1 |-> IF k = count - 1 THEN 1 ELSE k + 1]
<1>0. PICK s : s = [k \in 1 .. count - 1 |-> r[p[k]]]
  OBVIOUS
<1>1. count \in 1 .. count /\ count - 1 \in 1 .. count /\ 1 \in 1 .. count
  OBVIOUS
<1>2. /\ p \in [1 .. count - 1 -> 1 .. count] /\ \A k \in 1 .. count - 1 : p[k] # count
      /\ s \in [1 .. count - 1 -> listed] /\ \A k \in 1 .. count - 1 : s[k] = r[p[k]]
  BY <1>0
<1>3. \A j, k \in 1 .. count - 1 : p[j] = p[k] => j = k
  OBVIOUS
<1>4. ASSUME NEW k \in 1 .. count, k # count PROVE \E j \in 1 .. count - 1 : p[j] = k
  <2>1. CASE k = 1
    <3>1. count - 1 \in 1 .. count - 1 /\ p[count - 1] = 1
      OBVIOUS
    <3> QED
      BY <2>1, <3>1
  <2>2. CASE k # 1
    <3>1. k - 1 \in 1 .. count - 1 /\ p[k - 1] = k
      BY <1>4, <2>2
    <3> QED
      BY <3>1
  <2> QED
    BY <2>1, <2>2
<1>5. /\ s \in [1 .. count - 1 -> listed']
      /\ {s[k] : k \in 1 .. count - 1} = listed'
      /\ \A j, k \in 1 .. count - 1 : s[j] = s[k] => j = k
  <2> HIDE DEF p
  <2>1. Without(r, s, p, count)
    BY <1>2, <1>3, <1>4 DEF Without
  <2>2. /\ s \in [1 .. count - 1 -> listed \ {r[count]}]
        /\ {s[k] : k \in 1 .. count - 1} = listed \ {r[count]}
        /\ \A j, k \in 1 .. count - 1 : s[j] = s[k] => j = k
    BY <1>1, <2>1, RingWithout
  <2> QED
    BY <2>2
<1>6. /\ r[count] = last /\ next[last] = r[1] /\ r[1] # last
      /\ Prev(last) = r[count - 1] /\ r[count - 1] \in listed
  BY <1>1, RingLinks, PrevItem
<1>7. last' = r[1] /\ next' = [next EXCEPT ![r[count - 1]] = r[1]]
  BY <1>6 DEF Unlink
<1>8. /\ next'[r[count - 1]] = r[1]
      /\ \A k \in 1 .. count : k # count - 1 => next'[r[k]] = next[r[k]]
  BY <1>1, <1>6, <1>7, RingLinks DEF ListTypeOK, Ring
<1>9. s[count - 1] = r[1] /\ next'[r[1]] = s[1]
  <2>1. s[count - 1] = r[1] /\ s[1] = IF count = 2 THEN r[1] ELSE r[2]
    BY <1>0, <1>1
  <2>2. CASE count = 2
    BY <1>8, <2>1, <2>2
  <2>3. CASE count # 2
    <3>1. next[r[1]] = r[2]
      BY <1>1, RingLinks
    <3> QED
      BY <1>1, <1>8, <2>1, <2>3, <3>1
  <2> QED
    BY <2>1, <2>2, <2>3
<1>10. ASSUME NEW k \in 1 .. count - 2 PROVE next'[s[k]] = s[k + 1]
  <2>1. s[k] = r[k + 1] /\ k + 1 \in 1 .. count /\ k + 1 # count
    BY <1>0
  <2>2. CASE k + 1 = count - 1
    <3>1. s[k + 1] = r[1] /\ r[k + 1] = r[count - 1]
      BY <1>0, <2>2
    <3> QED
      BY <1>8, <2>1, <3>1
  <2>3. CASE k + 1 # count - 1
    <3>1. s[k + 1] = r[(k + 1) + 1]
      BY <1>0, <2>3
    <3>2. next[r[k + 1]] = r[(k + 1) + 1]
      BY <2>1, RingLinks
    <3> QED
      BY <1>8, <2>1, <2>3, <3>1, <3>2
  <2> QED
    BY <2>2, <2>3
<1>11. count' - 1 = count - 2 /\ count' = count - 1 /\ count' # 0
  OBVIOUS
<1> HIDE DEF p
<1>12. Ring(s)'
  BY <1>5, <1>7, <1>9, <1>10, <1>11 DEF Ring
<1> QED
  BY <1>5, <1>7, <1>9, <1>11, <1>12

(* What a removal leaves is a ring again. *)
LEMMA Removed ==
  ASSUME ListTypeOK, Counted, NEW r \in [1 .. count -> listed], Ring(r),
         NEW x \in Item, Remove(x)
  PROVE  Counted' /\ count' \in 0 .. Cardinality(Item) /\ last' \in Item \cup {Null}
         /\ next' \in [Item -> Item \cup {Null}]
         /\ \E s \in [1 .. count' -> listed'] : Ring(s)'
<1>1. x \in listed /\ Unlink(x) /\ count' = count - 1 /\ listed' = listed \ {x}
  BY DEF Remove, CountLess
<1>2. count \in Nat /\ IsFiniteSet(listed) /\ Cardinality(Item) \in Nat
      /\ count \in 0 .. Cardinality(Item)
      /\ next \in [Item -> Item \cup {Null}] /\ listed \subseteq Item
  BY ListedFinite DEF ListTypeOK
<1>3. PICK m \in 1 .. count : x = r[m]
  BY <1>1 DEF Ring
<1>4. count' = Cardinality(listed') /\ count' \in 0 .. Cardinality(Item)
  <2>1. Cardinality(listed \ {x}) = Cardinality(listed) - 1
    BY <1>1, <1>2, FS_RemoveElement
  <2> QED
    BY <1>1, <1>2, <1>3, <2>1 DEF Counted
<1>5. CASE count = 1
  <2>1. m = 1 /\ m = count
    BY <1>3, <1>5
  <2>2. x = last /\ next[x] = x
    BY <1>3, <2>1, RingLinks
  <2>3. last' = Null /\ next' = next /\ count' = 0
    BY <1>1, <1>5, <2>2 DEF Unlink
  <2>4. listed' = {}
    <3>1. ASSUME NEW y \in listed PROVE y = x
      <4>1. PICK k \in 1 .. count : y = r[k]
        BY DEF Ring
      <4> QED
        BY <1>3, <1>5, <2>1, <4>1
    <3> QED
      BY <1>1, <3>1
  <2>5. PICK s : s = [k \in {} |-> x]
    OBVIOUS
  <2>6. s \in [1 .. count' -> listed'] /\ Ring(s)'
    <3>1. 1 .. count' = {} /\ 1 .. count' - 1 = {} /\ ~(count' > 0)
      BY <2>3
    <3>2. {s[k] : k \in 1 .. count'} = {}
      BY <3>1
    <3> QED
      BY <2>4, <2>5, <3>1, <3>2 DEF Ring
  <2> QED
    BY <1>2, <1>4, <2>3, <2>4, <2>6 DEF Counted
<1>6. CASE count # 1
  <2>1. \E s \in [1 .. count' -> listed'] : Ring(s)' /\ last' = s[count'] /\ count' # 0
    <3>1. CASE m # count
      BY <1>1, <1>3, <3>1, RemovedBefore
    <3>2. CASE m = count
      <4>1. count > 1
        BY <1>2, <1>3, <1>6
      <4> QED
        BY <1>1, <1>2, <1>3, <3>2, <4>1, RemovedLast
    <3> QED
      BY <3>1, <3>2
  <2>2. last' \in listed'
    <3>1. count' \in 1 .. count'
      BY <1>1, <1>2, <2>1
    <3> QED
      BY <2>1, <3>1
  <2>3. last' \in Item /\ last' # Null /\ listed' # {}
    BY <1>1, <1>2, <2>2, NullAssumption
  <2>4. next' \in [Item -> Item \cup {Null}]
    <3>1. next' = next \/ \E y : next' = [next EXCEPT ![y] = next[x]]
      BY <1>1 DEF Unlink
    <3>2. next[x] \in Item \cup {Null}
      BY <1>2
    <3> QED
      BY <1>2, <3>1, <3>2
  <2> QED
    BY <1>4, <2>1, <2>3, <2>4 DEF Counted
<1> QED
  BY <1>5, <1>6

-----------------------------------------------------------------------------
(* The steps that change the list.  An addition puts every search one      *)
(* place further along the ring, and its item too.                         *)
LEMMA AddStep ==
  ASSUME ListInv, NEW x \in Item, Add(x)
  PROVE  ListInv'
<1>1. PICK r \in [1 .. count -> listed] : Ring(r) /\ \A t \in Thread : OnItsWay(r, t)
  BY DEF ListInv
<1>2. /\ x \notin listed /\ Link(x) /\ count' = count + 1 /\ listed' = listed \cup {x}
      /\ UNCHANGED walk /\ ListTypeOK /\ Searching /\ Counted
  BY DEF Add, ListInv
<1>3. PICK s : s = [k \in 1 .. count + 1 |-> IF k = 1 THEN x ELSE r[k - 1]]
  OBVIOUS
<1>4. s \in [1 .. count' -> listed'] /\ Ring(s)'
  BY <1>1, <1>2, <1>3, AddedFirst
<1>5. count \in Nat /\ IsFiniteSet(listed) /\ Cardinality(Item) \in Nat
  BY <1>2, ListedFinite
<1>6. count' = Cardinality(listed') /\ count' \in 0 .. Cardinality(Item)
  <2>1. Cardinality(listed \cup {x}) = count + 1
    BY <1>2, <1>5, FS_AddElement DEF Counted
  <2>2. listed \cup {x} \in SUBSET Item
    BY <1>2 DEF ListTypeOK
  <2>3. Cardinality(listed \cup {x}) <= Cardinality(Item)
    BY <2>2, ItemAssumption, FS_Subset
  <2> QED
    BY <1>2, <1>5, <2>1, <2>3
<1>7. last' \in Item /\ next' \in [Item -> Item \cup {Null}]
  <2>1. last \in Item \cup {Null} /\ next \in [Item -> Item \cup {Null}]
    BY <1>2 DEF ListTypeOK
  <2>2. CASE last = Null
    BY <1>2, <2>1, <2>2 DEF Link
  <2>3. CASE last # Null
    BY <1>2, <2>1, <2>3 DEF Link
  <2> QED
    BY <2>2, <2>3
<1>8. ListTypeOK' /\ Searching' /\ Counted'
  <2>1. ListTypeOK'
    BY <1>2, <1>6, <1>7 DEF ListTypeOK, walk
  <2>2. Searching'
    BY <1>2 DEF Searching, walk
  <2>3. last' # Null
    BY <1>7, NullAssumption
  <2> QED
    BY <1>2, <1>6, <2>1, <2>2, <2>3 DEF Counted
<1>9. ASSUME NEW t \in Thread PROVE OnItsWay(s, t)'
  <2> SUFFICES ASSUME clean[t] PROVE OnItsWay(s, t)'
    BY <1>2 DEF OnItsWay, walk
  <2>1. OnItsWay(r, t) /\ UNCHANGED <<at, item, pos, i, found, clean>>
    BY <1>1, <1>2 DEF walk
  <2>2. CASE at[t] \notin {"test", "step"}
    BY <2>1, <2>2 DEF OnItsWay
  <2>3. CASE at[t] \in {"test", "step"}
    <3>1. PICK j \in 1 .. count, m \in 1 .. count :
            /\ pos[t] = r[j] /\ item[t] = r[m]
            /\ j <= m /\ (at[t] = "step" => j < m)
            /\ i[t] + (m - j) < count
      BY <2>1, <2>3 DEF OnItsWay
    <3>2. s[j + 1] = r[j] /\ s[m + 1] = r[m] /\ j + 1 \in 1 .. count' /\ m + 1 \in 1 .. count'
      BY <1>2, <1>3, <1>5
    <3>3. i[t] \in Nat
      BY <1>2, <1>5 DEF ListTypeOK
    <3>4. /\ j + 1 <= m + 1 /\ (at[t] = "step" => j + 1 < m + 1)
          /\ i[t] + ((m + 1) - (j + 1)) < count'
      BY <1>2, <1>5, <3>1, <3>3
    <3>5. \E a, b \in 1 .. count' :
             /\ pos'[t] = s[a] /\ item'[t] = s[b]
             /\ a <= b /\ (at'[t] = "step" => a < b)
             /\ i'[t] + (b - a) < count'
      BY <2>1, <3>1, <3>2, <3>4
    <3> QED
      BY <2>1, <2>3, <3>5 DEF OnItsWay
  <2> QED
    BY <2>2, <2>3
<1> QED
  BY <1>4, <1>8, <1>9 DEF ListInv

(* After a removal no search is undisturbed. *)
LEMMA RemoveStep ==
  ASSUME ListInv, NEW x \in Item, Remove(x)
  PROVE  ListInv'
<1>1. PICK r \in [1 .. count -> listed] : Ring(r)
  BY DEF ListInv
<1>2. Counted' /\ count' \in 0 .. Cardinality(Item) /\ last' \in Item \cup {Null}
         /\ next' \in [Item -> Item \cup {Null}]
         /\ \E s \in [1 .. count' -> listed'] : Ring(s)'
  BY <1>1, Removed DEF ListInv
<1>3. /\ ~InUse(x) /\ listed' = listed \ {x} /\ clean' = [t \in Thread |-> FALSE]
      /\ UNCHANGED <<at, item, pos, i, found>>
  BY DEF Remove
<1>4. ListTypeOK' /\ Searching'
  BY <1>2, <1>3 DEF ListInv, ListTypeOK, Searching, InUse
<1>5. \A s : \A t \in Thread : OnItsWay(s, t)'
  BY <1>3 DEF OnItsWay
<1> QED
  BY <1>2, <1>4, <1>5 DEF ListInv

(* Memory of items that are not listed is not in the ring. *)
LEMMA ReuseStep ==
  ASSUME ListInv, NEW x \in Item, Reuse(x)
  PROVE  ListInv'
<1>1. PICK r \in [1 .. count -> listed] : Ring(r) /\ \A t \in Thread : OnItsWay(r, t)
  BY DEF ListInv
<1>2. x \notin listed /\ next' = [next EXCEPT ![x] = Null] /\ UNCHANGED <<last, count, listed, walk>>
      /\ ListTypeOK
  BY DEF Reuse, ListInv
<1>3. \A y \in listed : next'[y] = next[y]
  BY <1>2 DEF ListTypeOK
<1>4. count \in Nat /\ \A k \in 1 .. count : r[k] \in listed
  BY <1>2, ListedFinite
<1>5. Ring(r)'
  <2>1. \A k \in 1 .. count - 1 : k \in 1 .. count
    BY <1>4
  <2>2. count > 0 => r[count] \in listed
    BY <1>4
  <2> QED
    BY <1>1, <1>2, <1>3, <1>4, <2>1, <2>2 DEF Ring
<1>6. ListTypeOK' /\ Searching' /\ Counted'
  BY <1>2 DEF ListInv, ListTypeOK, Searching, Counted, walk
<1>7. \A t \in Thread : OnItsWay(r, t)'
  BY <1>1, <1>2 DEF OnItsWay, walk
<1> QED
  BY <1>1, <1>2, <1>5, <1>6, <1>7 DEF ListInv

-----------------------------------------------------------------------------
(* A step of a search leaves the list and the other searches alone. *)
LEMMA SearchStep ==
  ASSUME ListInv, UNCHANGED list, ListTypeOK', Searching', NEW t \in Thread,
         \A u \in Thread \ {t} :
            /\ at'[u] = at[u] /\ item'[u] = item[u] /\ pos'[u] = pos[u] /\ i'[u] = i[u]
            /\ found'[u] = found[u] /\ clean'[u] = clean[u],
         ASSUME NEW r \in [1 .. count -> listed], Ring(r), OnItsWay(r, t)
         PROVE  OnItsWay(r, t)'
  PROVE  ListInv'
<1>1. PICK r \in [1 .. count -> listed] : Ring(r) /\ \A u \in Thread : OnItsWay(r, u)
  BY DEF ListInv
<1>2. UNCHANGED <<last, next, count, listed>>
  BY DEF list
<1>3. Ring(r)' /\ Counted'
  BY <1>1, <1>2 DEF ListInv, Ring, Counted
<1>4. OnItsWay(r, t)'
  BY <1>1
<1>5. ASSUME NEW u \in Thread, u # t PROVE OnItsWay(r, u)'
  BY <1>1, <1>2, <1>5 DEF OnItsWay
<1>6. \A u \in Thread : OnItsWay(r, u)'
  BY <1>4, <1>5
<1> QED
  BY <1>1, <1>2, <1>3, <1>6 DEF ListInv

LEMMA EnterStep ==
  ASSUME ListInv, NEW t \in Thread, NEW x \in Item, Enter(t, x)
  PROVE  ListInv'
<1>1. /\ x \in listed /\ UNCHANGED list /\ UNCHANGED <<pos, i, found>>
      /\ at' = [at EXCEPT ![t] = "first"] /\ item' = [item EXCEPT ![t] = x]
      /\ clean' = [clean EXCEPT ![t] = TRUE] /\ ListTypeOK /\ Searching
  BY DEF Enter, ListInv
<1>2. ListTypeOK' /\ Searching'
  BY <1>1 DEF ListTypeOK, Searching, list
<1>3. at'[t] = "first"
  BY <1>1 DEF ListTypeOK
<1>4. \A r : OnItsWay(r, t)'
  BY <1>3 DEF OnItsWay
<1>5. \A u \in Thread \ {t} : /\ at'[u] = at[u] /\ item'[u] = item[u] /\ pos'[u] = pos[u]
                              /\ i'[u] = i[u] /\ found'[u] = found[u] /\ clean'[u] = clean[u]
  BY <1>1 DEF ListTypeOK
<1> QED
  BY <1>1, <1>2, <1>4, <1>5, SearchStep

(* The search starts at the first item, and every item is within count of it. *)
LEMMA FirstStep ==
  ASSUME ListInv, NEW t \in Thread, First(t)
  PROVE  ListInv'
<1>1. /\ at[t] = "first" /\ UNCHANGED list /\ UNCHANGED <<item, found, clean>>
      /\ pos' = [pos EXCEPT ![t] = next[last]] /\ i' = [i EXCEPT ![t] = 0]
      /\ at' = [at EXCEPT ![t] = "test"] /\ ListTypeOK /\ Searching /\ Counted
  BY DEF First, ListInv
<1>2. item[t] \in listed /\ count \in Nat /\ Cardinality(Item) \in Nat /\ last \in Item
  BY <1>1, ListedFinite DEF Searching, Counted, ListTypeOK
<1>3. next[last] \in Item \cup {Null} /\ 0 \in 0 .. Cardinality(Item)
  BY <1>1, <1>2 DEF ListTypeOK
<1>4. ListTypeOK' /\ Searching'
  BY <1>1, <1>3 DEF ListTypeOK, Searching, list
<1>5. at'[t] = "test" /\ pos'[t] = next[last] /\ i'[t] = 0
  BY <1>1 DEF ListTypeOK
<1>6. ASSUME NEW r \in [1 .. count -> listed], Ring(r) PROVE OnItsWay(r, t)'
  <2>1. PICK m \in 1 .. count : item[t] = r[m]
    BY <1>2, <1>6 DEF Ring
  <2>2. 1 \in 1 .. count /\ next[last] = r[1] /\ 1 <= m /\ 0 + (m - 1) < count
    BY <1>2, <1>6, <2>1 DEF Ring
  <2>3. count' = count /\ item' = item
    BY <1>1 DEF list
  <2> QED
    BY <1>5, <2>1, <2>2, <2>3 DEF OnItsWay
<1>7. \A u \in Thread \ {t} : /\ at'[u] = at[u] /\ item'[u] = item[u] /\ pos'[u] = pos[u]
                              /\ i'[u] = i[u] /\ found'[u] = found[u] /\ clean'[u] = clean[u]
  BY <1>1 DEF ListTypeOK
<1> QED
  BY <1>1, <1>4, <1>6, <1>7, SearchStep

(* A search with a turn left goes on unless it has found the item. *)
LEMMA TestStep ==
  ASSUME ListInv, NEW t \in Thread, Test(t)
  PROVE  ListInv'
<1>1. /\ at[t] = "test" /\ UNCHANGED list /\ UNCHANGED <<item, pos, i, clean>>
      /\ ListTypeOK /\ Searching /\ count \in 0 .. Cardinality(Item)
  BY DEF Test, ListInv, ListTypeOK
<1>2. Cardinality(Item) \in Nat /\ count \in Nat /\ i[t] \in Nat
  BY <1>1, ListedFinite DEF ListTypeOK
<1>3. \/ /\ i[t] < count /\ pos[t] = item[t]
         /\ at' = [at EXCEPT ![t] = "done"] /\ found' = [found EXCEPT ![t] = TRUE]
      \/ /\ i[t] < count /\ pos[t] # item[t]
         /\ at' = [at EXCEPT ![t] = "step"] /\ found' = found
      \/ /\ ~(i[t] < count)
         /\ at' = [at EXCEPT ![t] = "done"] /\ found' = [found EXCEPT ![t] = FALSE]
  BY DEF Test, Before
<1>4. ListTypeOK' /\ Searching'
  <2>1. /\ at' \in [Thread -> {"idle", "first", "test", "step", "done", "fault"}]
        /\ found' \in [Thread -> BOOLEAN]
    BY <1>1, <1>3 DEF ListTypeOK
  <2>2. ListTypeOK'
    BY <1>1, <2>1 DEF ListTypeOK, list
  <2>3. \A u \in Thread : at'[u] # "idle" => item'[u] \in listed'
    BY <1>1, <1>3 DEF Searching, ListTypeOK, list
  <2>4. i[t] < count => i[t] < Cardinality(Item)
    BY <1>1, <1>2
  <2>5. \A u \in Thread : at'[u] = "step" => i'[u] < Cardinality(Item)
    BY <1>1, <1>3, <2>4 DEF Searching, ListTypeOK
  <2> QED
    BY <2>2, <2>3, <2>5 DEF Searching
<1>5. ASSUME NEW r \in [1 .. count -> listed], Ring(r), OnItsWay(r, t) PROVE OnItsWay(r, t)'
  <2> SUFFICES ASSUME clean[t] PROVE OnItsWay(r, t)'
    BY <1>1 DEF OnItsWay
  <2>1. PICK j \in 1 .. count, m \in 1 .. count :
          pos[t] = r[j] /\ item[t] = r[m] /\ j <= m /\ i[t] + (m - j) < count
    BY <1>1, <1>5 DEF OnItsWay
  <2>2. i[t] < count
    BY <1>2, <2>1
  <2>3. CASE pos[t] = item[t]
    <3>1. at'[t] = "done" /\ found'[t]
      BY <1>1, <1>3, <2>2, <2>3 DEF ListTypeOK
    <3> QED
      BY <3>1 DEF OnItsWay
  <2>4. CASE pos[t] # item[t]
    <3>1. at'[t] = "step"
      BY <1>1, <1>3, <2>2, <2>4 DEF ListTypeOK
    <3>2. j < m
      BY <1>2, <2>1, <2>4
    <3>3. count' = count
      BY <1>1 DEF list
    <3> QED
      BY <1>1, <2>1, <3>1, <3>2, <3>3 DEF OnItsWay
  <2> QED
    BY <2>3, <2>4
<1>6. \A u \in Thread \ {t} : /\ at'[u] = at[u] /\ item'[u] = item[u] /\ pos'[u] = pos[u]
                              /\ i'[u] = i[u] /\ found'[u] = found[u] /\ clean'[u] = clean[u]
  BY <1>1, <1>3 DEF ListTypeOK
<1> QED
  BY <1>1, <1>4, <1>5, <1>6, SearchStep

(* The link that is read is that of a listed item. *)
LEMMA StepStep ==
  ASSUME ListInv, NEW t \in Thread, Step(t)
  PROVE  ListInv'
<1>1. /\ at[t] = "step" /\ UNCHANGED list /\ UNCHANGED <<item, found, clean>>
      /\ ListTypeOK /\ Searching
  BY DEF Step, ListInv
<1>2. Cardinality(Item) \in Nat /\ count \in Nat /\ i[t] \in Nat /\ i[t] < Cardinality(Item)
  BY <1>1, ListedFinite DEF ListTypeOK, Searching
<1>3. \/ /\ pos[t] # Null /\ i' = [i EXCEPT ![t] = @ + 1] /\ pos' = [pos EXCEPT ![t] = next[@]]
         /\ at' = [at EXCEPT ![t] = "test"]
      \/ pos[t] = Null /\ at' = [at EXCEPT ![t] = "fault"] /\ UNCHANGED <<pos, i>>
  BY DEF Step
<1>4. ListTypeOK' /\ Searching'
  <2>1. i[t] + 1 \in 0 .. Cardinality(Item) /\ (pos[t] # Null => next[pos[t]] \in Item \cup {Null})
    BY <1>1, <1>2 DEF ListTypeOK
  <2>2. /\ at' \in [Thread -> {"idle", "first", "test", "step", "done", "fault"}]
        /\ i' \in [Thread -> 0 .. Cardinality(Item)]
        /\ pos' \in [Thread -> Item \cup {Null}]
    BY <1>1, <1>3, <2>1 DEF ListTypeOK
  <2>3. ListTypeOK'
    BY <1>1, <2>2 DEF ListTypeOK, list
  <2>4. Searching'
    BY <1>1, <1>3 DEF Searching, ListTypeOK, list
  <2> QED
    BY <2>3, <2>4
<1>5. ASSUME NEW r \in [1 .. count -> listed], Ring(r), OnItsWay(r, t) PROVE OnItsWay(r, t)'
  <2> SUFFICES ASSUME clean[t] PROVE OnItsWay(r, t)'
    BY <1>1 DEF OnItsWay
  <2>1. PICK j \in 1 .. count, m \in 1 .. count :
          pos[t] = r[j] /\ item[t] = r[m] /\ j < m /\ i[t] + (m - j) < count
    BY <1>1, <1>5 DEF OnItsWay
  <2>2. j # count /\ j + 1 \in 1 .. count /\ j + 1 <= m /\ (i[t] + 1) + (m - (j + 1)) < count
    BY <1>2, <2>1
  <2>3. next[r[j]] = r[j + 1] /\ r[j] \in listed
    BY <1>1, <1>5, <2>2, RingLinks
  <2>4. pos[t] # Null
    BY <1>1, <2>1, <2>3, NullAssumption DEF ListTypeOK
  <2>5. at'[t] = "test" /\ pos'[t] = r[j + 1] /\ i'[t] = i[t] + 1 /\ count' = count /\ item' = item
    BY <1>1, <1>3, <2>1, <2>3, <2>4 DEF ListTypeOK, list
  <2> QED
    BY <2>1, <2>2, <2>5 DEF OnItsWay
<1>6. \A u \in Thread \ {t} : /\ at'[u] = at[u] /\ item'[u] = item[u] /\ pos'[u] = pos[u]
                              /\ i'[u] = i[u] /\ found'[u] = found[u] /\ clean'[u] = clean[u]
  BY <1>1, <1>3 DEF ListTypeOK
<1> QED
  BY <1>1, <1>4, <1>5, <1>6, SearchStep

LEMMA ReturnStep ==
  ASSUME ListInv, NEW t \in Thread, Return(t)
  PROVE  ListInv'
<1>1. /\ at' = [at EXCEPT ![t] = "idle"] /\ UNCHANGED list /\ UNCHANGED <<item, pos, i, found, clean>>
      /\ ListTypeOK /\ Searching
  BY DEF Return, ListInv
<1>2. ListTypeOK' /\ Searching'
  BY <1>1 DEF ListTypeOK, Searching, list
<1>3. at'[t] = "idle"
  BY <1>1 DEF ListTypeOK
<1>4. \A r : OnItsWay(r, t)'
  BY <1>3 DEF OnItsWay
<1>5. \A u \in Thread \ {t} : /\ at'[u] = at[u] /\ item'[u] = item[u] /\ pos'[u] = pos[u]
                              /\ i'[u] = i[u] /\ found'[u] = found[u] /\ clean'[u] = clean[u]
  BY <1>1 DEF ListTypeOK
<1> QED
  BY <1>1, <1>2, <1>4, <1>5, SearchStep

-----------------------------------------------------------------------------
LEMMA ListInitInv == ListInit => ListInv
<1> SUFFICES ASSUME ListInit PROVE ListInv
  OBVIOUS
<1>1. Cardinality({}) = 0 /\ Cardinality(Item) \in Nat /\ 0 \in 0 .. Cardinality(Item)
  BY ItemAssumption, FS_EmptySet, FS_CardinalityType
<1>2. ListTypeOK /\ Searching /\ Counted
  BY <1>1 DEF ListInit, ListTypeOK, Searching, Counted
<1>3. PICK r : r = [k \in {} |-> Null]
  OBVIOUS
<1>4. 1 .. count = {} /\ 1 .. count - 1 = {} /\ ~(count > 0)
  BY DEF ListInit
<1>5. r \in [1 .. count -> listed] /\ Ring(r)
  <2>1. {r[k] : k \in 1 .. count} = {}
    BY <1>4
  <2> QED
    BY <1>3, <1>4, <2>1 DEF ListInit, Ring
<1>6. \A t \in Thread : OnItsWay(r, t)
  BY DEF ListInit, OnItsWay
<1> QED
  BY <1>2, <1>5, <1>6 DEF ListInv

LEMMA ListNextInv == ListInv /\ [ListNext]_listVars => ListInv'
<1> SUFFICES ASSUME ListInv, [ListNext]_listVars PROVE ListInv'
  OBVIOUS
<1>1. CASE \E x \in Item : Reuse(x) \/ Add(x) \/ Remove(x)
  BY <1>1, ReuseStep, AddStep, RemoveStep
<1>2. CASE \E t \in Thread, x \in Item : Enter(t, x)
  BY <1>2, EnterStep
<1>3. CASE \E t \in Thread : First(t) \/ Test(t) \/ Step(t) \/ Return(t)
  BY <1>3, FirstStep, TestStep, StepStep, ReturnStep
<1>4. CASE UNCHANGED listVars
  <2>1. PICK r \in [1 .. count -> listed] : Ring(r) /\ \A t \in Thread : OnItsWay(r, t)
    BY DEF ListInv
  <2>2. UNCHANGED <<last, next, count, listed, at, item, pos, i, found, clean>>
    BY <1>4 DEF listVars, list, walk
  <2>3. Ring(r)' /\ \A t \in Thread : OnItsWay(r, t)'
    BY <2>1, <2>2 DEF Ring, OnItsWay
  <2>4. ListTypeOK' /\ Searching' /\ Counted'
    BY <2>2 DEF ListInv, ListTypeOK, Searching, Counted
  <2> QED
    BY <2>1, <2>2, <2>3, <2>4 DEF ListInv
<1> QED
  BY <1>1, <1>2, <1>3, <1>4 DEF ListNext

LEMMA ListInvariant == ListSpec => []ListInv
  BY ListInitInv, ListNextInv, PTL DEF ListSpec

(* Types of the list and its searches; no counter leaves the number of     *)
(* items that exist.                                                       *)
THEOREM ListTypes == ListSpec => []ListTypeOK
<1>1. ListInv => ListTypeOK
  BY DEF ListInv
<1> QED
  BY <1>1, ListInvariant, PTL

(* Whatever is added and removed, rtos_queue_add and rtos_queue_remove     *)
(* leave one ring of exactly the live items, that ends at _last and is as  *)
(* long as _count says.                                                    *)
THEOREM ListRing == ListSpec => []RingIntact
<1>1. ListInv => RingIntact
  BY DEF ListInv, Counted, RingIntact
<1> QED
  BY <1>1, ListInvariant, PTL

(* Additions during a search never make rtos_queue_contains miss an object *)
(* that is listed; only a removal can, for any number of threads.          *)
THEOREM ListSearch == ListSpec => []FoundUndisturbed
<1>1. ListInv => FoundUndisturbed
  BY DEF ListInv, OnItsWay, FoundUndisturbed
<1> QED
  BY <1>1, ListInvariant, PTL
=============================================================================

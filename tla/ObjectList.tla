---- MODULE ObjectList ----
(***************************************************************************)
(* The lists of live kernel objects in RTOS.cpp: a ring of items linked by *)
(* next, entered at _last, whose successor is the first, with a counter.   *)
(* rtos_queue_add and rtos_queue_remove hold the CPU lock.                 *)
(* rtos_queue_contains, with which every call checks its handle, does not: *)
(* it is one action per access to shared memory.  A handle is looked up    *)
(* while its object exists, and nobody deletes an object in use.           *)
(* ListInit and the like have names of their own, since Threads_proofs has *)
(* this module and TaskThread together.                                    *)
(***************************************************************************)
EXTENDS Naturals, FiniteSets

CONSTANTS Item, Thread, Null

ASSUME NullAssumption == Null \notin Item
ASSUME ItemAssumption == IsFiniteSet(Item)

VARIABLES
    last,    \* queue->_last
    next,    \* item->next; a removed item keeps its own
    count,   \* queue->_count
    listed,  \* history: the items added and not removed
    at,      \* where t is in rtos_queue_contains
    item,    \* item[t]: what t looks for
    pos, i,  \* the variables of t's walk
    found,   \* what it returns
    clean    \* history: nothing was removed since the walk began

list == <<last, next, count, listed>>
walk == <<at, item, pos, i, found, clean>>
listVars == <<list, walk>>

InUse(x) == \E t \in Thread : at[t] # "idle" /\ item[t] = x

(* The memory of a removed item is given back, or cleared by the memset with *)
(* which an object is created in the same place.                           *)
Reuse(x) ==
    /\ x \notin listed /\ next[x] # Null
    /\ next' = [next EXCEPT ![x] = Null]
    /\ UNCHANGED <<last, count, listed, walk>>

Link(x) ==
    /\ last' = IF last = Null THEN x ELSE last
    /\ next' = IF last = Null THEN [next EXCEPT ![x] = x]
               ELSE [next EXCEPT ![x] = next[last], ![last] = x]

Add(x) ==
    /\ x \notin listed /\ ~InUse(x)
    /\ Link(x)
    /\ count' = count + 1
    /\ listed' = listed \cup {x}
    /\ UNCHANGED walk

Prev(x) == CHOOSE p \in listed : next[p] = x

UnlinkMiddle(x) ==                                                    \* bug:
    \/ /\ x # last
       /\ next' = [next EXCEPT ![Prev(x)] = next[x]] /\ last' = last
    \/ /\ x = last /\ next[x] # x
       /\ last' = next[x] /\ next' = next
    \/ /\ x = last /\ next[x] = x
       /\ last' = Null /\ next' = next

(* Removing the last item makes the first one the last. *)
Unlink(x) ==
    \/ /\ x # last
       /\ next' = [next EXCEPT ![Prev(x)] = next[x]] /\ last' = last
    \/ /\ x = last /\ next[x] # x
       /\ next' = [next EXCEPT ![Prev(x)] = next[x]] /\ last' = next[x]
    \/ /\ x = last /\ next[x] = x
       /\ last' = Null /\ next' = next

CountKept == count                                                    \* bug:
CountLess == count - 1

Remove(x) ==
    /\ x \in listed /\ ~InUse(x)
    /\ Unlink(x)
    /\ count' = CountLess
    /\ listed' = listed \ {x}
    /\ clean' = [t \in Thread |-> FALSE]
    /\ UNCHANGED <<at, item, pos, i, found>>
----------------------------------------------------------------------------
(* rtos_queue_contains: the list is not empty, as the item is in it. *)
Enter(t, x) ==
    /\ at[t] = "idle" /\ x \in listed /\ last # Null
    /\ at' = [at EXCEPT ![t] = "first"]
    /\ item' = [item EXCEPT ![t] = x]
    /\ clean' = [clean EXCEPT ![t] = TRUE]
    /\ UNCHANGED <<list, pos, i, found>>

First(t) ==
    /\ at[t] = "first"
    /\ pos' = [pos EXCEPT ![t] = next[last]]
    /\ i' = [i EXCEPT ![t] = 0]
    /\ at' = [at EXCEPT ![t] = "test"]
    /\ UNCHANGED <<list, item, found, clean>>

BeforeLast(t) == i[t] + 1 < count                                     \* bug:
Before(t) == i[t] < count

Test(t) ==
    /\ at[t] = "test"
    /\ \/ /\ Before(t) /\ pos[t] = item[t]
          /\ at' = [at EXCEPT ![t] = "done"] /\ found' = [found EXCEPT ![t] = TRUE]
       \/ /\ Before(t) /\ pos[t] # item[t]
          /\ at' = [at EXCEPT ![t] = "step"] /\ UNCHANGED found
       \/ /\ ~Before(t)
          /\ at' = [at EXCEPT ![t] = "done"] /\ found' = [found EXCEPT ![t] = FALSE]
    /\ UNCHANGED <<list, item, pos, i, clean>>

Step(t) ==
    /\ at[t] = "step"
    /\ \/ /\ pos[t] # Null
          /\ i' = [i EXCEPT ![t] = @ + 1]
          /\ pos' = [pos EXCEPT ![t] = next[@]]
          /\ at' = [at EXCEPT ![t] = "test"]
       \/ /\ pos[t] = Null                \* pos->next of no item
          /\ at' = [at EXCEPT ![t] = "fault"]
          /\ UNCHANGED <<pos, i>>
    /\ UNCHANGED <<list, item, found, clean>>

Return(t) ==
    /\ at[t] = "done"
    /\ at' = [at EXCEPT ![t] = "idle"]
    /\ UNCHANGED <<list, item, pos, i, found, clean>>
----------------------------------------------------------------------------
ListInit ==
    /\ last = Null /\ count = 0 /\ listed = {}
    /\ next = [x \in Item |-> Null]
    /\ at = [t \in Thread |-> "idle"]
    /\ item = [t \in Thread |-> Null]
    /\ pos = [t \in Thread |-> Null]
    /\ i = [t \in Thread |-> 0]
    /\ found = [t \in Thread |-> FALSE]
    /\ clean = [t \in Thread |-> FALSE]

ListNext ==
    \/ \E x \in Item : Reuse(x) \/ Add(x) \/ Remove(x)
    \/ \E t \in Thread, x \in Item : Enter(t, x)
    \/ \E t \in Thread : First(t) \/ Test(t) \/ Step(t) \/ Return(t)

ListSpec == ListInit /\ [][ListNext]_listVars
----------------------------------------------------------------------------
\* Types; count and i within the number of items.
ListTypeOK ==
    /\ last \in Item \cup {Null} /\ listed \subseteq Item
    /\ next \in [Item -> Item \cup {Null}]
    /\ count \in 0 .. Cardinality(Item)
    /\ at \in [Thread -> {"idle", "first", "test", "step", "done", "fault"}]
    /\ item \in [Thread -> Item \cup {Null}] /\ pos \in [Thread -> Item \cup {Null}]
    /\ i \in [Thread -> 0 .. Cardinality(Item)]
    /\ found \in [Thread -> BOOLEAN] /\ clean \in [Thread -> BOOLEAN]

\* r is the order of the items, from the one after _last round to _last.
Ring(r) ==
    /\ {r[k] : k \in 1 .. count} = listed
    /\ \A j, k \in 1 .. count : r[j] = r[k] => j = k
    /\ \A k \in 1 .. count - 1 : next[r[k]] = r[k + 1]
    /\ count > 0 => r[count] = last /\ next[last] = r[1]

\* From _last, count steps visit every live item once and end at _last again.
RingIntact ==
    /\ listed = {} <=> last = Null
    /\ count = Cardinality(listed)
    /\ \E r \in [1 .. count -> listed] : Ring(r)

\* A call finds the object of its valid handle in spite of objects that are
\* added during its walk, as long as none is removed, and reads no pointer of
\* an item that is gone.
FoundUndisturbed ==
    \A t \in Thread : clean[t] => at[t] # "fault" /\ (at[t] = "done" => found[t])

\* A call on an object that exists is not refused with osErrorParameter.
FoundWhileListed == \A t \in Thread : at[t] = "done" => found[t]
====

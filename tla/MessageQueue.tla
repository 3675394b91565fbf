---- MODULE MessageQueue ----
(***************************************************************************)
(* osMessageQueuePut, Get and Delete of RTOS.cpp.  A message queue is two  *)
(* kernel objects: a fixed-size memory pool, from which a put takes a      *)
(* block for its copy of the message, and a data queue of pointers to      *)
(* blocks.  A put may wait for a block and then for room in the data       *)
(* queue; a get waits for a pointer and returns the block after copying.   *)
(* Kernel calls are atomic, anything may run between two of them.          *)
(*                                                                         *)
(* A message has the priority its put was called with.  The block carries  *)
(* it and the get hands it out, in msg_prio; the data queue is made with   *)
(* TA_NULL and does not look at it, nor at the priorities of threads.      *)
(***************************************************************************)
EXTENDS Naturals, FiniteSets, SequencesExt

CONSTANTS
    Thread,
    Body,       \* what is put, msg_size bytes
    Priority,   \* msg_prio
    Block,      \* the blocks of the pool, msg_count of them
    NoMessage, NoBlock

ASSUME BlockAssumption == IsFiniteSet(Block) /\ Block # {} /\ NoBlock \notin Block
ASSUME PriorityAssumption == Priority \subseteq Nat

Message == [body : Body, prio : Priority]

ASSUME MessageAssumption == NoMessage \notin Message

VARIABLES
    poolOpen,   \* the memory pool exists
    free,       \* its free blocks
    poolWait,   \* threads waiting for a block, in order of arrival
    dtqOpen,    \* the data queue exists
    data,       \* the blocks in it, oldest first
    sendWait,   \* threads waiting for room in it
    recvWait,   \* threads waiting for a block to come
    mem,        \* mem[b]: the message in block b
    pc,
    hold,       \* hold[t]: the block t works on
    msg,        \* msg[t]: what t puts
    got         \* got[t]: what t copied out of the queue last

pool == <<poolOpen, free, poolWait>>
dtq == <<dtqOpen, data, sendWait, recvWait>>
vars == <<pool, dtq, mem, pc, hold, msg, got>>

\* The data queue has as many slots as the pool has blocks.
SlotsFewer == Cardinality(Block) - 1                                  \* bug:

Slots == Cardinality(Block)

EnqueueFirst(s, b) == <<b>> \o s                                      \* bug:

Enqueue(s, b) == Append(s, b)
----------------------------------------------------------------------------
(* osMessageQueuePut *)

PutGetsBlock(t, m) ==
    /\ pc[t] = "idle" /\ poolOpen
    /\ \E b \in free :
          /\ free' = free \ {b}
          /\ hold' = [hold EXCEPT ![t] = b]
    /\ pc' = [pc EXCEPT ![t] = "fill"]
    /\ msg' = [msg EXCEPT ![t] = m]
    /\ UNCHANGED <<poolOpen, poolWait, dtq, mem, got>>

PutWaits(t, m) ==
    /\ pc[t] = "idle" /\ poolOpen /\ free = {}
    /\ poolWait' = Append(poolWait, t)
    /\ pc' = [pc EXCEPT ![t] = "waitBlock"]
    /\ msg' = [msg EXCEPT ![t] = m]
    /\ UNCHANGED <<poolOpen, free, dtq, mem, hold, got>>

Fill(t) ==
    /\ pc[t] = "fill"
    /\ mem' = [mem EXCEPT ![hold[t]] = msg[t]]
    /\ pc' = [pc EXCEPT ![t] = "send"]
    /\ UNCHANGED <<pool, dtq, hold, msg, got>>

SendHands(t) ==
    /\ pc[t] = "send" /\ dtqOpen /\ recvWait # <<>>
    /\ recvWait' = Tail(recvWait)
    /\ pc' = [pc EXCEPT ![t] = "idle", ![Head(recvWait)] = "copy"]
    /\ hold' = [hold EXCEPT ![t] = NoBlock, ![Head(recvWait)] = hold[t]]
    /\ UNCHANGED <<pool, dtqOpen, data, sendWait, mem, msg, got>>

SendQueues(t) ==
    /\ pc[t] = "send" /\ dtqOpen /\ recvWait = <<>>
    /\ IF Len(data) < Slots
       THEN /\ data' = Enqueue(data, hold[t])
            /\ hold' = [hold EXCEPT ![t] = NoBlock]
            /\ pc' = [pc EXCEPT ![t] = "idle"]
            /\ UNCHANGED sendWait
       ELSE /\ sendWait' = Append(sendWait, t)
            /\ pc' = [pc EXCEPT ![t] = "waitSend"]
            /\ UNCHANGED <<data, hold>>
    /\ UNCHANGED <<pool, dtqOpen, recvWait, mem, msg, got>>

SendRefused(t) ==
    /\ pc[t] = "send" /\ ~dtqOpen
    /\ pc' = [pc EXCEPT ![t] = "giveBack"]
    /\ UNCHANGED <<pool, dtq, mem, hold, msg, got>>
----------------------------------------------------------------------------
(* osMessageQueueGet.  A thread that waits to send has its block queued in *)
(* the place that becomes free.                                            *)

GetTakes(t) ==
    /\ pc[t] = "idle" /\ dtqOpen /\ data # <<>>
    /\ IF sendWait = <<>>
       THEN /\ data' = Tail(data)
            /\ hold' = [hold EXCEPT ![t] = Head(data)]
            /\ pc' = [pc EXCEPT ![t] = "copy"]
       ELSE /\ data' = Enqueue(Tail(data), hold[Head(sendWait)])
            /\ hold' = [hold EXCEPT ![t] = Head(data), ![Head(sendWait)] = NoBlock]
            /\ pc' = [pc EXCEPT ![t] = "copy", ![Head(sendWait)] = "idle"]
    /\ sendWait' = IF sendWait = <<>> THEN <<>> ELSE Tail(sendWait)
    /\ UNCHANGED <<pool, dtqOpen, recvWait, mem, msg, got>>

GetWaits(t) ==
    /\ pc[t] = "idle" /\ dtqOpen /\ data = <<>>
    /\ recvWait' = Append(recvWait, t)
    /\ pc' = [pc EXCEPT ![t] = "waitRecv"]
    /\ UNCHANGED <<pool, dtqOpen, data, sendWait, mem, hold, msg, got>>

Copy(t) ==
    /\ pc[t] = "copy"
    /\ got' = [got EXCEPT ![t] = mem[hold[t]]]
    /\ pc' = [pc EXCEPT ![t] = "giveBack"]
    /\ UNCHANGED <<pool, dtq, mem, hold, msg>>
----------------------------------------------------------------------------
(* rel_mpf, at the end of a get and of a put that failed. *)

HandBlockTwice(t) ==                                                  \* bug:
    /\ pc[t] = "giveBack" /\ poolOpen /\ poolWait # <<>>
    /\ poolWait' = Tail(poolWait)
    /\ pc' = [pc EXCEPT ![t] = "idle", ![Head(poolWait)] = "fill"]
    /\ hold' = [hold EXCEPT ![t] = NoBlock, ![Head(poolWait)] = hold[t]]
    /\ free' = free \cup {hold[t]}
    /\ UNCHANGED <<poolOpen, dtq, mem, msg, got>>

HandBlockFrees(t) ==                                                  \* bug:
    /\ pc[t] = "giveBack" /\ poolOpen /\ poolWait # <<>>
    /\ pc' = [pc EXCEPT ![t] = "idle"]
    /\ hold' = [hold EXCEPT ![t] = NoBlock]
    /\ free' = free \cup {hold[t]}
    /\ UNCHANGED <<poolOpen, poolWait, dtq, mem, msg, got>>

HandBlock(t) ==
    /\ pc[t] = "giveBack" /\ poolOpen /\ poolWait # <<>>
    /\ poolWait' = Tail(poolWait)
    /\ pc' = [pc EXCEPT ![t] = "idle", ![Head(poolWait)] = "fill"]
    /\ hold' = [hold EXCEPT ![t] = NoBlock, ![Head(poolWait)] = hold[t]]
    /\ UNCHANGED <<poolOpen, free, dtq, mem, msg, got>>

FreeBlock(t) ==
    /\ pc[t] = "giveBack" /\ (poolOpen => poolWait = <<>>)
    /\ free' = IF poolOpen THEN free \cup {hold[t]} ELSE free
    /\ pc' = [pc EXCEPT ![t] = "idle"]
    /\ hold' = [hold EXCEPT ![t] = NoBlock]
    /\ UNCHANGED <<poolOpen, poolWait, dtq, mem, msg, got>>

GiveBack(t) == HandBlock(t) \/ FreeBlock(t)
----------------------------------------------------------------------------
(* A wait ends with its timeout: the thread leaves the queue it waits in.  *)

Unlinked(q, t) ==
    IF t \in Range(q) THEN RemoveAt(q, CHOOSE i \in DOMAIN q : q[i] = t) ELSE q

Timeout(t) ==
    /\ pc[t] \in {"waitBlock", "waitSend", "waitRecv"}
    /\ poolWait' = Unlinked(poolWait, t)
    /\ sendWait' = Unlinked(sendWait, t)
    /\ recvWait' = Unlinked(recvWait, t)
    /\ pc' = [pc EXCEPT ![t] = IF @ = "waitSend" THEN "giveBack" ELSE "idle"]
    /\ UNCHANGED <<poolOpen, free, dtqOpen, data, mem, hold, msg, got>>
----------------------------------------------------------------------------
(* osMessageQueueDelete: del_dtq, which releases the threads that wait     *)
(* with an error, and del_mpf, which does the same.                        *)

Delete ==
    /\ dtqOpen
    /\ dtqOpen' = FALSE
    /\ data' = <<>> /\ sendWait' = <<>> /\ recvWait' = <<>>
    /\ pc' = [t \in Thread |-> CASE pc[t] = "waitSend" -> "giveBack"
                                 [] pc[t] = "waitRecv" -> "idle"
                                 [] OTHER -> pc[t]]
    /\ UNCHANGED <<pool, mem, hold, msg, got>>

DeletePoolOnly ==                                                     \* bug:
    /\ ~dtqOpen /\ poolOpen
    /\ poolOpen' = FALSE
    /\ UNCHANGED <<free, poolWait, dtq, mem, pc, hold, msg, got>>

DeletePool ==
    /\ ~dtqOpen /\ poolOpen
    /\ poolOpen' = FALSE
    /\ poolWait' = <<>>
    /\ pc' = [t \in Thread |-> IF pc[t] = "waitBlock" THEN "idle" ELSE pc[t]]
    /\ UNCHANGED <<free, dtq, mem, hold, msg, got>>
----------------------------------------------------------------------------
Init ==
    /\ poolOpen = TRUE /\ free = Block /\ poolWait = <<>>
    /\ dtqOpen = TRUE /\ data = <<>> /\ sendWait = <<>> /\ recvWait = <<>>
    /\ mem = [b \in Block |-> NoMessage]
    /\ pc = [t \in Thread |-> "idle"]
    /\ hold = [t \in Thread |-> NoBlock]
    /\ msg = [t \in Thread |-> NoMessage]
    /\ got = [t \in Thread |-> NoMessage]

\* What a thread does without waiting for another one.
Step(t) ==
    \/ Fill(t) \/ SendHands(t) \/ SendQueues(t) \/ SendRefused(t)
    \/ Copy(t) \/ GiveBack(t)

Call(t) ==
    \/ \E m \in Message : PutGetsBlock(t, m) \/ PutWaits(t, m)
    \/ GetTakes(t) \/ GetWaits(t)

Next ==
    \/ \E t \in Thread : Step(t) \/ Call(t) \/ Timeout(t)
    \/ Delete \/ DeletePool

\* Threads that do not wait run, and a delete that began is completed.  No
\* call is owed, and no timeout: a wait may be for ever.
Fairness == (\A t \in Thread : WF_vars(Step(t))) /\ WF_vars(DeletePool)

Spec == Init /\ [][Next]_vars /\ Fairness
----------------------------------------------------------------------------
Where == {"idle", "waitBlock", "fill", "send", "waitSend", "waitRecv", "copy", "giveBack"}
Working == {"fill", "send", "waitSend", "copy", "giveBack"}

\* Types; the queues of waiting threads have no thread twice; a thread has
\* a block exactly in the stretch of a call that works on one.
TypeOK ==
    /\ poolOpen \in BOOLEAN /\ dtqOpen \in BOOLEAN
    /\ free \subseteq Block /\ data \in Seq(Block)
    /\ poolWait \in Seq(Thread) /\ sendWait \in Seq(Thread) /\ recvWait \in Seq(Thread)
    /\ IsInjective(poolWait) /\ IsInjective(sendWait) /\ IsInjective(recvWait)
    /\ mem \in [Block -> Message \cup {NoMessage}]
    /\ pc \in [Thread -> Where]
    /\ hold \in [Thread -> Block \cup {NoBlock}]
    /\ msg \in [Thread -> Message \cup {NoMessage}]
    /\ got \in [Thread -> Message \cup {NoMessage}]
    /\ \A t \in Thread : hold[t] # NoBlock <=> pc[t] \in Working

\* While the queue exists every block is in exactly one place: free, in the
\* data queue once, or with one thread.  No error path of a put, no timeout
\* and no deletion of the data queue leaks a block or frees it twice.
\* (Deleting the data queue discards the blocks in it.)
BlocksConserved ==
    /\ IsInjective(data)
    /\ free \cap Range(data) = {}
    /\ \A t, u \in Thread : t # u /\ hold[t] = hold[u] => hold[t] = NoBlock
    /\ \A t \in Thread : hold[t] \notin free \cup Range(data)
    /\ dtqOpen => Block = free \cup Range(data) \cup ({hold[t] : t \in Thread} \ {NoBlock})

\* The timeout of a put is given to both of its waits, but only the first can
\* wait: a thread that has a block finds room in the data queue.
NeverWaitsToSend == \A t \in Thread : pc[t] # "waitSend"

\* Nobody waits for what is there: no thread waits for a block while one is
\* free, none waits for a message while one is queued.
NoIdleWaiter == (poolWait # <<>> => free = {}) /\ (recvWait # <<>> => data = <<>>)

\* Whatever their priorities, the queue is a bounded FIFO of messages, although
\* it moves blocks that are filled before they are sent and copied after they
\* were taken; a message comes out with the priority it went in with.
Fifo == INSTANCE MessageFifo WITH
    Capacity <- Slots,
    open <- dtqOpen,
    queue <- [i \in DOMAIN data |-> mem[data[i]]],
    in <- [t \in Thread |-> IF pc[t] \in {"waitBlock", "fill", "send", "waitSend"}
                            THEN msg[t] ELSE NoMessage],
    out <- [t \in Thread |-> IF pc[t] = "copy" THEN mem[hold[t]] ELSE got[t]]

ImplementsFifo == Fifo!Spec

\* Deleting the queue releases everybody who waits in it, also the thread that
\* comes between the deletions of its two halves.
DeleteReleases == ~dtqOpen ~> (\A t \in Thread : pc[t] = "idle")
====

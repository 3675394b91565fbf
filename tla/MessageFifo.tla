---- MODULE MessageFifo ----
(***************************************************************************)
(* What a message queue is: a bounded first-in first-out sequence, which   *)
(* knows nothing of priorities (rtos/Queue.h promises another order).      *)
(* A thread offers a message; while the queue is open the message is       *)
(* queued, or handed to a receiver if nothing is queued; offers may be     *)
(* withdrawn.  Deleting the queue discards what is in it.                  *)
(***************************************************************************)
EXTENDS Naturals, Sequences

CONSTANTS Thread, Message, NoMessage, Capacity

VARIABLES
    open,   \* the queue has not been deleted
    queue,  \* the messages in it
    in,     \* in[t]: what t is putting
    out     \* out[t]: what t received last

vars == <<open, queue, in, out>>

Init ==
    /\ open = TRUE
    /\ queue = <<>>
    /\ in = [t \in Thread |-> NoMessage]
    /\ out = [t \in Thread |-> NoMessage]

Offer(t, m) ==
    /\ in[t] = NoMessage
    /\ in' = [in EXCEPT ![t] = m]
    /\ UNCHANGED <<open, queue, out>>

Withdraw(S) ==
    /\ in' = [t \in Thread |-> IF t \in S THEN NoMessage ELSE in[t]]
    /\ UNCHANGED <<open, queue, out>>

Put(t) ==
    /\ open /\ in[t] # NoMessage /\ Len(queue) < Capacity
    /\ queue' = Append(queue, in[t])
    /\ in' = [in EXCEPT ![t] = NoMessage]
    /\ UNCHANGED <<open, out>>

Hand(t, r) ==
    /\ open /\ in[t] # NoMessage /\ queue = <<>>
    /\ out' = [out EXCEPT ![r] = in[t]]
    /\ in' = [in EXCEPT ![t] = NoMessage]
    /\ UNCHANGED <<open, queue>>

Get(r) ==
    /\ open /\ queue # <<>>
    /\ out' = [out EXCEPT ![r] = Head(queue)]
    /\ queue' = Tail(queue)
    /\ UNCHANGED <<open, in>>

Delete ==
    /\ open
    /\ open' = FALSE
    /\ queue' = <<>>
    /\ UNCHANGED <<in, out>>

Next ==
    \/ \E t \in Thread : Put(t) \/ Get(t)
    \/ \E S \in SUBSET Thread : Withdraw(S)
    \/ \E t \in Thread, m \in Message : Offer(t, m)
    \/ \E t, r \in Thread : Hand(t, r)
    \/ Delete

Spec == Init /\ [][Next]_vars
====

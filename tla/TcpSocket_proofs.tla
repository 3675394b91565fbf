--------------------------- MODULE TcpSocket_proofs ---------------------------
(***************************************************************************)
(* Proofs about TcpSocket for every set of priorities, every number of     *)
(* polls and every amount of traffic: types, that a recv asleep has missed *)
(* nothing, and that one asleep on a socket taken away will be woken.      *)
(* Only the last rests on the scheduling by priority: the first two would  *)
(* hold with any thread at the head of the ready queue.                    *)
(***************************************************************************)
EXTENDS TcpSocket, SequenceTheorems, TLAPS

Reports == {"data", "closed", "others"}

ReaderLabels == {"user", "call", "check", "ask", "poll", "drain", "look", "nap", "napping",
                 "block", "wait", "waiting", "woken", "relock", "failed", "leave", "unlock"}
CloserLabels == {"user", "call", "detach", "talk", "talking", "expecting", "listen", "event",
                 "linger", "block", "wait", "waiting", "woken", "relock", "failed", "unlock",
                 "closed"}
OtherLabels  == {"user", "call", "check", "leave", "unlock", "set", "setting", "talk",
                 "talking", "expecting", "listen"}

(* Each thread stays in its own calls; who waits for the flag is in the    *)
(* wait; the socket is open until close takes it.                          *)
Labelled ==
    /\ pc \in [Threads -> Labels]
    /\ pc[Reader] \in ReaderLabels
    /\ pc[Closer] \in CloserLabels
    /\ pc[Other] \in OtherLabels
    /\ waiter \in {Reader, Closer, NoTask}
    /\ waiter # NoTask => pc[waiter] = "waiting"
    /\ waiter = Reader => "read" \notin flags
    /\ open => pc[Closer] \in {"user", "call", "detach"} /\ attached

(* From the moment it cleared Notified until it returns from the wait, a   *)
(* call of the callback has left the flag raised.                          *)
Asking == {"poll", "drain", "look", "nap", "napping", "block", "wait", "waiting"}

Raised == open /\ notified /\ pc[Reader] \in Asking => "read" \in flags

(* With the flag down, the poll that found nothing is still true.          *)
Missed == rx # <<>> \/ packets # 0 \/ gone

Emptied ==
    /\ open /\ pc[Reader] = "look" /\ "read" \notin flags => rx = <<>>
    /\ open /\ pc[Reader] \in {"block", "wait", "waiting"} /\ "read" \notin flags => ~Missed

WInv == Labelled /\ Raised /\ Emptied

-----------------------------------------------------------------------------
LEMMA Names ==
    /\ Reader \in Threads /\ Closer \in Threads /\ Other \in Threads
    /\ Reader # Closer /\ Reader # Other /\ Closer # Other
    /\ NoTask \notin Threads
    /\ READ_FLAG = {"read"} /\ FINISHED_FLAG = {"read", "write"}
BY DEF Reader, Closer, Other, Threads, NoTask, READ_FLAG, WRITE_FLAG, FINISHED_FLAG

(* What EventFlags::set does to the waiter. *)
LEMMA SetWakes ==
    ASSUME Labelled, NEW here \in [Threads -> Labels], Set(here)
    PROVE  /\ flags' = FINISHED_FLAG /\ waiter' = NoTask
           /\ pc' \in [Threads -> Labels]
           /\ \A u \in Threads : pc'[u] = IF u = waiter THEN "woken" ELSE here[u]
<1>1. "woken" \in Labels BY DEF Labels
<1>2. CASE waiter = NoTask
    <2>1. flags' = FINISHED_FLAG /\ waiter' = NoTask /\ pc' = here BY <1>2, Names DEF Set
    <2>2. QED BY <1>2, <2>1, Names
<1>3. CASE waiter # NoTask
    <2>1. waiter' = NoTask /\ flags' = FINISHED_FLAG /\ pc' = [here EXCEPT ![waiter] = "woken"]
        BY <1>3 DEF Set
    <2>2. waiter \in Threads BY <1>3, Names DEF Labelled
    <2>3. QED BY <1>1, <2>1, <2>2
<1>4. QED BY <1>2, <1>3

(* Once the flags are up and nobody waits, only the places of the threads  *)
(* are left to show.                                                       *)
LEMMA FlagsUp ==
    ASSUME flags' = FINISHED_FLAG, waiter' = NoTask, pc' \in [Threads -> Labels],
           pc'[Reader] \in ReaderLabels, pc'[Closer] \in CloserLabels, pc'[Other] \in OtherLabels,
           open' => pc'[Closer] \in {"user", "call", "detach"} /\ attached'
    PROVE  WInv'
BY Names DEF WInv, Labelled, Raised, Emptied

LEMMA WokenOK ==
    ASSUME Labelled
    PROVE  /\ waiter # Other
           /\ waiter = Closer => ~open
           /\ "woken" \in ReaderLabels /\ "woken" \in CloserLabels
BY Names DEF Labelled, ReaderLabels, CloserLabels

-----------------------------------------------------------------------------
(* One lemma per group of actions: each keeps WInv. *)
LEMMA KeptByArrives ==
    ASSUME WInv, NEW r \in Reports, Arrives(r)
    PROVE  WInv'
<1>0. Labelled BY DEF WInv
<1>1. CASE Wakes
    <2>1. Set(pc) /\ UNCHANGED <<open, attached>>
        BY <1>1 DEF Arrives, object
    <2>2. pc \in [Threads -> Labels] BY <1>0 DEF Labelled
    <2>3. /\ flags' = FINISHED_FLAG /\ waiter' = NoTask /\ pc' \in [Threads -> Labels]
          /\ \A u \in Threads : pc'[u] = IF u = waiter THEN "woken" ELSE pc[u]
        BY <1>0, <2>1, <2>2, SetWakes
    <2>4. pc'[Reader] \in ReaderLabels /\ pc'[Closer] \in CloserLabels /\ pc'[Other] \in OtherLabels
        BY <1>0, <2>3, WokenOK, Names DEF Labelled
    <2>5. open' => pc'[Closer] \in {"user", "call", "detach"} /\ attached'
        BY <1>0, <2>1, <2>3, WokenOK, Names DEF Labelled
    <2>6. QED BY <2>3, <2>4, <2>5, FlagsUp
<1>2. CASE ~Wakes
    <2>1. UNCHANGED <<flags, waiter, pc, open, attached, notified, packets, gone>>
        BY <1>2 DEF Arrives, object, event_flag
    <2>2. QED BY <1>2, <2>1 DEF WInv, Labelled, Raised, Emptied, Missed, Wakes, Asking
<1>3. QED BY <1>1, <1>2

(* A thread goes on without touching the event flag and the socket, does   *)
(* not set Notified, and makes nothing arrive.                             *)
LEMMA Moved ==
    ASSUME WInv, NEW t \in Threads, NEW l \in Labels, Goto(t, l),
           UNCHANGED <<flags, waiter, open, attached>>, notified' => notified, pc[t] # "waiting",
           rx = <<>> => rx' = <<>>, ~Missed => ~Missed',
           t = Reader => l \in ReaderLabels \ {"waiting"},
           t = Closer => l \in CloserLabels /\ (open => l \in {"call", "detach"}),
           t = Other => l \in OtherLabels,
           t = Reader /\ l \in Asking => pc[Reader] \in Asking,
           t = Reader /\ l = "look" => rx' = <<>>,
           t = Reader /\ l \in {"block", "wait"} =>
               \/ pc[Reader] = "block"
               \/ pc[Reader] = "look" /\ packets = 0 /\ ~gone /\ rx' = rx /\ ~gone' /\ packets' = 0
    PROVE  WInv'
<1> USE Names
<1>1. pc' \in [Threads -> Labels] /\ \A u \in Threads : pc'[u] = IF u = t THEN l ELSE pc[u]
    BY DEF Goto, At, WInv, Labelled
<1>2. Labelled'
    BY <1>1 DEF WInv, Labelled
<1>3. Raised'
    BY <1>1 DEF WInv, Labelled, Raised
<1>4. Emptied'
    <2>1. open /\ pc'[Reader] = "look" /\ "read" \notin flags => rx' = <<>>
        BY <1>1 DEF WInv, Emptied
    <2>2. open /\ pc'[Reader] \in {"block", "wait", "waiting"} /\ "read" \notin flags => ~Missed'
        <3>1. CASE t = Reader
            BY <1>1, <3>1 DEF WInv, Emptied, Missed
        <3>2. CASE t # Reader
            BY <1>1, <3>2 DEF WInv, Emptied
        <3>3. QED BY <3>1, <3>2
    <2>3. QED BY <2>1, <2>2 DEF Emptied
<1>5. QED BY <1>2, <1>3, <1>4 DEF WInv

(* Taking a report happens where there is one, and leaves no new one.      *)
LEMMA TakenOne ==
    ASSUME TakeReport
    PROVE  rx # <<>> /\ Missed /\ attached' = attached /\ (notified' => notified)
BY DEF TakeReport, Missed

LEMMA KeptByCalls ==
    ASSUME WInv, NEW t \in Threads,
           \/ Calls(t) \/ NapEnds(t) \/ Enters(t) \/ Checks(t) \/ Naps(t) \/ Unblocks(t)
           \/ Relocks(t) \/ Unlocks(t) \/ Talks(t)
    PROVE  WInv'
<1> USE Names DEF Labels, ReaderLabels, CloserLabels, OtherLabels, Asking
<1>0. Labelled BY DEF WInv
<1>1. PICK l \in Labels :
          /\ Goto(t, l)
          /\ UNCHANGED <<flags, waiter, open, attached, rx, packets, gone>>
          /\ notified' => notified
          /\ pc[t] # "waiting"
          /\ t = Reader => l \in ReaderLabels \ {"waiting", "look", "block"}
          /\ t = Closer => l \in CloserLabels /\ (open => l \in {"call", "detach"})
          /\ t = Other => l \in OtherLabels
          /\ t = Reader /\ l \in Asking => pc[Reader] \in Asking
          /\ t = Reader /\ l = "wait" => pc[Reader] = "block"
    <2> USE DEF Running, Locks, Acquire, driver, object, event_flag
    <2>1. CASE Calls(t)
        BY <1>0, <2>1 DEF Calls, First, Labelled
    <2>2. CASE NapEnds(t)
        BY <1>0, <2>2 DEF NapEnds, Labelled
    <2>3. CASE Enters(t)
        BY <1>0, <2>3 DEF Enters, Labelled
    <2>4. CASE Checks(t)
        BY <1>0, <2>4 DEF Checks, Labelled
    <2>5. CASE Naps(t)
        BY <1>0, <2>5 DEF Naps, Labelled
    <2>6. CASE Unblocks(t)
        BY <1>0, <2>6 DEF Unblocks, Labelled
    <2>7. CASE Relocks(t)
        BY <1>0, <2>7 DEF Relocks, Labelled
    <2>8. CASE Unlocks(t)
        BY <1>0, <2>8 DEF Unlocks, Labelled
    <2>9. CASE Talks(t)
        BY <1>0, <2>9 DEF Talks, Labelled
    <2>10. QED BY <2>1, <2>2, <2>3, <2>4, <2>5, <2>6, <2>7, <2>8, <2>9
<1>2. QED
    BY <1>1, Moved DEF Missed

LEMMA KeptByRecv ==
    ASSUME WInv, Recv
    PROVE  WInv'
<1> USE Names DEF Running
<1>0. Labelled /\ pc \in [Threads -> Labels] BY DEF WInv, Labelled
<1>1. CASE Asks
    <2>1. /\ UNCHANGED <<flags, waiter, open, attached, rx, packets, gone>> /\ notified' = FALSE
          /\ pc' = [pc EXCEPT ![Reader] = "poll"] /\ pc[Reader] = "ask"
        BY <1>1 DEF Asks, Notified, Goto, At, event_flag, object
    <2>2. "poll" \in Labels /\ "poll" \in ReaderLabels BY DEF Labels, ReaderLabels
    <2>3. QED BY <1>0, <2>1, <2>2 DEF WInv, Labelled, Raised, Emptied, Missed
<1>2. CASE Polls
    <2>1. Goto(Reader, "drain") /\ pc[Reader] = "poll"
        BY <1>2 DEF Polls, Acquire
    <2>2. UNCHANGED <<flags, waiter, open, attached, notified, rx, packets, gone>>
        BY <1>2 DEF Polls, event_flag, object, driver
    <2>3. "drain" \in Labels /\ "drain" \in ReaderLabels /\ "poll" \in Asking
        BY DEF Labels, ReaderLabels, Asking
    <2>4. QED BY <2>1, <2>2, <2>3, Moved DEF Missed
<1>3. CASE Drains
    <2>1. UNCHANGED <<flags, waiter, open>> /\ pc[Reader] = "drain"
        BY <1>3 DEF Drains, event_flag, object
    <2>2. CASE TakeReport /\ UNCHANGED pc
        BY <2>1, <2>2, TakenOne DEF WInv, Labelled, Raised, Emptied
    <2>3. CASE rx = <<>> /\ Goto(Reader, "look") /\ UNCHANGED driver
        <3>1. "look" \in Labels /\ "look" \in ReaderLabels /\ "drain" \in Asking
            BY DEF Labels, ReaderLabels, Asking
        <3>2. QED BY <2>1, <2>3, <3>1, Moved DEF Missed, driver
    <2>4. QED BY <1>3, <2>2, <2>3 DEF Drains
<1>4. CASE Looks
    <2>1. UNCHANGED <<flags, waiter, open, attached, notified, rx, gone>> /\ pc[Reader] = "look"
        BY <1>4 DEF Looks, event_flag, object
    <2>2. {"leave", "nap", "block"} \subseteq Labels \cap ReaderLabels /\ "look" \in Asking
        BY DEF Labels, ReaderLabels, Asking
    <2>3. CASE Found
        <3>1. Goto(Reader, "leave") /\ packets # 0 BY <2>3 DEF Found
        <3>2. QED BY <2>1, <2>2, <3>1, Moved DEF Missed, Asking
    <2>4. CASE NotYet
        <3>1. Goto(Reader, "nap") /\ packets' = packets BY <2>4 DEF NotYet
        <3>2. QED BY <2>1, <2>2, <3>1, Moved DEF Missed
    <2>5. CASE Nothing
        <3>1. /\ Goto(Reader, "leave") \/ (~gone /\ Goto(Reader, "block"))
              /\ packets' = packets /\ packets = 0
            BY <2>5 DEF Nothing
        <3>2. CASE Goto(Reader, "leave") BY <2>1, <2>2, <3>1, <3>2, Moved DEF Missed
        <3>3. CASE ~gone /\ Goto(Reader, "block")
            BY <2>1, <2>2, <3>1, <3>3, Moved DEF Missed
        <3>4. QED BY <3>1, <3>2, <3>3
    <2>6. QED BY <1>4, <2>3, <2>4, <2>5 DEF Looks
<1>5. QED BY <1>1, <1>2, <1>3, <1>4 DEF Recv

(* The wait, the clearing of the flag and the time-out. *)
LEMMA KeptByWait ==
    ASSUME WInv, NEW t \in Threads, Waits(t) \/ Wakens(t) \/ TimesOut
    PROVE  WInv'
<1> USE Names DEF Running
<1>0. Labelled /\ pc \in [Threads -> Labels] BY DEF WInv, Labelled
<1>1. CASE Waits(t)
    <2>1. UNCHANGED <<flags, open, attached, notified, rx, packets, gone>> /\ pc[t] = "wait"
        BY <1>1 DEF Waits, object, driver
    <2>2. t \in {Reader, Closer} /\ "wait" \in Asking
          /\ {"failed", "woken", "waiting"} \subseteq Labels \cap ReaderLabels \cap CloserLabels
        BY <1>0, <2>1 DEF Labelled, OtherLabels, Labels, ReaderLabels, CloserLabels, Asking, Threads
    <2>3. t = Closer => ~open BY <1>0, <2>1 DEF Labelled
    <2>4. CASE Refused(t)
        BY <2>1, <2>2, <2>3, <2>4, Moved DEF Refused, Missed, Asking
    <2>5. CASE Granted(t)
        BY <2>1, <2>2, <2>3, <2>5, Moved DEF Granted, Missed, Asking
    <2>6. CASE Blocked(t)
        <3>1. waiter = NoTask /\ waiter' = t /\ pc' = [pc EXCEPT ![t] = "waiting"]
            BY <2>6 DEF Blocked, Goto, At
        <3>2. t = Reader => "read" \notin flags
            BY <2>6 DEF Blocked, Pattern
        <3>3. QED BY <1>0, <2>1, <2>2, <2>3, <3>1, <3>2 DEF WInv, Labelled, Raised, Emptied, Missed
    <2>7. QED BY <1>1, <2>4, <2>5, <2>6 DEF Waits
<1>2. CASE Wakens(t)
    <2>1. /\ UNCHANGED <<waiter, open, attached, notified, rx, packets, gone>> /\ pc[t] = "woken"
          /\ pc' = [pc EXCEPT ![t] = "relock"] /\ flags' \subseteq flags
        BY <1>2 DEF Wakens, Goto, At, Clears, object, driver
    <2>2. t \in {Reader, Closer} /\ "woken" \notin Asking /\ "relock" \notin Asking
          /\ "relock" \in Labels \cap ReaderLabels \cap CloserLabels
        BY <1>0, <2>1 DEF Labelled, OtherLabels, Labels, ReaderLabels, CloserLabels, Asking, Threads
    <2>3. t = Closer => ~open BY <1>0, <2>1 DEF Labelled
    <2>4. QED BY <1>0, <2>1, <2>2, <2>3 DEF WInv, Labelled, Raised, Emptied
<1>3. CASE TimesOut
    <2>1. /\ UNCHANGED <<flags, open, attached, notified, rx, packets, gone>>
          /\ waiter = Reader /\ waiter' = NoTask /\ pc' = [pc EXCEPT ![Reader] = "failed"]
        BY <1>3 DEF TimesOut, Goto, At, object, driver
    <2>2. "failed" \notin Asking /\ "failed" \in Labels \cap ReaderLabels
        BY DEF Asking, Labels, ReaderLabels
    <2>3. QED BY <1>0, <2>1, <2>2 DEF WInv, Labelled, Raised, Emptied
<1>4. QED BY <1>1, <1>2, <1>3

(* A thread that raises the flags on its way to l. *)
LEMMA KeptBySet ==
    ASSUME Labelled, NEW t \in Threads, NEW l \in Labels, Set(At(t, l)), pc[t] # "waiting",
           t = Reader => l \in ReaderLabels, t = Closer => l \in CloserLabels,
           t = Other => l \in OtherLabels, ~open, ~open'
    PROVE  WInv'
<1> USE Names
<1>1. /\ At(t, l) \in [Threads -> Labels]
      /\ \A u \in Threads : At(t, l)[u] = IF u = t THEN l ELSE pc[u]
    BY DEF At, Labelled
<1>2. /\ flags' = FINISHED_FLAG /\ waiter' = NoTask /\ pc' \in [Threads -> Labels]
      /\ \A u \in Threads : pc'[u] = IF u = waiter THEN "woken" ELSE At(t, l)[u]
    BY <1>1, SetWakes
<1>3. pc'[Reader] \in ReaderLabels /\ pc'[Closer] \in CloserLabels /\ pc'[Other] \in OtherLabels
    BY <1>1, <1>2, WokenOK DEF Labelled
<1>4. QED BY <1>2, <1>3, FlagsUp

LEMMA KeptByClose ==
    ASSUME WInv, NEW t \in Threads, Leaves(t) \/ Listens(t) \/ Answered(t) \/ Close
    PROVE  WInv'
<1> USE Names DEF Running
<1>0. Labelled /\ pc \in [Threads -> Labels] BY DEF WInv, Labelled
<1>1. CASE Leaves(t)
    <2>1. open' = open /\ pc[t] = "leave" /\ Finish(t) /\ UNCHANGED driver
        BY <1>1 DEF Leaves
    <2>2. /\ t \in {Reader, Other}
          /\ "unlock" \in Labels \cap ReaderLabels \cap OtherLabels /\ "unlock" \notin Asking
        BY <1>0, <2>1 DEF Labelled, Labels, ReaderLabels, CloserLabels, OtherLabels, Asking, Threads
    <2>3. CASE open
        BY <2>1, <2>2, <2>3, Moved DEF Finish, event_flag, driver, Missed
    <2>4. CASE ~open
        <3>1. Set(At(t, "unlock")) BY <2>1, <2>4 DEF Finish
        <3>2. QED BY <1>0, <2>1, <2>2, <2>4, <3>1, KeptBySet
    <2>5. QED BY <2>3, <2>4
<1>2. CASE Listens(t)
    <2>1. UNCHANGED <<flags, waiter, open, pc>> /\ TakeReport
        BY <1>2 DEF Listens, event_flag, object
    <2>2. QED BY <2>1, TakenOne DEF WInv, Labelled, Raised, Emptied
<1>3. CASE Answered(t)
    <2>1. UNCHANGED <<flags, waiter, open, attached, notified, rx, gone>>
          /\ pc[t] \in {"listen", "talking"}
        BY <1>3 DEF Answered, event_flag, object
    <2>2. {"event", "leave", "user"} \subseteq Labels /\ "event" \in CloserLabels
          /\ {"leave", "user"} \subseteq OtherLabels
        BY DEF Labels, CloserLabels, OtherLabels
    <2>3. CASE t = Closer
        <3>1. Goto(t, "event") /\ packets' = 0 /\ ~open
            BY <1>0, <1>3, <2>1, <2>3 DEF Answered, Sends, Labelled
        <3>2. QED BY <2>1, <2>2, <2>3, <3>1, Moved DEF Missed
    <2>4. CASE t = Other
        <3>1. packets' = packets /\ (Goto(t, "leave") \/ Goto(t, "user"))
            BY <1>3, <2>4 DEF Answered
        <3>2. QED BY <2>1, <2>2, <2>4, <3>1, Moved DEF Missed
    <2>5. QED BY <1>3, <2>3, <2>4 DEF Answered, Sends
<1>4. CASE Detaches
    <2>1. /\ UNCHANGED <<flags, waiter>> /\ open' = FALSE
          /\ pc' = [pc EXCEPT ![Closer] = "talk"] /\ pc[Closer] = "detach"
        BY <1>4 DEF Detaches, Goto, At, event_flag
    <2>2. "talk" \in Labels \cap CloserLabels BY DEF Labels, CloserLabels
    <2>3. QED BY <1>0, <2>1, <2>2 DEF WInv, Labelled, Raised, Emptied
<1>5. CASE Raises
    <2>1. open' = open /\ pc[Closer] = "event" /\ Set(At(Closer, "linger"))
        BY <1>5 DEF Raises, Event, object
    <2>2. "linger" \in Labels \cap CloserLabels /\ ~open
        BY <1>0, <2>1 DEF Labels, CloserLabels, Labelled
    <2>3. QED BY <1>0, <2>1, <2>2, KeptBySet
<1>6. CASE Lingers
    <2>1. /\ UNCHANGED <<flags, waiter, open, attached, notified, rx, packets, gone>>
          /\ pc[Closer] = "linger" /\ Goto(Closer, IF inside = {} THEN "unlock" ELSE "block")
        BY <1>6 DEF Lingers, event_flag, object, driver
    <2>2. {"unlock", "block"} \subseteq Labels \cap CloserLabels /\ ~open
        BY <1>0, <2>1 DEF Labels, CloserLabels, Labelled
    <2>3. CASE inside = {} BY <2>1, <2>2, <2>3, Moved DEF Missed
    <2>4. CASE inside # {} BY <2>1, <2>2, <2>4, Moved DEF Missed
    <2>5. QED BY <2>3, <2>4
<1>7. CASE Unanswered
    <2>1. /\ UNCHANGED <<flags, waiter, open, attached, notified, rx, packets, gone>>
          /\ pc[Closer] = "listen" /\ Goto(Closer, IF tries = 0 THEN "talk" ELSE "event")
        BY <1>7 DEF Unanswered, event_flag, driver
    <2>2. {"talk", "event"} \subseteq Labels \cap CloserLabels /\ ~open
        BY <1>0, <2>1 DEF Labels, CloserLabels, Labelled
    <2>3. CASE tries = 0 BY <2>1, <2>2, <2>3, Moved DEF Missed
    <2>4. CASE tries # 0 BY <2>1, <2>2, <2>4, Moved DEF Missed
    <2>5. QED BY <2>3, <2>4
<1>8. QED BY <1>1, <1>2, <1>3, <1>4, <1>5, <1>6, <1>7 DEF Close

LEMMA WaitStep == ASSUME WInv, [Next]_vars PROVE WInv'
<1>1. ASSUME NEW t \in Threads, Step(t) PROVE WInv'
    BY <1>1, KeptByCalls, KeptByWait, KeptByClose DEF Step
<1>2. ASSUME NEW t \in Threads, Runs(t) PROVE WInv'
    <2>1. CASE Step(t) BY <2>1, <1>1
    <2>2. CASE Recv BY <2>2, KeptByRecv
    <2>3. CASE Close BY <2>3, KeptByClose
    <2>4. QED BY <1>2, <2>1, <2>2, <2>3 DEF Runs
<1>3. ASSUME NEW t \in Threads, Calls(t) \/ NapEnds(t) PROVE WInv'
    BY <1>3, KeptByCalls
<1>4. CASE TimesOut
    BY <1>4, Names, KeptByWait
<1>5. ASSUME NEW r \in Reports, Arrives(r) PROVE WInv'
    BY <1>5, KeptByArrives
<1>6. CASE UNCHANGED vars
    BY <1>6 DEF vars, event_flag, object, driver, WInv, Labelled, Raised, Emptied, Missed
<1>7. QED BY <1>1, <1>2, <1>3, <1>4, <1>5, <1>6 DEF Next, Reports

LEMMA WaitInductive == Spec => []WInv
<1>1. Init => WInv
    BY Names DEF Init, WInv, Labelled, Labels, ReaderLabels, CloserLabels, OtherLabels,
                 Raised, Emptied, Asking, Missed
<1>2. WInv /\ [Next]_vars => WInv' BY WaitStep
<1>3. QED BY <1>1, <1>2, PTL DEF Spec

(* For every choice of priorities, whatever other threads read from the    *)
(* UART and whenever the interrupt comes: a recv asleep on an open socket  *)
(* has nothing waiting for it.                                             *)
THEOREM NoneMissed == Spec => []NothingMissed
<1>1. WInv => NothingMissed
    BY Names DEF WInv, Labelled, Emptied, Missed, NothingMissed
<1>2. QED BY WaitInductive, <1>1, PTL

-----------------------------------------------------------------------------
(* Types: the kernel's queues and owners, then the data. *)
KInv ==
    /\ rdq \in Seq(Threads)
    /\ owner \in [Mutexes -> Threads \cup {NoTask}]
    /\ waitq \in [Mutexes -> Seq(Threads)]

DInv ==
    /\ prio \in [Threads -> Levels]
    /\ flags \subseteq Flags
    /\ flgptn \in [Threads -> SUBSET Flags]
    /\ open \in BOOLEAN /\ inside \subseteq {Reader, Other}
    /\ tries \in 0 .. 1 /\ meddled \in BOOLEAN
    /\ attached \in BOOLEAN /\ notified \in BOOLEAN
    /\ rx \in Seq(Reports) /\ gone \in BOOLEAN
    /\ traffic \in Nat /\ packets \in Nat
    /\ packets + Len(rx) + traffic <= Traffic
    /\ retry \in 0 .. Attempts

LEMMA ReadyType ==
    ASSUME NEW q \in Seq(Threads), NEW t \in Threads, MakeReady(q, t)
    PROVE  rdq' \in Seq(Threads)
<1>1. PICK k \in 0 .. Len(q) : rdq' = SubSeq(q, 1, k) \o <<t>> \o SubSeq(q, k + 1, Len(q))
    BY DEF MakeReady
<1>2. SubSeq(q, 1, k) \in Seq(Threads) /\ SubSeq(q, k + 1, Len(q)) \in Seq(Threads)
    OBVIOUS
<1>3. QED BY <1>1, <1>2

LEMMA AcquireType ==
    ASSUME KInv, NEW t \in Threads, NEW m \in Mutexes, NEW l, rdq # <<>>, Acquire(t, m, l)
    PROVE  KInv'
<1>1. CASE owner[m] = NoTask
    BY <1>1 DEF KInv, Acquire
<1>2. CASE owner[m] # NoTask
    <2>1. /\ waitq' = [waitq EXCEPT ![m] = Append(@, t)] /\ rdq' = Tail(rdq) /\ owner' = owner
        BY <1>2 DEF Acquire
    <2>2. Append(waitq[m], t) \in Seq(Threads) /\ Tail(rdq) \in Seq(Threads)
        BY DEF KInv
    <2>3. QED BY <2>1, <2>2 DEF KInv
<1>3. QED BY <1>1, <1>2

LEMMA ReleaseType ==
    ASSUME KInv, NEW m \in Mutexes, NEW q \in Seq(Threads), Release(m, q)
    PROVE  KInv'
<1>1. CASE waitq[m] = <<>>
    BY <1>1 DEF KInv, Release
<1>2. CASE waitq[m] # <<>>
    <2> DEFINE s == waitq[m]
    <2>1. s \in Seq(Threads) /\ s # <<>> BY <1>2 DEF KInv
    <2>2. /\ owner' = [owner EXCEPT ![m] = Head(s)] /\ waitq' = [waitq EXCEPT ![m] = Tail(s)]
          /\ MakeReady(q, Head(s))
        BY <1>2 DEF Release
    <2> HIDE DEF s
    <2>3. Head(s) \in Threads /\ Tail(s) \in Seq(Threads) BY <2>1
    <2>4. rdq' \in Seq(Threads) BY <2>2, <2>3, ReadyType
    <2>5. QED BY <2>2, <2>3, <2>4 DEF KInv
<1>3. QED BY <1>1, <1>2

LEMMA SetType ==
    ASSUME KInv, Labelled, flgptn \in [Threads -> SUBSET Flags], NEW here, Set(here)
    PROVE  KInv' /\ flags' \subseteq Flags /\ flgptn' \in [Threads -> SUBSET Flags]
<1>1. flags' = Flags /\ owner' = owner /\ waitq' = waitq
    BY DEF Set, Flags
<1>2. CASE waiter = NoTask
    BY <1>1, <1>2 DEF Set, KInv
<1>3. CASE waiter # NoTask
    <2>1. waiter \in Threads BY <1>3, Names DEF Labelled
    <2>2. MakeReady(rdq, waiter) /\ flgptn' = [flgptn EXCEPT ![waiter] = FINISHED_FLAG]
        BY <1>3 DEF Set
    <2>3. rdq' \in Seq(Threads) BY <2>1, <2>2, ReadyType DEF KInv
    <2>4. QED BY <1>1, <2>1, <2>2, <2>3 DEF KInv, Flags
<1>4. QED BY <1>2, <1>3

LEMMA TakeType == ASSUME DInv, TakeReport
                  PROVE  /\ rx' \in Seq(Reports) /\ gone' \in BOOLEAN /\ packets' \in Nat
                         /\ packets' + Len(rx') <= packets + Len(rx)
                         /\ UNCHANGED <<attached, retry>> /\ notified' \in BOOLEAN
<1>1. rx \in Seq(Reports) /\ rx # <<>> /\ packets \in Nat BY DEF DInv, TakeReport
<1>2. Tail(rx) \in Seq(Reports) /\ Len(Tail(rx)) = Len(rx) - 1 /\ Len(rx) \in Nat BY <1>1
<1>3. packets' \in {packets, packets + 1} /\ rx' = Tail(rx) BY DEF TakeReport
<1>4. gone' \in BOOLEAN /\ notified' \in BOOLEAN BY DEF TakeReport
<1>5. QED BY <1>1, <1>2, <1>3, <1>4 DEF TakeReport

(* The kernel's state through every action of a thread. *)
LEMMA KernelStep ==
    ASSUME KInv, DInv, Labelled, NEW t \in Threads, Runs(t)
    PROVE  KInv'
<1> USE Names DEF Running
<1>0. Lock \in Mutexes /\ Smutex \in Mutexes BY DEF Mutexes
<1>1. rdq \in Seq(Threads) /\ (rdq # <<>> => Tail(rdq) \in Seq(Threads))
    BY DEF KInv
<1>2. ASSUME KInv, UNCHANGED kernel PROVE KInv'
    BY <1>2 DEF KInv, kernel
<1>3. ASSUME rdq # <<>>, rdq' = Tail(rdq), UNCHANGED <<owner, waitq>> PROVE KInv'
    BY <1>1, <1>3 DEF KInv
<1>4. CASE Enters(t)
    BY <1>0, <1>4, AcquireType DEF Enters, Locks
<1>5. CASE Checks(t) \/ Wakens(t) \/ Listens(t) \/ Asks \/ Drains \/ Detaches \/ Lingers
    BY <1>2, <1>5 DEF Checks, Wakens, Listens, Asks, Drains, Detaches, Lingers
<1>6. CASE Naps(t)
    BY <1>3, <1>6 DEF Naps
<1>7. CASE Unblocks(t) \/ Unlocks(t)
    BY <1>0, <1>1, <1>7, ReleaseType DEF Unblocks, Unlocks
<1>8. CASE Waits(t)
    <2>1. UNCHANGED <<owner, waitq>> /\ rdq # <<>> /\ (rdq' = rdq \/ rdq' = Tail(rdq))
        BY <1>8 DEF Waits, Refused, Granted, Blocked
    <2>2. QED BY <1>2, <1>3, <2>1 DEF kernel
<1>9. CASE Relocks(t)
    BY <1>0, <1>9, AcquireType DEF Relocks
<1>10. CASE Leaves(t)
    BY <1>2, <1>10, SetType DEF Leaves, Finish, DInv
<1>11. CASE Talks(t) \/ Polls
    BY <1>0, <1>11, AcquireType DEF Talks, Polls
<1>12. CASE Answered(t) \/ Looks \/ Unanswered
    BY <1>0, <1>1, <1>12, ReleaseType DEF Answered, Looks, Unanswered
<1>13. CASE Raises
    BY <1>13, SetType DEF Raises, Event, DInv
<1>14. QED
    BY <1>4, <1>5, <1>6, <1>7, <1>8, <1>9, <1>10, <1>11, <1>12, <1>13
    DEF Runs, Step, Recv, Close

LEMMA DataStep ==
    ASSUME KInv, DInv, Labelled, NEW t \in Threads, Runs(t)
    PROVE  DInv'
<1> USE Names, AttemptsAssumption DEF Running
<1>1. CASE Enters(t) \/ Naps(t) \/ Unblocks(t) \/ Unlocks(t) \/ Polls \/ Lingers
    <2>1. UNCHANGED <<prio, event_flag, object, driver, traffic>>
        BY <1>1 DEF Enters, Locks, Naps, Unblocks, Unlocks, Polls, Lingers
    <2>2. QED BY <2>1 DEF DInv, event_flag, object, driver
<1>2. CASE Checks(t)
    <2>1. UNCHANGED <<prio, event_flag, open, tries, meddled, driver, traffic>>
          /\ inside' = inside \cup {t} /\ pc[t] = "check"
        BY <1>2 DEF Checks
    <2>2. t \in {Reader, Other} BY <2>1 DEF Labelled, CloserLabels, Threads
    <2>3. QED BY <2>1, <2>2 DEF DInv, event_flag, driver
<1>3. CASE Waits(t) \/ Wakens(t)
    <2>1. UNCHANGED <<prio, object, driver, traffic>> /\ flags' \subseteq flags
          /\ flgptn' \in [Threads -> SUBSET Flags]
        BY <1>3 DEF Waits, Refused, Granted, Blocked, Wakens, Clears, DInv
    <2>2. QED BY <2>1 DEF DInv, object, driver
<1>4. CASE Relocks(t)
    BY <1>4 DEF Relocks, DInv, event_flag, driver
<1>5. CASE Leaves(t) \/ Raises
    <2>1. flags' \subseteq Flags /\ flgptn' \in [Threads -> SUBSET Flags]
        BY <1>5, SetType DEF Leaves, Finish, Raises, Event, DInv, event_flag
    <2>2. UNCHANGED <<prio, open, tries, meddled, driver, traffic>> /\ inside' \subseteq inside
        BY <1>5 DEF Leaves, Raises, object
    <2>3. QED BY <2>1, <2>2 DEF DInv, driver
<1>6. CASE Listens(t) \/ Drains
    <2>1. UNCHANGED <<prio, event_flag, object, traffic>> /\ (TakeReport \/ UNCHANGED driver)
        BY <1>6 DEF Listens, Drains
    <2>2. CASE TakeReport
        <3>1. /\ rx' \in Seq(Reports) /\ gone' \in BOOLEAN /\ packets' \in Nat
              /\ packets' + Len(rx') <= packets + Len(rx)
              /\ UNCHANGED <<attached, retry>> /\ notified' \in BOOLEAN
            BY <2>2, TakeType
        <3>2. Len(rx) \in Nat /\ Len(rx') \in Nat BY <3>1 DEF DInv
        <3>3. packets' + Len(rx') + traffic' <= Traffic
            BY <2>1, <3>1, <3>2, TrafficAssumption DEF DInv
        <3>4. QED BY <2>1, <3>1, <3>3 DEF DInv, event_flag, object
    <2>3. CASE UNCHANGED driver BY <2>1, <2>3 DEF DInv, event_flag, object, driver
    <2>4. QED BY <2>1, <2>2, <2>3
<1>7. CASE Answered(t) \/ Looks \/ Detaches \/ Asks \/ Talks(t)
    <2>1. UNCHANGED <<prio, event_flag, inside, tries, meddled, rx, gone, traffic>>
        BY <1>7 DEF Answered, Looks, Detaches, Asks, Talks, object
    <2>2. open' \in BOOLEAN /\ attached' \in BOOLEAN /\ notified' \in BOOLEAN
        BY <1>7 DEF Answered, Looks, Detaches, Asks, Talks, Notified, object, DInv
    <2>3. packets' \in Nat /\ packets' <= packets
        BY <1>7 DEF Answered, Looks, Found, NotYet, Nothing, Detaches, Asks, Talks, DInv
    <2>4. retry' \in 0 .. Attempts
        BY <1>7 DEF Answered, Looks, Found, NotYet, Again, Nothing, Detaches, Asks, Talks, DInv
    <2>5. Len(rx) \in Nat BY DEF DInv
    <2>6. QED BY <2>1, <2>2, <2>3, <2>4, <2>5, TrafficAssumption DEF DInv, event_flag
<1>8. CASE Unanswered
    BY <1>8 DEF Unanswered, DInv, event_flag, driver
<1>9. QED
    BY <1>1, <1>2, <1>3, <1>4, <1>5, <1>6, <1>7, <1>8 DEF Runs, Step, Recv, Close

LEMMA ArriveType ==
    ASSUME KInv, DInv, Labelled, NEW r \in Reports, Arrives(r)
    PROVE  KInv' /\ DInv'
<1>1. rx' \in Seq(Reports) /\ Len(rx') = Len(rx) + 1 /\ traffic' = traffic - 1 /\ traffic > 0
    BY DEF Arrives, DInv
<1>2. UNCHANGED <<prio, object, attached, packets, gone, retry>>
    BY DEF Arrives
<1>3. KInv' /\ flags' \subseteq Flags /\ flgptn' \in [Threads -> SUBSET Flags] /\ notified' \in BOOLEAN
    BY SetType DEF Arrives, KInv, kernel, event_flag, DInv
<1>4. Len(rx) \in Nat BY DEF DInv
<1>5. QED BY <1>1, <1>2, <1>3, <1>4, TrafficAssumption DEF DInv, object

LEMMA TypeStep == ASSUME KInv, DInv, Labelled, [Next]_vars PROVE KInv' /\ DInv'
<1>1. ASSUME NEW t \in Threads, Runs(t) PROVE KInv' /\ DInv'
    BY <1>1, KernelStep, DataStep
<1>2. ASSUME NEW t \in Threads, Calls(t) \/ NapEnds(t) PROVE KInv' /\ DInv'
    <2>1. UNCHANGED <<prio, owner, waitq, event_flag, object, driver, traffic>> /\ MakeReady(rdq, t)
        BY <1>2 DEF Calls, NapEnds
    <2>2. rdq' \in Seq(Threads) BY <2>1, ReadyType DEF KInv
    <2>3. QED BY <2>1, <2>2 DEF KInv, DInv, event_flag, object, driver
<1>3. CASE TimesOut
    <2>1. UNCHANGED <<prio, owner, waitq, flags, flgptn, object, driver, traffic>> /\ MakeReady(rdq, Reader)
        BY <1>3 DEF TimesOut
    <2>2. rdq' \in Seq(Threads) BY <2>1, Names, ReadyType DEF KInv
    <2>3. QED BY <2>1, <2>2 DEF KInv, DInv, object, driver
<1>4. ASSUME NEW r \in Reports, Arrives(r) PROVE KInv' /\ DInv'
    BY <1>4, ArriveType
<1>5. CASE UNCHANGED vars
    BY <1>5 DEF vars, kernel, event_flag, object, driver, KInv, DInv
<1>6. QED BY <1>1, <1>2, <1>3, <1>4, <1>5 DEF Next, Reports

LEMMA TypeInductive == Spec => [](KInv /\ DInv)
<1>1. Init => KInv /\ DInv
    <2> SUFFICES ASSUME Init PROVE KInv /\ DInv OBVIOUS
    <2>1. KInv BY DEF Init, KInv
    <2>2. flags \subseteq Flags /\ flgptn \in [Threads -> SUBSET Flags]
        BY DEF Init
    <2>3. rx \in Seq(Reports) /\ Len(rx) = 0 /\ packets = 0 /\ traffic = Traffic
        BY DEF Init
    <2>4. packets + Len(rx) + traffic <= Traffic BY <2>3, TrafficAssumption
    <2>5. /\ prio \in [Threads -> Levels] /\ open \in BOOLEAN /\ inside \subseteq {Reader, Other}
          /\ meddled \in BOOLEAN /\ attached \in BOOLEAN /\ notified \in BOOLEAN /\ gone \in BOOLEAN
        BY DEF Init
    <2>6. traffic \in Nat /\ packets \in Nat /\ retry \in 0 .. Attempts /\ tries \in 0 .. 1
        BY <2>3, AttemptsAssumption, TrafficAssumption DEF Init
    <2>7. DInv
        BY <2>2, <2>3, <2>4, <2>5, <2>6 DEF DInv
    <2>8. QED BY <2>1, <2>7
<1>2. WInv /\ KInv /\ DInv /\ [Next]_vars => KInv' /\ DInv'
    BY TypeStep DEF WInv
<1>3. QED BY WaitInductive, <1>1, <1>2, PTL DEF Spec

(* Types, for every choice of the constants; with them the bounds: no      *)
(* report is counted twice, and no poll goes past its attempts.            *)
THEOREM TypeCorrect == Spec => []TypeOK
<1>1. WInv /\ KInv /\ DInv => TypeOK
    <2> SUFFICES ASSUME WInv, KInv, DInv PROVE TypeOK OBVIOUS
    <2>1. Len(rx) \in Nat BY DEF DInv
    <2>2. traffic \in 0 .. Traffic /\ packets \in 0 .. Traffic
        BY <2>1, TrafficAssumption DEF DInv
    <2>3. QED BY <2>2 DEF WInv, Labelled, KInv, DInv, TypeOK, Reports
<1>2. QED BY WaitInductive, TypeInductive, <1>1, PTL

-----------------------------------------------------------------------------
(* The ready queue: who is in it, and who is before whom.                  *)
Among(s) == {s[i] : i \in 1 .. Len(s)}

(* u may be before v in the ready queue.  Whoever is before a reader that  *)
(* is about to wait has taken the processor from it, and is more urgent.   *)
Before(u, v, w) ==
    /\ u # v /\ prio[u] <= prio[v]
    /\ v = Reader /\ w => prio[u] < prio[v]

InLine(q, w) == \A i, j \in 1 .. Len(q) : i < j => Before(q[i], q[j], w)

With(q, k, t) == SubSeq(q, 1, k) \o <<t>> \o SubSeq(q, k + 1, Len(q))

LEMMA Inserted ==
    ASSUME NEW q \in Seq(Threads), NEW t \in Threads, NEW k \in 0 .. Len(q)
    PROVE  /\ With(q, k, t) \in Seq(Threads) /\ Len(With(q, k, t)) = Len(q) + 1
           /\ \A i \in 1 .. Len(q) + 1 :
                  With(q, k, t)[i] = IF i <= k THEN q[i] ELSE IF i = k + 1 THEN t ELSE q[i - 1]
<1> DEFINE A == SubSeq(q, 1, k)
           B == SubSeq(q, k + 1, Len(q))
           C == A \o <<t>>
<1>1. /\ A \in Seq(Threads) /\ Len(A) = k
      /\ \A i \in 1 .. k : A[i] = q[i]
    <2>1. \A i \in 1 .. k : q[i] \in Threads OBVIOUS
    <2>2. QED BY <2>1, SubSeqProperties
<1>2. /\ B \in Seq(Threads) /\ Len(B) = Len(q) - k
      /\ \A i \in 1 .. Len(q) - k : B[i] = q[k + i]
    <2>1. \A i \in k + 1 .. Len(q) : q[i] \in Threads OBVIOUS
    <2>2. QED BY <2>1, SubSeqProperties
<1> HIDE DEF A, B
<1>3. /\ C \in Seq(Threads) /\ Len(C) = k + 1
      /\ \A i \in 1 .. k + 1 : C[i] = IF i <= k THEN q[i] ELSE t
    BY <1>1
<1> HIDE DEF C
<1>4. /\ C \o B \in Seq(Threads) /\ Len(C \o B) = Len(C) + Len(B)
      /\ \A i \in 1 .. Len(C) + Len(B) :
             (C \o B)[i] = IF i <= Len(C) THEN C[i] ELSE B[i - Len(C)]
    BY <1>2, <1>3, ConcatProperties
<1>5. With(q, k, t) = C \o B BY DEF A, B, C, With
<1> DEFINE D == C \o B
<1>6. /\ D \in Seq(Threads) /\ Len(D) = Len(q) + 1
      /\ \A i \in 1 .. Len(q) + 1 :
             D[i] = IF i <= k THEN q[i] ELSE IF i = k + 1 THEN t ELSE q[i - 1]
    <2>1. D \in Seq(Threads) /\ Len(D) = Len(q) + 1
        BY <1>2, <1>3, <1>4
    <2>2. \A i \in 1 .. Len(q) + 1 :
             D[i] = IF i <= k + 1 THEN C[i] ELSE B[i - (k + 1)]
        BY <1>2, <1>3, <1>4
    <2> HIDE DEF D
    <2>3. ASSUME NEW i \in 1 .. Len(q) + 1
          PROVE D[i] = IF i <= k THEN q[i] ELSE IF i = k + 1 THEN t ELSE q[i - 1]
        <3>1. CASE i <= k + 1 BY <1>3, <2>2, <3>1
        <3>2. CASE i > k + 1
            <4>1. D[i] = B[i - (k + 1)] /\ i - (k + 1) \in 1 .. Len(q) - k BY <2>2, <3>2
            <4>2. B[i - (k + 1)] = q[k + (i - (k + 1))] BY <1>2, <4>1
            <4>3. k + (i - (k + 1)) = i - 1 OBVIOUS
            <4>4. QED BY <3>2, <4>1, <4>2, <4>3
        <3>3. QED BY <3>1, <3>2
    <2>4. QED BY <2>1, <2>3
<1>7. With(q, k, t) = D BY <1>5
<1> HIDE DEF D
<1>8. QED BY <1>6, <1>7

(* The same, place by place. *)
LEMMA Spliced ==
    ASSUME NEW q \in Seq(Threads), NEW t \in Threads, NEW k \in 0 .. Len(q),
           NEW r, r = With(q, k, t)
    PROVE  /\ r \in Seq(Threads) /\ Len(q) \in Nat
           /\ \A i \in 1 .. k : r[i] = q[i] /\ i \in 1 .. Len(q) /\ i \in 1 .. Len(r)
           /\ r[k + 1] = t /\ k + 1 \in 1 .. Len(r)
           /\ \A i \in k + 1 .. Len(q) :
                  r[i + 1] = q[i] /\ i \in 1 .. Len(q) /\ i + 1 \in 1 .. Len(r)
           /\ \A i \in 1 .. Len(r) : i \in 1 .. k \/ i = k + 1 \/ i - 1 \in k + 1 .. Len(q)
<1> DEFINE n == Len(q)
<1>1. n \in Nat /\ k \in 0 .. n OBVIOUS
<1>2. /\ r \in Seq(Threads) /\ Len(r) = n + 1
      /\ \A i \in 1 .. n + 1 :
             r[i] = IF i <= k THEN q[i] ELSE IF i = k + 1 THEN t ELSE q[i - 1]
    BY Inserted
<1> HIDE DEF n
<1>3. \A i \in 1 .. k : r[i] = q[i] /\ i \in 1 .. n /\ i \in 1 .. n + 1
    BY <1>1, <1>2
<1>4. r[k + 1] = t /\ k + 1 \in 1 .. n + 1
    <2>1. k + 1 \in 1 .. n + 1 /\ ~(k + 1 <= k) BY <1>1
    <2>2. QED BY <1>2, <2>1
<1>5. ASSUME NEW i \in k + 1 .. n
      PROVE  r[i + 1] = q[i] /\ i \in 1 .. n /\ i + 1 \in 1 .. n + 1
    <2>1. i \in 1 .. n /\ i + 1 \in 1 .. n + 1 /\ ~(i + 1 <= k) /\ i + 1 # k + 1 /\ i + 1 - 1 = i
        BY <1>1
    <2>2. r[i + 1] = q[i + 1 - 1] BY <1>2, <2>1
    <2>3. QED BY <2>1, <2>2
<1>6. \A i \in 1 .. n + 1 : i \in 1 .. k \/ i = k + 1 \/ i - 1 \in k + 1 .. n
    BY <1>1
<1>7. QED BY <1>1, <1>2, <1>3, <1>4, <1>5, <1>6 DEF n

LEMMA ReadyInLine ==
    ASSUME prio \in [Threads -> Nat], NEW q \in Seq(Threads), NEW t \in Threads, NEW w \in BOOLEAN,
           t \notin Among(q), InLine(q, w), t = Reader => ~w, MakeReady(q, t)
    PROVE  rdq' \in Seq(Threads) /\ InLine(rdq', w) /\ Among(rdq') = Among(q) \cup {t}
<1>1. PICK k \in 0 .. Len(q) :
          /\ \A i \in 1 .. k : prio[q[i]] <= prio[t]
          /\ \A i \in (k + 1) .. Len(q) : prio[q[i]] > prio[t]
          /\ rdq' = With(q, k, t)
    BY DEF MakeReady, With
<1> DEFINE r == rdq'
<1>2. /\ r \in Seq(Threads) /\ Len(q) \in Nat
      /\ \A i \in 1 .. k : r[i] = q[i] /\ i \in 1 .. Len(q) /\ i \in 1 .. Len(r)
      /\ r[k + 1] = t /\ k + 1 \in 1 .. Len(r)
      /\ \A i \in k + 1 .. Len(q) :
             r[i + 1] = q[i] /\ i \in 1 .. Len(q) /\ i + 1 \in 1 .. Len(r)
      /\ \A i \in 1 .. Len(r) : i \in 1 .. k \/ i = k + 1 \/ i - 1 \in k + 1 .. Len(q)
    BY <1>1, Spliced
<1> HIDE DEF r
<1>3. InLine(r, w)
    <2> SUFFICES ASSUME NEW i \in 1 .. Len(r), NEW j \in 1 .. Len(r), i < j
                 PROVE  Before(r[i], r[j], w)
        BY DEF InLine
    <2>1. \A m \in 1 .. Len(q) : q[m] \in Threads /\ q[m] # t /\ prio[q[m]] \in Nat
        BY DEF Among
    <2>2. prio[t] \in Nat OBVIOUS
    <2>3. CASE j \in 1 .. k
        <3>1. i \in 1 .. k BY <2>3
        <3>2. QED BY <1>2, <2>3, <3>1 DEF InLine
    <2>4. CASE j = k + 1
        <3>1. i \in 1 .. k BY <2>4
        <3>2. r[j] = t /\ r[i] = q[i] /\ i \in 1 .. Len(q) BY <1>2, <2>4, <3>1
        <3>3. prio[q[i]] <= prio[t] /\ q[i] # t BY <1>1, <2>1, <3>1, <3>2
        <3>4. QED BY <3>2, <3>3 DEF Before
    <2>5. CASE j - 1 \in k + 1 .. Len(q)
        <3> DEFINE m == j - 1
        <3>1. m \in k + 1 .. Len(q) /\ j = m + 1 BY <2>5
        <3> HIDE DEF m
        <3>2. r[j] = q[m] /\ m \in 1 .. Len(q) BY <1>2, <3>1
        <3>3. CASE i \in 1 .. k
            <4>1. r[i] = q[i] /\ i \in 1 .. Len(q) BY <1>2, <3>3
            <4>2. i < m BY <3>1, <3>3
            <4>3. QED BY <3>2, <4>1, <4>2 DEF InLine
        <3>4. CASE i = k + 1
            <4>1. r[i] = t BY <1>2, <3>4
            <4>2. prio[q[m]] > prio[t] /\ q[m] # t /\ prio[q[m]] \in Nat
                BY <1>1, <2>1, <3>1, <3>2
            <4>3. QED BY <2>2, <3>2, <4>1, <4>2 DEF Before
        <3>5. CASE i - 1 \in k + 1 .. Len(q)
            <4> DEFINE n == i - 1
            <4>1. n \in k + 1 .. Len(q) /\ i = n + 1 BY <3>5
            <4> HIDE DEF n
            <4>2. r[i] = q[n] /\ n \in 1 .. Len(q) BY <1>2, <4>1
            <4>3. n < m BY <3>1, <4>1
            <4>4. QED BY <3>2, <4>2, <4>3 DEF InLine
        <3>6. QED BY <1>2, <3>3, <3>4, <3>5
    <2>6. QED BY <1>2, <2>3, <2>4, <2>5
<1>4. Among(r) = Among(q) \cup {t}
    <2>1. ASSUME NEW u \in Among(q) PROVE u \in Among(r)
        <3>1. PICK n \in 1 .. Len(q) : u = q[n] BY DEF Among
        <3>2. CASE n \in 1 .. k
            <4>1. u = r[n] /\ n \in 1 .. Len(r) BY <1>2, <3>1, <3>2
            <4>2. QED BY <4>1 DEF Among
        <3>3. CASE n \in k + 1 .. Len(q)
            <4>1. u = r[n + 1] /\ n + 1 \in 1 .. Len(r) BY <1>2, <3>1, <3>3
            <4>2. QED BY <4>1 DEF Among
        <3>4. QED BY <1>2, <3>2, <3>3
    <2>2. t \in Among(r)
        BY <1>2 DEF Among
    <2>3. ASSUME NEW u \in Among(r) PROVE u \in Among(q) \cup {t}
        <3>1. PICK n \in 1 .. Len(r) : u = r[n] BY DEF Among
        <3>2. CASE n \in 1 .. k
            <4>1. u = q[n] /\ n \in 1 .. Len(q) BY <1>2, <3>1, <3>2
            <4>2. QED BY <4>1 DEF Among
        <3>3. CASE n = k + 1 BY <1>2, <3>1, <3>3
        <3>4. CASE n - 1 \in k + 1 .. Len(q)
            <4> DEFINE m == n - 1
            <4>1. m \in k + 1 .. Len(q) /\ n = m + 1 BY <3>4
            <4> HIDE DEF m
            <4>2. u = q[m] /\ m \in 1 .. Len(q) BY <1>2, <3>1, <4>1
            <4>3. QED BY <4>2 DEF Among
        <3>5. QED BY <1>2, <3>2, <3>3, <3>4
    <2>4. QED BY <2>1, <2>2, <2>3
<1>5. QED BY <1>2, <1>3, <1>4 DEF r

LEMMA TailInLine ==
    ASSUME NEW q \in Seq(Threads), q # <<>>, NEW w, InLine(q, w)
    PROVE  /\ Tail(q) \in Seq(Threads) /\ InLine(Tail(q), w)
           /\ Among(Tail(q)) = Among(q) \ {Head(q)}
           /\ Head(q) \in Among(q) /\ Among(q) \subseteq Threads
           /\ \A u \in Among(q) \ {Head(q)} : Before(Head(q), u, w)
<1>1. /\ Tail(q) \in Seq(Threads) /\ Len(Tail(q)) = Len(q) - 1 /\ Head(q) = q[1]
      /\ \A i \in 1 .. Len(q) - 1 : Tail(q)[i] = q[i + 1]
    OBVIOUS
<1>2. InLine(Tail(q), w) BY <1>1 DEF InLine
<1>3. \A i \in 2 .. Len(q) : q[i] # q[1] BY DEF InLine, Before
<1>4. ASSUME NEW u \in Among(q) \ {Head(q)} PROVE u \in Among(Tail(q)) /\ Before(Head(q), u, w)
    <2>1. PICK i \in 1 .. Len(q) : u = q[i] BY DEF Among
    <2>2. i # 1 BY <1>1, <2>1
    <2>3. u = Tail(q)[i - 1] /\ i - 1 \in 1 .. Len(Tail(q)) BY <1>1, <2>1, <2>2
    <2>4. QED BY <1>1, <2>1, <2>2, <2>3 DEF Among, InLine
<1>5. ASSUME NEW u \in Among(Tail(q)) PROVE u \in Among(q) \ {Head(q)}
    <2>1. PICK i \in 1 .. Len(q) - 1 : u = q[i + 1] BY <1>1 DEF Among
    <2>2. QED BY <1>1, <1>3, <2>1 DEF Among
<1>6. Head(q) \in Among(q) /\ Among(q) \subseteq Threads BY <1>1 DEF Among
<1>7. QED BY <1>1, <1>2, <1>4, <1>5, <1>6

-----------------------------------------------------------------------------
(* Where the threads are, with labels p, ready queue q and wait queues wq: *)
(* a ready thread is not asleep and waits for no mutex, a thread waits for *)
(* one mutex, on its way to a label behind an Acquire of it.               *)
Asleep == {"user", "napping", "expecting", "waiting", "closed"}

Queued(m) == IF m = Lock THEN {"check", "detach", "linger", "leave", "setting"}
                         ELSE {"drain", "talking"}

Distinct(s) == \A i, j \in 1 .. Len(s) : i < j => s[i] # s[j]

PlacedIn(p, q, wq) ==
    /\ InLine(q, p[Reader] = "wait")
    /\ \A t \in Among(q) : p[t] \notin Asleep
    /\ \A m \in Mutexes :
           /\ Distinct(wq[m])
           /\ \A t \in Among(wq[m]) : p[t] \in Queued(m) /\ t \notin Among(q)
    /\ \A t \in Threads : p[t] \in {"wait", "unlock"} => t \in Among(q)

Placed == PlacedIn(pc, rdq, waitq)

Kernel ==
    /\ KInv /\ Labelled
    /\ prio \in [Threads -> Nat]

LEMMA StayAt ==
    ASSUME Kernel, Placed, NEW t \in Threads, rdq # <<>>, Head(rdq) = t, NEW l \in Labels \ Asleep
    PROVE  PlacedIn(At(t, l), rdq, waitq) /\ At(t, l) \in [Threads -> Labels]
<1>1. /\ At(t, l) \in [Threads -> Labels]
      /\ \A u \in Threads : At(t, l)[u] = IF u = t THEN l ELSE pc[u]
    BY DEF At, Kernel, Labelled
<1>2. /\ t \in Among(rdq) /\ Among(rdq) \subseteq Threads
      /\ \A m \in Mutexes : Among(waitq[m]) \subseteq Threads
    BY DEF Among, Kernel, KInv
<1>3. InLine(rdq, At(t, l)[Reader] = "wait")
    <2>1. CASE t = Reader
        <3>1. rdq[1] = Reader /\ rdq \in Seq(Threads) BY <2>1 DEF Kernel, KInv
        <3>2. ASSUME NEW i \in 1 .. Len(rdq), NEW j \in 1 .. Len(rdq), i < j
              PROVE  Before(rdq[i], rdq[j], At(t, l)[Reader] = "wait")
            <4>1. /\ Before(rdq[1], rdq[j], pc[Reader] = "wait")
                  /\ Before(rdq[i], rdq[j], pc[Reader] = "wait")
                BY <3>1, <3>2 DEF Placed, PlacedIn, InLine
            <4>2. QED BY <3>1, <4>1 DEF Before
        <3>3. QED BY <3>2 DEF InLine
    <2>2. CASE t # Reader
        BY <1>1, <2>2, Names DEF Placed, PlacedIn
    <2>3. QED BY <2>1, <2>2
<1>4. \A u \in Among(rdq) : At(t, l)[u] \notin Asleep
    BY <1>1, <1>2 DEF Placed, PlacedIn
<1>5. \A m \in Mutexes :
           /\ Distinct(waitq[m])
           /\ \A u \in Among(waitq[m]) : At(t, l)[u] \in Queued(m) /\ u \notin Among(rdq)
    BY <1>1, <1>2 DEF Placed, PlacedIn
<1>6. \A u \in Threads : At(t, l)[u] \in {"wait", "unlock"} => u \in Among(rdq)
    BY <1>1, <1>2 DEF Placed, PlacedIn
<1>7. QED BY <1>1, <1>3, <1>4, <1>5, <1>6 DEF PlacedIn

LEMMA SleepAt ==
    ASSUME Kernel, Placed, NEW t \in Threads, rdq # <<>>, Head(rdq) = t,
           NEW l \in Labels \ {"wait", "unlock"}
    PROVE  /\ PlacedIn(At(t, l), Tail(rdq), waitq) /\ At(t, l) \in [Threads -> Labels]
           /\ Tail(rdq) \in Seq(Threads)
           /\ Among(Tail(rdq)) = Among(rdq) \ {t}
           /\ \A m \in Mutexes : t \notin Among(waitq[m])
<1>1. /\ At(t, l) \in [Threads -> Labels]
      /\ \A u \in Threads : At(t, l)[u] = IF u = t THEN l ELSE pc[u]
    BY DEF At, Kernel, Labelled
<1>2. /\ Tail(rdq) \in Seq(Threads) /\ InLine(Tail(rdq), pc[Reader] = "wait")
      /\ Among(Tail(rdq)) = Among(rdq) \ {t} /\ t \in Among(rdq) /\ Among(rdq) \subseteq Threads
    BY TailInLine DEF Kernel, KInv, Placed, PlacedIn
<1>3. \A m \in Mutexes : Among(waitq[m]) \subseteq Threads /\ t \notin Among(waitq[m])
    <2>1. \A m \in Mutexes : Among(waitq[m]) \subseteq Threads BY DEF Among, Kernel, KInv
    <2>2. QED BY <1>2, <2>1 DEF Placed, PlacedIn
<1>4. InLine(Tail(rdq), At(t, l)[Reader] = "wait")
    <2>1. CASE t = Reader
        BY <1>1, <1>2, <2>1 DEF InLine, Before
    <2>2. CASE t # Reader
        BY <1>1, <1>2, <2>2, Names
    <2>3. QED BY <2>1, <2>2
<1>5. \A u \in Among(Tail(rdq)) : At(t, l)[u] \notin Asleep
    BY <1>1, <1>2 DEF Placed, PlacedIn
<1>6. \A m \in Mutexes :
           /\ Distinct(waitq[m])
           /\ \A u \in Among(waitq[m]) : At(t, l)[u] \in Queued(m) /\ u \notin Among(Tail(rdq))
    BY <1>1, <1>2, <1>3 DEF Placed, PlacedIn
<1>7. \A u \in Threads : At(t, l)[u] \in {"wait", "unlock"} => u \in Among(Tail(rdq))
    BY <1>1, <1>2 DEF Placed, PlacedIn
<1>8. QED BY <1>1, <1>2, <1>3, <1>4, <1>5, <1>6, <1>7 DEF PlacedIn

(* A thread that is nowhere gets a label and becomes ready. *)
LEMMA JoinAt ==
    ASSUME prio \in [Threads -> Nat], NEW p \in [Threads -> Labels], NEW q \in Seq(Threads),
           NEW wq \in [Mutexes -> Seq(Threads)], PlacedIn(p, q, wq),
           NEW u \in Threads, u \notin Among(q), \A m \in Mutexes : u \notin Among(wq[m]),
           NEW l \in Labels \ (Asleep \cup {"wait", "unlock"}), MakeReady(q, u)
    PROVE  /\ PlacedIn([p EXCEPT ![u] = l], rdq', wq)
           /\ rdq' \in Seq(Threads) /\ Among(rdq') = Among(q) \cup {u}
<1> DEFINE r == [p EXCEPT ![u] = l]
<1>1. r \in [Threads -> Labels] /\ \A t \in Threads : r[t] = IF t = u THEN l ELSE p[t]
    OBVIOUS
<1>2. Among(q) \subseteq Threads /\ \A m \in Mutexes : Among(wq[m]) \subseteq Threads
    BY DEF Among
<1> HIDE DEF r
<1>3. InLine(q, r[Reader] = "wait")
    BY <1>1, Names DEF PlacedIn, InLine, Before
<1>4. rdq' \in Seq(Threads) /\ InLine(rdq', r[Reader] = "wait") /\ Among(rdq') = Among(q) \cup {u}
    BY <1>1, <1>3, ReadyInLine
<1>5. \A t \in Among(rdq') : r[t] \notin Asleep
    BY <1>1, <1>2, <1>4 DEF PlacedIn
<1>6. \A m \in Mutexes :
           /\ Distinct(wq[m])
           /\ \A t \in Among(wq[m]) : r[t] \in Queued(m) /\ t \notin Among(rdq')
    BY <1>1, <1>2, <1>4 DEF PlacedIn
<1>7. \A t \in Threads : r[t] \in {"wait", "unlock"} => t \in Among(rdq')
    BY <1>1, <1>4 DEF PlacedIn
<1>8. QED BY <1>3, <1>4, <1>5, <1>6, <1>7 DEF PlacedIn, r

LEMMA AcquirePlaced ==
    ASSUME Kernel, Placed, NEW t \in Threads, rdq # <<>>, Head(rdq) = t, NEW m \in Mutexes,
           NEW l \in Queued(m), Acquire(t, m, l), prio' = prio
    PROVE  /\ Placed' /\ pc' = At(t, l) /\ t \notin Among(waitq[m])
           /\ \/ /\ owner[m] = NoTask /\ owner' = [owner EXCEPT ![m] = t]
                 /\ rdq' = rdq /\ waitq' = waitq
              \/ /\ owner[m] # NoTask /\ owner' = owner
                 /\ Among(rdq') = Among(rdq) \ {t}
                 /\ Among(waitq'[m]) = Among(waitq[m]) \cup {t}
                 /\ \A n \in Mutexes \ {m} : waitq'[n] = waitq[n]
<1>1. l \in Labels /\ l \notin Asleep /\ l \notin {"wait", "unlock"} /\ pc' = At(t, l)
    BY DEF Queued, Labels, Asleep, Acquire, Goto
<1>2. /\ PlacedIn(At(t, l), Tail(rdq), waitq) /\ At(t, l) \in [Threads -> Labels]
      /\ Tail(rdq) \in Seq(Threads) /\ Among(Tail(rdq)) = Among(rdq) \ {t}
      /\ \A n \in Mutexes : t \notin Among(waitq[n])
    BY <1>1, SleepAt
<1>3. CASE owner[m] = NoTask
    <2>1. owner' = [owner EXCEPT ![m] = t] /\ rdq' = rdq /\ waitq' = waitq
        BY <1>3 DEF Acquire
    <2>2. PlacedIn(At(t, l), rdq, waitq) BY <1>1, StayAt
    <2>3. Placed' BY <1>1, <2>1, <2>2 DEF Placed, PlacedIn, InLine, Before
    <2>4. QED BY <1>1, <1>2, <1>3, <2>1, <2>3
<1>4. CASE owner[m] # NoTask
    <2> DEFINE s == waitq[m]
    <2>1. s \in Seq(Threads) /\ Distinct(s) /\ t \notin Among(s)
        BY <1>2 DEF Kernel, KInv, Placed, PlacedIn
    <2>2. owner' = owner /\ rdq' = Tail(rdq) /\ waitq' = [waitq EXCEPT ![m] = Append(s, t)]
        BY <1>4 DEF Acquire
    <2> HIDE DEF s
    <2>3. /\ Len(Append(s, t)) = Len(s) + 1
          /\ \A i \in 1 .. Len(s) + 1 : Append(s, t)[i] = IF i = Len(s) + 1 THEN t ELSE s[i]
        BY <2>1
    <2>4. Distinct(Append(s, t))
        BY <2>1, <2>3 DEF Distinct, Among
    <2>5. Among(Append(s, t)) = Among(s) \cup {t}
        <3>1. ASSUME NEW u \in Among(s) PROVE u \in Among(Append(s, t))
            <4>1. PICK i \in 1 .. Len(s) : u = s[i] BY DEF Among
            <4>2. u = Append(s, t)[i] /\ i \in 1 .. Len(Append(s, t)) BY <2>1, <2>3, <4>1
            <4>3. QED BY <4>2 DEF Among
        <3>2. t \in Among(Append(s, t))
            <4>1. t = Append(s, t)[Len(s) + 1] /\ Len(s) + 1 \in 1 .. Len(Append(s, t))
                BY <2>1, <2>3
            <4>2. QED BY <4>1 DEF Among
        <3>3. ASSUME NEW u \in Among(Append(s, t)) PROVE u \in Among(s) \cup {t}
            <4>1. PICK i \in 1 .. Len(s) + 1 : u = Append(s, t)[i] BY <2>3 DEF Among
            <4>2. i = Len(s) + 1 \/ i \in 1 .. Len(s) BY <2>1
            <4>3. QED BY <2>3, <4>1, <4>2 DEF Among
        <3>4. QED BY <3>1, <3>2, <3>3
    <2>6. /\ waitq'[m] = Append(s, t)
          /\ \A n \in Mutexes \ {m} : waitq'[n] = waitq[n]
        BY <2>2 DEF Kernel, KInv
    <2>7. At(t, l)[t] = l BY DEF At, Kernel, Labelled
    <2>8. \A n \in Mutexes :
              /\ Distinct(waitq'[n])
              /\ \A u \in Among(waitq'[n]) : At(t, l)[u] \in Queued(n) /\ u \notin Among(rdq')
        BY <1>2, <2>2, <2>4, <2>5, <2>6, <2>7 DEF PlacedIn, s
    <2>9. PlacedIn(At(t, l), rdq', waitq')
        BY <1>2, <2>2, <2>8 DEF PlacedIn
    <2>10. Placed'
        BY <1>1, <2>9 DEF Placed, PlacedIn, InLine, Before
    <2>11. QED BY <1>1, <1>2, <1>4, <2>2, <2>5, <2>6, <2>10 DEF s
<1>5. QED BY <1>3, <1>4

(* What a release does to mutex m, where q were ready. *)
GivenUp(m, q) ==
    /\ Among(waitq[m]) = {} /\ owner' = [owner EXCEPT ![m] = NoTask]
    /\ rdq' = q /\ waitq' = waitq

GivenTo(m, q, w) ==
    /\ w \in Among(waitq[m]) /\ w \notin Among(q)
    /\ owner' = [owner EXCEPT ![m] = w]
    /\ Among(rdq') = Among(q) \cup {w}
    /\ Among(waitq'[m]) = Among(waitq[m]) \ {w}
    /\ \A n \in Mutexes \ {m} : waitq'[n] = waitq[n]

LEMMA ReleasePlaced ==
    ASSUME Kernel, NEW p \in [Threads -> Labels], NEW q \in Seq(Threads), PlacedIn(p, q, waitq),
           NEW m \in Mutexes, Release(m, q), pc' = p, prio' = prio
    PROVE  /\ Placed'
           /\ GivenUp(m, q) \/ \E w \in Threads : p[w] \in Queued(m) /\ GivenTo(m, q, w)
<1>1. CASE waitq[m] = <<>>
    <2>1. owner' = [owner EXCEPT ![m] = NoTask] /\ rdq' = q /\ waitq' = waitq
        BY <1>1 DEF Release
    <2>2. Among(waitq[m]) = {} BY <1>1 DEF Among
    <2>3. Placed' BY <2>1 DEF Placed, PlacedIn, InLine, Before
    <2>4. QED BY <2>1, <2>2, <2>3 DEF GivenUp
<1>2. CASE waitq[m] # <<>>
    <2> DEFINE s == waitq[m]
               w == Head(s)
    <2>1. s \in Seq(Threads) /\ s # <<>> /\ Distinct(s)
        BY <1>2 DEF Kernel, KInv, PlacedIn
    <2>2. /\ owner' = [owner EXCEPT ![m] = w] /\ waitq' = [waitq EXCEPT ![m] = Tail(s)]
          /\ MakeReady(q, w)
        BY <1>2 DEF Release
    <2>3. /\ waitq'[m] = Tail(s) /\ \A n \in Mutexes \ {m} : waitq'[n] = waitq[n]
          /\ waitq \in [Mutexes -> Seq(Threads)]
        BY <2>2 DEF Kernel, KInv
    <2> HIDE DEF s
    <2>4. /\ Tail(s) \in Seq(Threads) /\ Len(Tail(s)) = Len(s) - 1 /\ w = s[1]
          /\ \A i \in 1 .. Len(s) - 1 : Tail(s)[i] = s[i + 1]
        BY <2>1
    <2> HIDE DEF w
    <2>5. Distinct(Tail(s)) /\ w \in Among(s) /\ w \in Threads
        BY <2>1, <2>4 DEF Distinct, Among
    <2>6. Among(Tail(s)) = Among(s) \ {w}
        <3>1. ASSUME NEW u \in Among(s) \ {w} PROVE u \in Among(Tail(s))
            <4>1. PICK i \in 1 .. Len(s) : u = s[i] BY DEF Among
            <4>2. i # 1 BY <2>4, <4>1
            <4>3. u = Tail(s)[i - 1] /\ i - 1 \in 1 .. Len(Tail(s)) BY <2>1, <2>4, <4>1, <4>2
            <4>4. QED BY <4>3 DEF Among
        <3>2. ASSUME NEW u \in Among(Tail(s)) PROVE u \in Among(s) \ {w}
            <4>1. PICK i \in 1 .. Len(s) - 1 : u = Tail(s)[i] BY <2>4 DEF Among
            <4>2. u = s[i + 1] /\ i + 1 \in 1 .. Len(s) /\ 1 < i + 1 BY <2>1, <2>4, <4>1
            <4>3. QED BY <2>1, <2>4, <4>2 DEF Among, Distinct
        <3>3. QED BY <3>1, <3>2
    <2>7. p[w] \in Queued(m) /\ w \notin Among(q)
          /\ \A n \in Mutexes \ {m} : w \notin Among(waitq[n])
        <3>1. p[w] \in Queued(m) /\ w \notin Among(q) BY <2>5 DEF PlacedIn, s
        <3>2. Queued(Lock) \cap Queued(Smutex) = {} /\ Lock # Smutex
            BY DEF Queued, Lock, Smutex
        <3>3. QED BY <3>1, <3>2 DEF PlacedIn, Mutexes
    <2>8. PlacedIn(p, q, waitq') /\ waitq' \in [Mutexes -> Seq(Threads)]
          /\ \A n \in Mutexes : w \notin Among(waitq'[n])
        <3>1. waitq' \in [Mutexes -> Seq(Threads)] BY <2>2, <2>3, <2>4
        <3>2. \A n \in Mutexes : w \notin Among(waitq'[n]) /\ Among(waitq'[n]) \subseteq Among(waitq[n])
            BY <2>3, <2>6, <2>7 DEF s
        <3>3. \A n \in Mutexes : Distinct(waitq'[n])
            BY <2>3, <2>5 DEF PlacedIn
        <3>4. QED BY <3>1, <3>2, <3>3 DEF PlacedIn
    <2>9. p[w] \in Labels \ (Asleep \cup {"wait", "unlock"})
        BY <2>7 DEF Queued, Labels, Asleep
    <2>10. /\ PlacedIn([p EXCEPT ![w] = p[w]], rdq', waitq') /\ Among(rdq') = Among(q) \cup {w}
        BY <2>2, <2>5, <2>7, <2>8, <2>9, JoinAt DEF Kernel
    <2>11. [p EXCEPT ![w] = p[w]] = p BY <2>5
    <2>12. Placed'
        BY <2>10, <2>11 DEF Placed, PlacedIn, InLine, Before
    <2>13. GivenTo(m, q, w)
        BY <2>2, <2>3, <2>5, <2>6, <2>7, <2>10 DEF s, GivenTo
    <2>14. QED BY <2>5, <2>7, <2>12, <2>13
<1>3. QED BY <1>1, <1>2

LEMMA WakePlaced ==
    ASSUME Kernel, Placed, NEW u \in Threads, pc[u] \in Asleep,
           NEW l \in Labels \ (Asleep \cup {"wait", "unlock"}), Goto(u, l), MakeReady(rdq, u),
           waitq' = waitq, prio' = prio
    PROVE  Placed' /\ Among(rdq') = Among(rdq) \cup {u}
<1>1. /\ rdq \in Seq(Threads) /\ waitq \in [Mutexes -> Seq(Threads)]
      /\ pc \in [Threads -> Labels]
    BY DEF Kernel, KInv, Labelled
<1>2. u \notin Among(rdq) /\ \A m \in Mutexes : u \notin Among(waitq[m])
    BY DEF Placed, PlacedIn, Asleep, Queued
<1>3. pc' = [pc EXCEPT ![u] = l] BY DEF Goto, At
<1>4. PlacedIn([pc EXCEPT ![u] = l], rdq', waitq) /\ Among(rdq') = Among(rdq) \cup {u}
    BY <1>1, <1>2, JoinAt DEF Kernel, Placed
<1>5. QED BY <1>3, <1>4 DEF Placed, PlacedIn, InLine, Before

LEMMA SetPlaced ==
    ASSUME Kernel, NEW p \in [Threads -> Labels], PlacedIn(p, rdq, waitq),
           waiter # NoTask => p[waiter] = "waiting", Set(p), prio' = prio
    PROVE  /\ Placed' /\ Among(rdq) \subseteq Among(rdq') /\ UNCHANGED <<owner, waitq>>
           /\ flags' = FINISHED_FLAG /\ waiter' = NoTask
           /\ \A u \in Threads : pc'[u] = IF u = waiter THEN "woken" ELSE p[u]
<1>1. /\ rdq \in Seq(Threads) /\ waitq \in [Mutexes -> Seq(Threads)]
    BY DEF Kernel, KInv
<1>2. UNCHANGED <<owner, waitq>> /\ flags' = FINISHED_FLAG
    BY DEF Set
<1>3. CASE waiter = NoTask
    <2>1. pc' = p /\ rdq' = rdq /\ waiter' = NoTask BY <1>3 DEF Set
    <2>2. Placed' BY <1>2, <2>1 DEF Placed, PlacedIn, InLine, Before
    <2>3. QED BY <1>2, <1>3, <2>1, <2>2, Names
<1>4. CASE waiter # NoTask
    <2>1. waiter \in Threads BY <1>4, Names DEF Kernel, Labelled
    <2>2. pc' = [p EXCEPT ![waiter] = "woken"] /\ MakeReady(rdq, waiter) /\ waiter' = NoTask
        BY <1>4 DEF Set
    <2>3. waiter \notin Among(rdq) /\ \A m \in Mutexes : waiter \notin Among(waitq[m])
        BY <1>4 DEF PlacedIn, Asleep, Queued
    <2>4. "woken" \in Labels \ (Asleep \cup {"wait", "unlock"}) BY DEF Labels, Asleep
    <2>5. PlacedIn([p EXCEPT ![waiter] = "woken"], rdq', waitq)
          /\ Among(rdq') = Among(rdq) \cup {waiter}
        BY <1>1, <2>1, <2>2, <2>3, <2>4, JoinAt DEF Kernel
    <2>6. Placed' BY <1>2, <2>2, <2>5 DEF Placed, PlacedIn, InLine, Before
    <2>7. QED BY <1>2, <2>1, <2>2, <2>5, <2>6
<1>5. QED BY <1>3, <1>4

(* Whoever runs is before all that are ready, and waits for nothing. *)
LEMMA HeadFirst ==
    ASSUME Kernel, Placed, NEW t \in Threads, rdq # <<>>, Head(rdq) = t
    PROVE  /\ t \in Among(rdq) /\ pc[t] \notin Asleep
           /\ \A m \in Mutexes : t \notin Among(waitq[m])
           /\ \A u \in Among(rdq) \ {t} :
                  /\ prio[t] <= prio[u]
                  /\ u = Reader /\ pc[Reader] = "wait" => prio[t] < prio[u]
<1>1. rdq \in Seq(Threads) /\ InLine(rdq, pc[Reader] = "wait") BY DEF Kernel, KInv, Placed, PlacedIn
<1>2. /\ Head(rdq) \in Among(rdq)
      /\ \A u \in Among(rdq) \ {Head(rdq)} : Before(Head(rdq), u, pc[Reader] = "wait")
    BY <1>1, TailInLine
<1>3. QED BY <1>2 DEF Placed, PlacedIn, Before

-----------------------------------------------------------------------------
(* Who has the lock of the socket. *)
Inner(t) ==
    IF t = Reader THEN {"ask", "poll", "drain", "look", "nap", "napping", "block", "unlock"}
    ELSE IF t = Closer THEN {"talk", "talking", "expecting", "listen", "event", "block", "unlock"}
    ELSE {"unlock"}

LEMMA InnerIs ==
    /\ Inner(Reader) = {"ask", "poll", "drain", "look", "nap", "napping", "block", "unlock"}
    /\ Inner(Closer) = {"talk", "talking", "expecting", "listen", "event", "block", "unlock"}
    /\ Inner(Other) = {"unlock"}
<1>1. Inner(Reader) = {"ask", "poll", "drain", "look", "nap", "napping", "block", "unlock"}
    BY DEF Inner
<1>2. Inner(Closer) = {"talk", "talking", "expecting", "listen", "event", "block", "unlock"}
    BY DEF Inner, Reader, Closer
<1>3. Inner(Other) = {"unlock"}
    BY DEF Inner, Reader, Closer, Other
<1>4. QED BY <1>1, <1>2, <1>3

Outside == {"user", "call", "wait", "waiting", "woken", "relock", "failed", "set", "closed"}

Locked ==
    \A t \in Threads :
        /\ pc[t] \in Inner(t) => owner[Lock] = t
        /\ pc[t] \in Queued(Lock) => owner[Lock] = t \/ t \in Among(waitq[Lock])
        /\ owner[Lock] = t => pc[t] \notin Outside

(* After the socket was taken away, nobody with the lock is past the check *)
(* of it, and recv is not in the driver.                                   *)
Ending ==
    /\ ~open /\ owner[Lock] = Other => pc[Other] \in {"check", "leave", "unlock", "setting"}
    /\ ~open => pc[Reader] \in {"user", "call", "check", "wait", "waiting", "woken", "relock",
                                "failed", "leave", "unlock"}

(* close counts the recv that waits. *)
Counted ==
    pc[Reader] \in {"ask", "poll", "drain", "look", "nap", "napping", "block", "wait", "waiting"}
        => Reader \in inside

(* A reader about to wait while another caller gives back the lock has     *)
(* been preempted by that caller.                                          *)
Preempted == pc[Reader] = "wait" /\ pc[Other] = "unlock" => prio[Other] < prio[Reader]

(* The flag is down and close, which cleared it, gets to wait before the   *)
(* reader does: it is ready and more urgent, or will be when the other     *)
(* caller gives the lock back.                                             *)
Looping == {"woken", "failed", "relock", "linger", "block", "wait"}

Coming ==
    /\ prio[Closer] < prio[Reader]
    /\ \/ pc[Closer] \in Looping /\ Closer \in Among(rdq)
       \/ pc[Closer] = "linger" /\ Closer \in Among(waitq[Lock]) /\ pc[Other] = "unlock"

(* Once close has raised the flags, a reader asleep will be woken by the   *)
(* other caller, and a reader about to wait will not fall asleep, or will  *)
(* be woken by that caller.                                                *)
Rescue == pc[Other] \in {"check", "leave"}

Awake ==
    ~open /\ ~meddled /\ ~Raising =>
        /\ waiter = Reader => Rescue
        /\ pc[Reader] = "wait" => "read" \in flags \/ waiter = Closer \/ Rescue \/ Coming

SInv == Placed /\ Locked /\ Ending /\ Counted /\ Preempted /\ Awake

LEMMA Holds ==
    ASSUME Kernel, Placed, Locked, NEW t \in Threads, rdq # <<>>, Head(rdq) = t,
           pc[t] \in Inner(t) \cup Queued(Lock)
    PROVE  owner[Lock] = t
<1>1. t \notin Among(waitq[Lock]) BY HeadFirst DEF Mutexes
<1>2. QED BY <1>1 DEF Locked

(* The running thread goes on, may wake the one that waits for the flag,   *)
(* and leaves the lock alone.                                              *)
LEMMA LockKept ==
    ASSUME Kernel, Locked, NEW t \in Threads, NEW l \in Labels, pc'[t] = l,
           \A u \in Threads \ {t} : pc'[u] = pc[u] \/ (u = waiter /\ pc'[u] = "woken"),
           owner'[Lock] = owner[Lock], Among(waitq'[Lock]) = Among(waitq[Lock]),
           l \in Inner(t) \cup Queued(Lock) => owner[Lock] = t,
           l \in Outside => owner[Lock] # t
    PROVE  Locked'
<1>1. ASSUME NEW u \in Threads \ {t}, u = waiter, pc'[u] = "woken"
      PROVE  owner[Lock] # u /\ "woken" \notin Inner(u) \cup Queued(Lock)
    <2>1. pc[u] = "waiting" BY <1>1, Names DEF Kernel, Labelled
    <2>2. QED BY <2>1 DEF Locked, Outside, Inner, Queued
<1>2. QED BY <1>1 DEF Locked

LEMMA SInvChecks ==
    ASSUME Kernel, SInv, NEW t \in Threads, Checks(t)
    PROVE  SInv'
<1>1. /\ rdq # <<>> /\ Head(rdq) = t /\ pc[t] = "check"
      /\ UNCHANGED <<prio, rdq, owner, waitq, flags, waiter, open, meddled>>
      /\ inside' = inside \cup {t}
    BY DEF Checks, Running, kernel, event_flag
<1>2. PICK l \in {"leave", "ask", "talk"} :
          /\ pc' = At(t, l) /\ (~open => l = "leave")
          /\ (l = "ask" => t = Reader) /\ (l = "talk" => t # Reader)
    BY DEF Checks, Goto
<1>3. l \in Labels \ Asleep BY DEF Labels, Asleep
<1>4. Placed'
    BY <1>1, <1>2, <1>3, StayAt DEF SInv, Placed, PlacedIn, InLine, Before
<1>5. \A u \in Threads : pc'[u] = IF u = t THEN l ELSE pc[u]
    BY <1>2 DEF At, Kernel, Labelled
<1>6. owner[Lock] = t BY <1>1, Holds DEF SInv, Queued
<1>7. Locked'
    BY <1>1, <1>3, <1>5, <1>6, LockKept DEF SInv, Outside
<1>8. t # Closer BY <1>1 DEF Kernel, Labelled, CloserLabels
<1>9. Ending' /\ Counted' /\ Preempted'
    BY <1>1, <1>2, <1>5, <1>8, Names DEF SInv, Ending, Counted, Preempted
<1>10. Awake'
    BY <1>1, <1>2, <1>5, <1>8, Names DEF SInv, Ending, Awake, Coming, Rescue, Raising
<1>11. QED BY <1>4, <1>7, <1>9, <1>10 DEF SInv

LEMMA SInvWaits ==
    ASSUME Kernel, SInv, NEW t \in Threads, Waits(t)
    PROVE  SInv'
<1>1. /\ rdq # <<>> /\ Head(rdq) = t /\ pc[t] = "wait"
      /\ UNCHANGED <<prio, owner, waitq, flags, open, inside, meddled>>
    BY DEF Waits, Running, object
<1>2. PICK l \in {"failed", "woken", "waiting"} :
          /\ pc' = At(t, l)
          /\ l \in {"failed", "woken"} => rdq' = rdq /\ waiter' = waiter
          /\ l = "waiting" => /\ rdq' = Tail(rdq) /\ waiter = NoTask /\ waiter' = t
                              /\ flags \cap Pattern(t) = {}
    BY DEF Waits, Refused, Granted, Blocked, Goto
<1>3. l \in Labels \ {"wait", "unlock"} /\ l \in Outside BY DEF Labels, Outside
<1>4. \A u \in Threads : pc'[u] = IF u = t THEN l ELSE pc[u]
    BY <1>2 DEF At, Kernel, Labelled
<1>5. t \in {Reader, Closer}
    BY <1>1, Names DEF Kernel, Labelled, OtherLabels, Threads
<1>6. Placed'
    <2>1. CASE l = "waiting"
        <3>1. PlacedIn(At(t, l), Tail(rdq), waitq) BY <1>1, <1>3, SleepAt DEF SInv
        <3>2. pc' = At(t, l) /\ rdq' = Tail(rdq) /\ waitq' = waitq /\ prio' = prio
            BY <1>1, <1>2, <2>1
        <3>3. QED BY <3>1, <3>2 DEF Placed, PlacedIn, InLine, Before
    <2>2. CASE l # "waiting"
        <3>1. l \in Labels \ Asleep BY <1>3, <2>2 DEF Asleep
        <3>2. QED BY <1>1, <1>2, <2>2, <3>1, StayAt DEF SInv, Placed, PlacedIn, InLine, Before
    <2>3. QED BY <2>1, <2>2
<1>7. owner[Lock] # t BY <1>1 DEF SInv, Locked, Outside
<1>8. Locked'
    BY <1>1, <1>3, <1>4, <1>7, LockKept DEF SInv, Outside, Inner, Queued
<1>9. /\ t \in Among(rdq) /\ Among(rdq) \ {t} \subseteq Among(rdq')
      /\ \A u \in Among(rdq) \ {t} : prio[t] <= prio[u]
    <2>1. Among(Tail(rdq)) = Among(rdq) \ {t} BY <1>1, <1>3, SleepAt DEF SInv
    <2>2. QED BY <1>1, <1>2, <2>1, HeadFirst DEF SInv
<1>10. Ending' /\ Counted' /\ Preempted'
    BY <1>1, <1>2, <1>4, <1>5, Names DEF SInv, Ending, Counted, Preempted
<1>11. Awake'
    <2> SUFFICES ASSUME ~open, ~meddled, ~Raising PROVE Awake'
        BY <1>1, <1>4, <1>5, Names DEF Awake, Raising
    <2>1. CASE t = Reader
        <3>1. pc[Other] = "unlock" => prio[Reader] <= prio[Other]
            BY <1>1, <1>9, <2>1, Names DEF SInv, Placed, PlacedIn
        <3>2. ~Coming
            BY <1>1, <1>9, <2>1, <3>1, Names DEF SInv, Coming, Preempted, Kernel, Looping
        <3>3. "read" \in flags \/ waiter = Closer \/ Rescue
            BY <1>1, <2>1, <3>2 DEF SInv, Awake
        <3>4. l = "waiting" => Rescue
            BY <1>2, <2>1, <3>3, Names DEF Pattern
        <3>5. QED BY <1>1, <1>2, <1>4, <2>1, <3>4, Names DEF SInv, Awake, Rescue
    <2>2. CASE t = Closer
        <3>1. waiter = Reader => Rescue BY DEF SInv, Awake
        <3>2. pc[Reader] = "wait" => "read" \in flags \/ waiter = Closer \/ Rescue \/ Coming
            BY DEF SInv, Awake
        <3>3. /\ pc'[Closer] = l /\ pc'[Other] = pc[Other] /\ pc'[Reader] = pc[Reader]
              /\ pc[Closer] = "wait" /\ (Rescue' <=> Rescue)
            BY <1>1, <1>4, <2>2, Names DEF Rescue
        <3>4. l = "waiting" => waiter' = Closer /\ "read" \notin flags
            BY <1>2, <2>2, Names DEF Pattern
        <3>5. l # "waiting" => waiter' = waiter BY <1>2
        <3>6. l # "waiting" => l \in Looping /\ Among(rdq') = Among(rdq)
            BY <1>2 DEF Looping
        <3>7. waiter # Closer BY <3>3, Names DEF Kernel, Labelled
        <3>8. CASE l = "waiting" BY <3>4, <3>8, Names DEF Awake
        <3>9. CASE l # "waiting"
            <4>1. Coming => Coming' BY <1>1, <1>9, <2>2, <3>3, <3>6, <3>9 DEF Coming
            <4>2. QED BY <1>1, <3>1, <3>2, <3>3, <3>5, <3>7, <3>9, <4>1 DEF Awake
        <3>10. QED BY <3>8, <3>9
    <2>3. QED BY <1>5, <2>1, <2>2
<1>12. QED BY <1>6, <1>8, <1>10, <1>11 DEF SInv

(* A thread goes on to l and leaves the flag as it is. *)
LEMMA AwakeKept ==
    ASSUME Kernel, Awake, NEW t \in Threads, NEW l \in Labels, pc' = At(t, l),
           UNCHANGED <<flags, waiter, open>>, meddled => meddled', Coming => Coming',
           t = Reader => l # "wait",
           t = Closer => (Raising => Raising'),
           t = Other => pc[t] \notin {"check", "leave"} \/ l \in {"check", "leave"}
    PROVE  Awake'
<1>1. \A u \in Threads : pc'[u] = IF u = t THEN l ELSE pc[u]
    BY DEF At, Kernel, Labelled
<1>2. Raising => Raising' BY <1>1, Names DEF Raising
<1>3. Rescue => Rescue' BY <1>1, Names DEF Rescue
<1>4. pc'[Reader] = "wait" => pc[Reader] = "wait" BY <1>1, Names
<1>5. QED BY <1>2, <1>3, <1>4 DEF Awake

LEMMA ComingKept ==
    ASSUME Kernel, NEW t \in Threads, NEW l \in Labels, pc' = At(t, l), prio' = prio,
           Among(rdq) \ {t} \subseteq Among(rdq'),
           Among(waitq[Lock]) \subseteq Among(waitq'[Lock]),
           t = Closer => pc[t] \notin Looping,
           t = Other => pc[t] # "unlock"
    PROVE  Coming => Coming'
<1>1. \A u \in Threads : pc'[u] = IF u = t THEN l ELSE pc[u]
    BY DEF At, Kernel, Labelled
<1>2. QED BY <1>1, Names DEF Coming, Looping

(* A thread outside asks for the lock; the owner gives it back. *)
LEMMA LockAsked ==
    ASSUME Kernel, Placed, Locked, NEW t \in Threads, rdq # <<>>, Head(rdq) = t,
           pc[t] \in Outside, NEW l \in Queued(Lock), Acquire(t, Lock, l), prio' = prio
    PROVE  Locked'
<1>1. Lock \in Mutexes /\ l \in Labels BY DEF Mutexes, Queued, Labels
<1>2. /\ pc' = At(t, l)
      /\ \/ /\ owner[Lock] = NoTask /\ owner' = [owner EXCEPT ![Lock] = t]
            /\ rdq' = rdq /\ waitq' = waitq
         \/ /\ owner[Lock] # NoTask /\ owner' = owner
            /\ Among(waitq'[Lock]) = Among(waitq[Lock]) \cup {t}
    BY <1>1, AcquirePlaced
<1>3. \A u \in Threads : pc'[u] = IF u = t THEN l ELSE pc[u]
    BY <1>1, <1>2 DEF At, Kernel, Labelled
<1>4. l \notin Outside /\ l \notin Inner(t) BY DEF Outside, Queued, Inner
<1>5. CASE owner[Lock] = NoTask
    <2>1. owner'[Lock] = t /\ waitq' = waitq BY <1>1, <1>2, <1>5 DEF Kernel, KInv
    <2>2. \A u \in Threads : owner[Lock] # u BY <1>5, Names
    <2>3. QED BY <1>3, <1>4, <2>1, <2>2 DEF Locked
<1>6. CASE owner[Lock] # NoTask
    BY <1>2, <1>3, <1>4, <1>6 DEF Locked
<1>7. QED BY <1>5, <1>6

LEMMA LockGiven ==
    ASSUME Kernel, Locked, NEW t \in Threads, NEW l \in Labels \cap Outside, owner[Lock] = t,
           NEW q \in Seq(Threads), PlacedIn(At(t, l), q, waitq), Release(Lock, q),
           pc' = At(t, l), prio' = prio
    PROVE  /\ Placed' /\ Locked' /\ Among(q) \subseteq Among(rdq')
           /\ owner'[Lock] \in Threads =>
                  /\ owner'[Lock] \in Among(waitq[Lock]) \cap Among(rdq') /\ owner'[Lock] # t
                  /\ pc[owner'[Lock]] \in Queued(Lock)
           /\ owner'[Lock] \in Threads \/ Among(waitq[Lock]) = {}
<1>1. Lock \in Mutexes BY DEF Mutexes
<1>2. At(t, l) \in [Threads -> Labels] /\ \A u \in Threads : pc'[u] = IF u = t THEN l ELSE pc[u]
    BY DEF At, Kernel, Labelled
<1>3. /\ Placed'
      /\ GivenUp(Lock, q) \/ \E w \in Threads : At(t, l)[w] \in Queued(Lock) /\ GivenTo(Lock, q, w)
    BY <1>1, <1>2, ReleasePlaced
<1>4. l \notin Queued(Lock) /\ l \notin Inner(t) /\ Queued(Lock) \cap Outside = {}
    BY DEF Outside, Queued, Inner
<1>5. CASE GivenUp(Lock, q)
    <2>0. waitq' = waitq /\ rdq' = q /\ Among(waitq[Lock]) = {} BY <1>5 DEF GivenUp
    <2>1. owner'[Lock] = NoTask /\ NoTask \notin Threads
        BY <1>1, <1>5, Names DEF Kernel, KInv, GivenUp
    <2>2. Locked' BY <1>2, <1>4, <2>0, <2>1 DEF Locked
    <2>3. QED BY <1>3, <2>0, <2>1, <2>2
<1>6. ASSUME NEW w \in Threads, At(t, l)[w] \in Queued(Lock), GivenTo(Lock, q, w)
      PROVE  /\ Locked' /\ Among(q) \subseteq Among(rdq')
             /\ owner'[Lock] \in Among(waitq[Lock]) \cap Among(rdq') /\ owner'[Lock] # t
             /\ pc[owner'[Lock]] \in Queued(Lock)
             /\ owner'[Lock] \in Threads
    <2>0. /\ w \in Among(waitq[Lock]) /\ owner' = [owner EXCEPT ![Lock] = w]
          /\ Among(rdq') = Among(q) \cup {w} /\ Among(waitq'[Lock]) = Among(waitq[Lock]) \ {w}
        BY <1>6 DEF GivenTo
    <2>1. owner'[Lock] = w BY <1>1, <2>0 DEF Kernel, KInv
    <2>2. w # t /\ pc[w] \in Queued(Lock) /\ pc'[w] = pc[w] BY <1>2, <1>4, <1>6
    <2>3. \A u \in Threads \ {t} : pc[u] \notin Inner(u) BY DEF Locked
    <2>4. \A u \in Threads \ {t} : pc[u] \in Queued(Lock) => u \in Among(waitq[Lock]) BY DEF Locked
    <2>5. Locked' BY <1>2, <1>4, <2>0, <2>1, <2>2, <2>3, <2>4 DEF Locked
    <2>6. QED BY <2>0, <2>1, <2>2, <2>5
<1>7. QED BY <1>3, <1>5, <1>6

LEMMA SInvCalls ==
    ASSUME Kernel, SInv, NEW t \in Threads, Calls(t) \/ NapEnds(t) \/ (t = Reader /\ TimesOut)
    PROVE  SInv'
<1>1. /\ UNCHANGED <<prio, owner, waitq, flags, open, inside, meddled>> /\ MakeReady(rdq, t)
      /\ waiter' = waiter \/ (waiter = Reader /\ waiter' = NoTask)
    BY DEF Calls, NapEnds, TimesOut, object, event_flag
<1>2. PICK l \in {"call", "set", "talk", "poll", "listen", "failed"} :
          /\ Goto(t, l)
          /\ \/ pc[t] = "user" /\ l \in {"call", "set", "talk"} /\ (t # Other => l = "call")
             \/ pc[t] = "napping" /\ l = "poll"
             \/ pc[t] = "expecting" /\ l = "listen"
             \/ pc[t] = "waiting" /\ l = "failed" /\ t = Reader
    <2>1. CASE Calls(t) BY <2>1 DEF Calls, First
    <2>2. CASE NapEnds(t) BY <2>2 DEF NapEnds
    <2>3. CASE t = Reader /\ TimesOut BY <2>3, Names DEF TimesOut, Kernel, Labelled
    <2>4. QED BY <2>1, <2>2, <2>3
<1>3. pc[t] \in Asleep /\ l \in Labels \ (Asleep \cup {"wait", "unlock"})
    BY <1>2 DEF Asleep, Labels
<1>4. Placed' /\ Among(rdq') = Among(rdq) \cup {t}
    BY <1>1, <1>2, <1>3, WakePlaced DEF SInv
<1>5. pc' = At(t, l) /\ \A u \in Threads : pc'[u] = IF u = t THEN l ELSE pc[u]
    BY <1>2, <1>3 DEF Goto, At, Kernel, Labelled
<1>6. /\ t = Reader => pc[t] # "expecting" /\ l \in {"call", "poll", "failed"}
      /\ t = Closer => pc[t] # "napping" /\ l \in {"call", "listen"}
      /\ t = Other => pc[t] # "napping" /\ l \in {"call", "set", "talk", "listen"}
    BY <1>2, Names DEF Kernel, Labelled, ReaderLabels, CloserLabels, OtherLabels
<1>7. l \in Inner(t) \cup Queued(Lock) => owner[Lock] = t
    <2>1. l \in {"poll", "listen", "talk"} \/ l \notin Inner(t) \cup Queued(Lock)
        BY DEF Inner, Queued
    <2>2. l = "poll" => t = Reader /\ pc[t] \in Inner(t) BY <1>2, <1>6, Names DEF Inner, Threads
    <2>3. l = "listen" => \/ t = Closer /\ pc[t] \in Inner(t)
                          \/ t = Other /\ l \notin Inner(t) \cup Queued(Lock)
        <3>1. l = "listen" => t \in {Closer, Other} /\ (t = Closer => pc[t] = "expecting")
            BY <1>2, <1>6, Names DEF Threads
        <3>2. CASE t = Closer
            BY <3>1, <3>2, InnerIs
        <3>3. CASE t = Other
            BY <3>1, <3>3, Names DEF Inner, Queued
        <3>4. QED BY <3>1, <3>2, <3>3
    <2>4. l = "talk" => l \notin Inner(t) \cup Queued(Lock)
        BY <1>6, Names DEF Inner, Queued, Threads
    <2>5. QED BY <2>1, <2>2, <2>3, <2>4 DEF SInv, Locked
<1>8. l \in Outside => owner[Lock] # t
    BY <1>2 DEF SInv, Locked, Outside
<1>9. Locked' BY <1>1, <1>3, <1>5, <1>7, <1>8, LockKept DEF SInv
<1>10. Ending' /\ Counted' /\ Preempted'
    <2>1. t = Reader /\ ~open => l \in {"call", "failed"}
        BY <1>2, <1>6 DEF SInv, Ending
    <2>2. t = Other /\ ~open => owner[Lock] # Other
        BY <1>2, <1>6, Names DEF SInv, Ending
    <2>3. Ending' BY <1>1, <1>5, <2>1, <2>2, Names DEF SInv, Ending
    <2>4. t = Reader => l # "poll" \/ pc[t] = "napping" BY <1>2
    <2>5. Counted' BY <1>1, <1>5, <1>6, <2>4, Names DEF SInv, Counted
    <2>6. Preempted' BY <1>1, <1>5, <1>6, Names DEF SInv, Preempted
    <2>7. QED BY <2>3, <2>5, <2>6
<1>11. Awake'
    <2>1. Coming => Coming'
        BY <1>1, <1>2, <1>3, <1>4, <1>5, ComingKept, Names DEF Looping
    <2>2. t = Closer => (Raising => Raising')
        BY <1>2, <1>5, <1>6, Names DEF Raising
    <2>3. CASE waiter' = waiter
        BY <1>1, <1>2, <1>3, <1>5, <2>1, <2>2, <2>3, AwakeKept DEF SInv
    <2>4. CASE waiter = Reader /\ waiter' = NoTask
        <3>1. pc[Reader] = "waiting" /\ NoTask # Reader BY <2>4, Names DEF Kernel, Labelled
        <3>2. pc'[Reader] # "wait" BY <1>3, <1>5, <3>1, Names
        <3>3. QED BY <2>4, <3>1, <3>2 DEF Awake
    <2>5. QED BY <1>1, <2>3, <2>4
<1>12. QED BY <1>4, <1>9, <1>10, <1>11 DEF SInv

LEMMA SInvEnters ==
    ASSUME Kernel, SInv, NEW t \in Threads, Enters(t)
    PROVE  SInv'
<1>1. /\ rdq # <<>> /\ Head(rdq) = t /\ pc[t] \in {"call", "set"}
      /\ UNCHANGED <<prio, flags, waiter, open, inside, meddled>>
    BY DEF Enters, Locks, Running, object, event_flag
<1>2. PICK l \in {"detach", "check", "setting"} :
          /\ Acquire(t, Lock, l)
          /\ l = "detach" => t = Closer
          /\ l = "setting" => pc[t] = "set"
    BY DEF Enters, Locks, Running
<1>3. l \in Queued(Lock) /\ l \in Labels /\ Lock \in Mutexes /\ pc[t] \in Outside
    BY <1>1 DEF Queued, Labels, Mutexes, Outside
<1>4. Locked' BY <1>1, <1>2, <1>3, LockAsked DEF SInv
<1>5. /\ Placed' /\ pc' = At(t, l)
      /\ \/ /\ owner[Lock] = NoTask /\ owner' = [owner EXCEPT ![Lock] = t]
            /\ rdq' = rdq /\ waitq' = waitq
         \/ /\ owner[Lock] # NoTask /\ owner' = owner
            /\ Among(rdq') = Among(rdq) \ {t}
            /\ Among(waitq'[Lock]) = Among(waitq[Lock]) \cup {t}
    BY <1>1, <1>2, <1>3, AcquirePlaced DEF SInv
<1>6. \A u \in Threads : pc'[u] = IF u = t THEN l ELSE pc[u]
    BY <1>3, <1>5 DEF At, Kernel, Labelled
<1>7. owner'[Lock] = owner[Lock] \/ owner'[Lock] = t
    BY <1>3, <1>5 DEF Kernel, KInv
<1>8. t = Reader => l = "check"
    BY <1>1, <1>2, Names DEF Kernel, Labelled, ReaderLabels
<1>9. Ending' /\ Counted' /\ Preempted'
    BY <1>1, <1>2, <1>6, <1>7, <1>8, Names DEF SInv, Ending, Counted, Preempted
<1>10. Awake'
    <2>1. Coming => Coming'
        BY <1>1, <1>3, <1>5, ComingKept, Names DEF Looping
    <2>2. QED BY <1>1, <1>2, <1>3, <1>5, <1>6, <2>1, AwakeKept DEF SInv, Raising
<1>11. QED BY <1>4, <1>5, <1>9, <1>10 DEF SInv

LEMMA Same ==
    ASSUME SInv,
           UNCHANGED <<prio, rdq, owner, waitq, flags, waiter, open, inside, meddled, pc>>
    PROVE  SInv'
<1>1. Placed' BY DEF SInv, Placed, PlacedIn, InLine, Before
<1>2. Locked' BY DEF SInv, Locked
<1>3. Ending' /\ Counted' /\ Preempted' BY DEF SInv, Ending, Counted, Preempted
<1>4. Awake' BY DEF SInv, Awake, Raising, Rescue, Coming
<1>5. QED BY <1>1, <1>2, <1>3, <1>4 DEF SInv

(* The running thread goes on to l and the kernel stays as it is. *)
LEMMA Onward ==
    ASSUME Kernel, SInv, NEW t \in Threads, rdq # <<>>, Head(rdq) = t, NEW l \in Labels \ Asleep,
           pc' = At(t, l), UNCHANGED <<prio, rdq, owner, waitq>>,
           l \in Inner(t) \cup Queued(Lock) => owner[Lock] = t,
           l \in Outside => owner[Lock] # t
    PROVE  /\ Placed' /\ Locked'
           /\ \A u \in Threads : pc'[u] = IF u = t THEN l ELSE pc[u]
<1>1. PlacedIn(At(t, l), rdq, waitq) BY StayAt DEF SInv
<1>2. Placed' BY <1>1 DEF Placed, PlacedIn, InLine, Before
<1>3. \A u \in Threads : pc'[u] = IF u = t THEN l ELSE pc[u]
    BY DEF At, Kernel, Labelled
<1>4. Locked' BY <1>3, LockKept DEF SInv
<1>5. QED BY <1>2, <1>3, <1>4

LEMMA SInvReads ==
    ASSUME Kernel, SInv, NEW t \in Threads, Asks \/ Drains \/ Listens(t)
    PROVE  SInv'
<1> USE Names
<1>1. UNCHANGED <<prio, rdq, owner, waitq, flags, waiter, open, inside, meddled>>
    BY DEF Asks, Drains, Listens, kernel, event_flag, object
<1>2. CASE pc' = pc BY <1>1, <1>2, Same
<1>3. CASE pc' # pc
    <2>1. PICK l \in {"poll", "look"} :
              /\ pc' = At(Reader, l) /\ rdq # <<>> /\ Head(rdq) = Reader
              /\ pc[Reader] \in {"ask", "drain"}
        BY <1>3 DEF Asks, Drains, Listens, Running, Goto
    <2>2. l \in Labels \ Asleep /\ l \notin Outside BY DEF Labels, Asleep, Outside
    <2>3. owner[Lock] = Reader BY <2>1, InnerIs DEF SInv, Locked
    <2>4. /\ Placed' /\ Locked'
          /\ \A u \in Threads : pc'[u] = IF u = Reader THEN l ELSE pc[u]
        BY <1>1, <2>1, <2>2, <2>3, Onward
    <2>5. open BY <2>1 DEF SInv, Ending
    <2>6. Ending' /\ Counted' /\ Preempted' /\ Awake'
        BY <1>1, <2>1, <2>4, <2>5 DEF SInv, Ending, Counted, Preempted, Awake
    <2>7. QED BY <2>4, <2>6 DEF SInv
<1>4. QED BY <1>2, <1>3

LEMMA SInvPolls ==
    ASSUME Kernel, SInv, NEW t \in Threads, Talks(t) \/ (t = Reader /\ Polls)
    PROVE  SInv'
<1> USE Names
<1>1. /\ rdq # <<>> /\ Head(rdq) = t
      /\ UNCHANGED <<prio, flags, waiter, open, inside, meddled>>
    BY DEF Polls, Talks, Running, event_flag, object
<1>2. PICK l \in {"drain", "talking"} :
          /\ Acquire(t, Smutex, l)
          /\ \/ l = "drain" /\ t = Reader /\ pc[Reader] = "poll"
             \/ l = "talking" /\ pc[t] = "talk"
    BY DEF Polls, Talks, Running
<1>3. l \in Queued(Smutex) /\ l \in Labels /\ Smutex \in Mutexes /\ Lock \in Mutexes \ {Smutex}
      /\ l \notin Outside \cup Queued(Lock)
    BY DEF Queued, Labels, Mutexes, Lock, Smutex, Outside
<1>4. /\ Placed' /\ pc' = At(t, l)
      /\ owner'[Lock] = owner[Lock] /\ waitq'[Lock] = waitq[Lock]
      /\ Among(rdq) \ {t} \subseteq Among(rdq')
    <2>1. /\ Placed' /\ pc' = At(t, l)
          /\ \/ /\ owner' = [owner EXCEPT ![Smutex] = t]
                /\ rdq' = rdq /\ waitq' = waitq
             \/ /\ owner' = owner
                /\ Among(rdq') = Among(rdq) \ {t}
                /\ \A n \in Mutexes \ {Smutex} : waitq'[n] = waitq[n]
        BY <1>1, <1>2, <1>3, AcquirePlaced DEF SInv
    <2>2. QED BY <1>3, <2>1 DEF Kernel, KInv
<1>5. \A u \in Threads : pc'[u] = IF u = t THEN l ELSE pc[u]
    BY <1>3, <1>4 DEF At, Kernel, Labelled
<1>6. l \in Inner(t) => owner[Lock] = t
    <2>1. t \in {Reader, Closer, Other} BY DEF Threads
    <2>2. l \in Inner(t) => pc[t] \in Inner(t)
        BY <1>2, <2>1, InnerIs DEF Kernel, Labelled, ReaderLabels
    <2>3. QED BY <2>2 DEF SInv, Locked
<1>7. Locked' BY <1>3, <1>4, <1>5, <1>6, LockKept DEF SInv
<1>8. t = Reader => l = "drain" BY <1>2 DEF Kernel, Labelled, ReaderLabels
<1>9. Ending' /\ Counted' /\ Preempted'
    BY <1>1, <1>2, <1>4, <1>5, <1>8 DEF SInv, Ending, Counted, Preempted
<1>10. Awake'
    <2>1. Coming => Coming'
        BY <1>1, <1>2, <1>3, <1>4, ComingKept DEF Looping
    <2>2. t = Closer => (Raising => Raising') BY <1>2, <1>5 DEF Raising
    <2>3. QED BY <1>1, <1>2, <1>3, <1>4, <2>1, <2>2, AwakeKept DEF SInv
<1>11. QED BY <1>4, <1>7, <1>9, <1>10 DEF SInv

LEMMA SInvNaps ==
    ASSUME Kernel, SInv, NEW t \in Threads, Naps(t)
    PROVE  SInv'
<1> USE Names
<1>1. /\ rdq # <<>> /\ Head(rdq) = t
      /\ UNCHANGED <<prio, owner, waitq, flags, waiter, open, inside, meddled>>
    BY DEF Naps, Running, event_flag, object
<1>2. PICK l \in {"napping", "expecting"} :
          /\ pc' = At(t, l) /\ rdq' = Tail(rdq)
          /\ \/ l = "napping" /\ t = Reader /\ pc[Reader] = "nap"
             \/ l = "expecting" /\ pc[t] = "talking"
    BY DEF Naps, Running, Goto
<1>3. l \in Labels \ {"wait", "unlock"} /\ l \notin Outside \cup Queued(Lock)
    BY DEF Labels, Queued, Outside
<1>4. Placed' /\ Among(rdq') = Among(rdq) \ {t}
    <2>1. PlacedIn(At(t, l), Tail(rdq), waitq) /\ Among(Tail(rdq)) = Among(rdq) \ {t}
        BY <1>1, <1>3, SleepAt DEF SInv
    <2>2. QED BY <1>1, <1>2, <2>1 DEF Placed, PlacedIn, InLine, Before
<1>5. \A u \in Threads : pc'[u] = IF u = t THEN l ELSE pc[u]
    BY <1>2, <1>3 DEF At, Kernel, Labelled
<1>6. l \in Inner(t) => owner[Lock] = t
    <2>1. t \in {Reader, Closer, Other} BY DEF Threads
    <2>2. l \in Inner(t) => pc[t] \in Inner(t)
        BY <1>2, <2>1, InnerIs DEF Kernel, Labelled, ReaderLabels
    <2>3. QED BY <2>2 DEF SInv, Locked
<1>7. Locked' BY <1>1, <1>3, <1>5, <1>6, LockKept DEF SInv
<1>8. t = Reader => l = "napping" BY <1>2 DEF Kernel, Labelled, ReaderLabels
<1>9. Ending' /\ Counted' /\ Preempted'
    BY <1>1, <1>2, <1>5, <1>8 DEF SInv, Ending, Counted, Preempted
<1>10. Awake'
    <2>1. Coming => Coming'
        BY <1>1, <1>2, <1>3, <1>4, ComingKept DEF Looping
    <2>2. t = Closer => (Raising => Raising') BY <1>2, <1>5 DEF Raising
    <2>3. QED BY <1>1, <1>2, <1>3, <2>1, <2>2, AwakeKept DEF SInv
<1>11. QED BY <1>4, <1>7, <1>9, <1>10 DEF SInv

(* A thread gives back the mutex of the driver and goes on to l. *)
LEMMA DriverLeft ==
    ASSUME Kernel, SInv, NEW t \in Threads, NEW l \in Labels, NEW q \in Seq(Threads),
           PlacedIn(At(t, l), q, waitq), Release(Smutex, q), pc' = At(t, l), prio' = prio,
           l \in Inner(t) \cup Queued(Lock) => owner[Lock] = t,
           l \in Outside => owner[Lock] # t
    PROVE  /\ Placed' /\ Locked' /\ Among(q) \subseteq Among(rdq')
           /\ owner'[Lock] = owner[Lock] /\ waitq'[Lock] = waitq[Lock]
           /\ \A u \in Threads : pc'[u] = IF u = t THEN l ELSE pc[u]
<1>1. Smutex \in Mutexes /\ Lock \in Mutexes \ {Smutex} BY DEF Mutexes, Lock, Smutex
<1>2. At(t, l) \in [Threads -> Labels] /\ \A u \in Threads : pc'[u] = IF u = t THEN l ELSE pc[u]
    BY DEF At, Kernel, Labelled
<1>3. /\ Placed'
      /\ GivenUp(Smutex, q)
         \/ \E w \in Threads : At(t, l)[w] \in Queued(Smutex) /\ GivenTo(Smutex, q, w)
    BY <1>1, <1>2, ReleasePlaced
<1>4. /\ owner'[Lock] = owner[Lock] /\ waitq'[Lock] = waitq[Lock]
      /\ Among(q) \subseteq Among(rdq')
    BY <1>1, <1>3 DEF GivenUp, GivenTo, Kernel, KInv
<1>5. Locked' BY <1>2, <1>4, LockKept DEF SInv
<1>6. QED BY <1>2, <1>3, <1>4, <1>5

LEMMA SInvLooks ==
    ASSUME Kernel, SInv, Looks
    PROVE  SInv'
<1> USE Names
<1>1. /\ rdq # <<>> /\ Head(rdq) = Reader /\ pc[Reader] = "look" /\ rdq \in Seq(Threads)
      /\ UNCHANGED <<prio, flags, waiter, open, inside, meddled>> /\ Release(Smutex, rdq)
    BY DEF Looks, Running, event_flag, object, Kernel, KInv
<1>2. PICK l \in {"leave", "nap", "block"} : pc' = At(Reader, l)
    BY DEF Looks, Found, NotYet, Nothing, Goto
<1>3. l \in Labels \ Asleep /\ l \notin Outside BY DEF Labels, Asleep, Outside
<1>4. owner[Lock] = Reader BY <1>1, InnerIs DEF SInv, Locked
<1>5. PlacedIn(At(Reader, l), rdq, waitq) BY <1>1, <1>3, StayAt DEF SInv
<1>6. /\ Placed' /\ Locked' /\ owner'[Lock] = owner[Lock]
      /\ \A u \in Threads : pc'[u] = IF u = Reader THEN l ELSE pc[u]
    BY <1>1, <1>2, <1>3, <1>4, <1>5, DriverLeft
<1>7. open BY <1>1 DEF SInv, Ending
<1>8. Ending' /\ Counted' /\ Preempted' /\ Awake'
    BY <1>1, <1>2, <1>6, <1>7 DEF SInv, Ending, Counted, Preempted, Awake
<1>9. QED BY <1>6, <1>8 DEF SInv

LEMMA SInvAnswered ==
    ASSUME Kernel, SInv, NEW t \in Threads, Answered(t)
    PROVE  SInv'
<1> USE Names
<1>1. /\ rdq # <<>> /\ Head(rdq) = t /\ pc[t] \in {"listen", "talking"} /\ rdq \in Seq(Threads)
      /\ UNCHANGED <<prio, flags, waiter, open, inside, meddled>>
    BY DEF Answered, Running, event_flag, object, Kernel, KInv
<1>2. PICK l \in {"event", "leave", "user"}, q \in {rdq, Tail(rdq)} :
          /\ pc' = At(t, l) /\ Release(Smutex, q)
          /\ \/ l = "event" /\ t = Closer /\ q = rdq
             \/ l = "leave" /\ t = Other /\ owner[Lock] = Other /\ q = rdq
             \/ l = "user" /\ t = Other /\ owner[Lock] # Other /\ q = Tail(rdq)
    BY DEF Answered, Sends, Goto
<1>3. l \in Labels \ {"wait", "unlock"} /\ (l # "user" => l \notin Asleep)
      /\ "user" \notin Inner(t) \cup Queued(Lock) /\ "event" \notin Outside /\ "leave" \notin Outside
    BY DEF Labels, Asleep, Inner, Queued, Outside
<1>4. /\ PlacedIn(At(t, l), q, waitq) /\ q \in Seq(Threads) /\ Among(rdq) \ {t} \subseteq Among(q)
    <2>1. CASE l = "user"
        <3>1. /\ PlacedIn(At(t, l), Tail(rdq), waitq) /\ Tail(rdq) \in Seq(Threads)
              /\ Among(Tail(rdq)) = Among(rdq) \ {t}
            BY <1>1, <1>3, SleepAt DEF SInv
        <3>2. QED BY <1>2, <2>1, <3>1
    <2>2. CASE l # "user"
        <3>1. PlacedIn(At(t, l), rdq, waitq) BY <1>1, <1>3, <2>2, StayAt DEF SInv
        <3>2. QED BY <1>1, <1>2, <2>2, <3>1
    <2>3. QED BY <2>1, <2>2
<1>5. t = Closer => owner[Lock] = Closer
    BY <1>1, InnerIs DEF SInv, Locked
<1>6. /\ Placed' /\ Locked' /\ Among(q) \subseteq Among(rdq')
      /\ owner'[Lock] = owner[Lock] /\ waitq'[Lock] = waitq[Lock]
      /\ \A u \in Threads : pc'[u] = IF u = t THEN l ELSE pc[u]
    BY <1>1, <1>2, <1>3, <1>4, <1>5, DriverLeft
<1>7. Ending' /\ Counted' /\ Preempted'
    BY <1>1, <1>2, <1>6 DEF SInv, Ending, Counted, Preempted
<1>8. Awake'
    <2>1. Coming => Coming'
        BY <1>1, <1>2, <1>3, <1>4, <1>6, ComingKept DEF Looping
    <2>2. t = Closer => (Raising => Raising') BY <1>2, <1>6 DEF Raising
    <2>3. QED BY <1>1, <1>2, <1>3, <2>1, <2>2, AwakeKept DEF SInv
<1>9. QED BY <1>6, <1>7, <1>8 DEF SInv

LEMMA SInvRelocks ==
    ASSUME Kernel, SInv, NEW t \in Threads, Relocks(t)
    PROVE  SInv'
<1> USE Names
<1>1. /\ rdq # <<>> /\ Head(rdq) = t /\ pc[t] \in {"relock", "failed"}
      /\ UNCHANGED <<prio, flags, waiter, open, inside>>
      /\ meddled' = (meddled \/ (t = Closer /\ owner[Lock] = Other /\ pc[Other] = "setting"))
    BY DEF Relocks, Running, event_flag
<1>2. PICK l \in {"linger", "check", "leave"} :
          Acquire(t, Lock, l) /\ (t = Closer <=> l = "linger")
    BY DEF Relocks
<1>3. l \in Queued(Lock) /\ l \in Labels /\ Lock \in Mutexes /\ pc[t] \in Outside
    BY <1>1 DEF Queued, Labels, Mutexes, Outside
<1>4. Locked' BY <1>1, <1>2, <1>3, LockAsked DEF SInv
<1>5. /\ Placed' /\ pc' = At(t, l)
      /\ \/ /\ owner[Lock] = NoTask /\ owner' = [owner EXCEPT ![Lock] = t]
            /\ rdq' = rdq /\ waitq' = waitq
         \/ /\ owner[Lock] # NoTask /\ owner' = owner
            /\ Among(rdq') = Among(rdq) \ {t}
            /\ Among(waitq'[Lock]) = Among(waitq[Lock]) \cup {t}
    BY <1>1, <1>2, <1>3, AcquirePlaced DEF SInv
<1>6. \A u \in Threads : pc'[u] = IF u = t THEN l ELSE pc[u]
    BY <1>3, <1>5 DEF At, Kernel, Labelled
<1>7. owner'[Lock] = owner[Lock] \/ owner'[Lock] = t
    BY <1>3, <1>5 DEF Kernel, KInv
<1>8. t # Other BY <1>1 DEF Kernel, Labelled, OtherLabels
<1>9. Ending' /\ Counted' /\ Preempted'
    BY <1>1, <1>2, <1>6, <1>7, <1>8 DEF SInv, Ending, Counted, Preempted
<1>10. Awake'
    <2>1. CASE t = Reader
        <3>1. Coming => Coming'
            BY <1>1, <1>3, <1>5, <2>1, ComingKept
        <3>2. meddled => meddled' BY <1>1
        <3>3. QED BY <1>1, <1>2, <1>3, <1>5, <2>1, <3>1, <3>2, AwakeKept DEF SInv
    <2>2. CASE t = Closer
        <3> SUFFICES ASSUME ~open, ~meddled', ~Raising' PROVE Awake'
            BY <1>1 DEF Awake
        <3>1. ~Raising /\ ~meddled BY <1>1, <2>2 DEF Raising
        <3>2. /\ waiter = Reader => Rescue
              /\ pc[Reader] = "wait" => "read" \in flags \/ waiter = Closer \/ Rescue \/ Coming
            BY <3>1 DEF SInv, Awake
        <3>3. Rescue' <=> Rescue BY <1>6, <2>2 DEF Rescue
        <3>4. ASSUME pc[Reader] = "wait", Coming PROVE Rescue \/ Coming'
            <4>1. l = "linger" /\ pc'[Closer] = "linger" /\ pc'[Other] = pc[Other]
                BY <1>2, <1>6, <2>2
            <4>2. prio'[Closer] < prio'[Reader] BY <1>1, <3>4 DEF Coming
            <4>3. CASE rdq' = rdq
                <5>1. Closer \in Among(rdq') BY <1>1, <2>2, <4>3, HeadFirst DEF SInv
                <5>2. QED BY <4>1, <4>2, <5>1 DEF Coming, Looping
            <4>4. CASE owner[Lock] # NoTask /\ Among(waitq'[Lock]) = Among(waitq[Lock]) \cup {t}
                <5>1. owner[Lock] \in Threads BY <1>3, <4>4 DEF Kernel, KInv
                <5>2. owner[Lock] # Closer /\ owner[Lock] # Reader
                    BY <1>3, <2>2, <3>4 DEF SInv, Locked, Outside
                <5>3. owner[Lock] = Other BY <5>1, <5>2 DEF Threads
                <5>4. pc[Other] \in {"check", "leave", "unlock"}
                    BY <1>1, <2>2, <5>3 DEF SInv, Ending
                <5>5. QED BY <2>2, <4>1, <4>2, <4>4, <5>4 DEF Rescue, Coming
            <4>5. QED BY <1>5, <4>3, <4>4
        <3>5. QED BY <1>1, <1>6, <2>2, <3>2, <3>3, <3>4 DEF Awake
    <2>3. QED BY <1>8, <2>1, <2>2 DEF Threads
<1>11. QED BY <1>4, <1>5, <1>9, <1>10 DEF SInv

LEMMA SInvUnblocks ==
    ASSUME Kernel, SInv, NEW t \in Threads, Unblocks(t)
    PROVE  SInv'
<1> USE Names
<1>1. /\ rdq # <<>> /\ Head(rdq) = t /\ pc[t] = "block" /\ rdq \in Seq(Threads)
      /\ pc' = At(t, "wait") /\ Release(Lock, rdq)
      /\ UNCHANGED <<prio, flags, waiter, open, inside, meddled>>
    BY DEF Unblocks, Running, Goto, event_flag, object, Kernel, KInv
<1>2. t \in {Reader, Closer} BY <1>1 DEF Kernel, Labelled, OtherLabels, Threads
<1>3. owner[Lock] = t BY <1>1, <1>2, InnerIs DEF SInv, Locked
<1>4. "wait" \in Labels \ Asleep /\ "wait" \in Labels \cap Outside
    BY DEF Labels, Asleep, Outside
<1>5. PlacedIn(At(t, "wait"), rdq, waitq) BY <1>1, <1>4, StayAt DEF SInv
<1>6. /\ Placed' /\ Locked' /\ Among(rdq) \subseteq Among(rdq')
      /\ owner'[Lock] \in Threads => owner'[Lock] # t /\ pc[owner'[Lock]] \in Queued(Lock)
    BY <1>1, <1>3, <1>4, <1>5, LockGiven DEF SInv
<1>7. \A u \in Threads : pc'[u] = IF u = t THEN "wait" ELSE pc[u]
    BY <1>1, <1>4 DEF At, Kernel, Labelled
<1>8. pc[Other] # "unlock" BY <1>2, <1>3, InnerIs DEF SInv, Locked
<1>9. t = Reader => open BY <1>1 DEF SInv, Ending
<1>10. owner'[Lock] = Other => pc[Other] \in {"check", "leave", "setting"}
    BY <1>6 DEF Queued, Kernel, Labelled, OtherLabels
<1>11. Ending' /\ Counted' /\ Preempted'
    BY <1>1, <1>2, <1>7, <1>8, <1>9, <1>10 DEF SInv, Ending, Counted, Preempted
<1>12. Awake'
    <2>1. CASE t = Reader
        BY <1>1, <1>9, <2>1 DEF Awake
    <2>2. CASE t = Closer
        <3>1. Closer \in Among(rdq') BY <1>1, <1>6, <2>2, HeadFirst DEF SInv
        <3>2. Coming => Coming' BY <1>1, <1>7, <2>2, <3>1 DEF Coming, Looping
        <3>3. ~Raising BY <1>1, <2>2 DEF Raising
        <3>4. QED BY <1>1, <1>4, <2>2, <3>2, <3>3, AwakeKept DEF SInv
    <2>3. QED BY <1>2, <2>1, <2>2
<1>13. QED BY <1>6, <1>11, <1>12 DEF SInv

LEMMA SInvUnlocks ==
    ASSUME Kernel, SInv, NEW t \in Threads, Unlocks(t)
    PROVE  SInv'
<1> USE Names
<1>1. /\ rdq # <<>> /\ Head(rdq) = t /\ pc[t] \in {"unlock", "setting"}
      /\ Release(Lock, Tail(rdq))
      /\ UNCHANGED <<prio, flags, waiter, open, inside, meddled>>
    BY DEF Unlocks, Running, event_flag, object
<1>2. PICK l \in {"closed", "user"} : pc' = At(t, l) /\ (t # Closer => l = "user")
    BY DEF Unlocks, Goto
<1>3. owner[Lock] = t
    <2>1. pc[t] \in Inner(t) \cup Queued(Lock) BY <1>1, InnerIs DEF Queued, Threads
    <2>2. QED BY <1>1, <2>1, Holds DEF SInv
<1>4. l \in Labels \ {"wait", "unlock"} /\ l \in Labels \cap Outside
    BY DEF Labels, Outside
<1>5. /\ PlacedIn(At(t, l), Tail(rdq), waitq) /\ Tail(rdq) \in Seq(Threads)
      /\ Among(Tail(rdq)) = Among(rdq) \ {t}
    BY <1>1, <1>4, SleepAt DEF SInv
<1>6. /\ Placed' /\ Locked' /\ Among(Tail(rdq)) \subseteq Among(rdq')
      /\ owner'[Lock] \in Threads =>
             /\ owner'[Lock] \in Among(rdq') /\ owner'[Lock] # t
             /\ pc[owner'[Lock]] \in Queued(Lock)
      /\ owner'[Lock] \in Threads \/ Among(waitq[Lock]) = {}
    BY <1>1, <1>2, <1>3, <1>4, <1>5, LockGiven DEF SInv
<1>7. \A u \in Threads : pc'[u] = IF u = t THEN l ELSE pc[u]
    BY <1>2, <1>4 DEF At, Kernel, Labelled
<1>8. owner'[Lock] = Other => pc[Other] \in {"check", "leave", "setting"} /\ t # Other
    BY <1>6 DEF Queued, Kernel, Labelled, OtherLabels
<1>9. /\ pc[Reader] = "unlock" => t = Reader
      /\ pc[Other] = "unlock" => t = Other
    BY <1>3, InnerIs DEF SInv, Locked
<1>10. Ending' /\ Counted' /\ Preempted'
    BY <1>1, <1>2, <1>7, <1>8 DEF SInv, Ending, Counted, Preempted
<1>11. Awake'
    <2> SUFFICES ASSUME ~open, ~meddled, ~Raising PROVE Awake'
        BY <1>1, <1>2, <1>7 DEF Awake, Raising
    <2>1. /\ waiter = Reader => Rescue
          /\ pc[Reader] = "wait" => "read" \in flags \/ waiter = Closer \/ Rescue \/ Coming
        BY DEF SInv, Awake
    <2>2. t = Other => ~Rescue BY <1>1 DEF Rescue
    <2>3. Rescue => Rescue' BY <1>7, <2>2 DEF Rescue
    <2>4. ASSUME pc'[Reader] = "wait", Coming PROVE Coming'
        <3>1. pc[Reader] = "wait" /\ t # Reader BY <1>2, <1>7, <2>4
        <3>2. t # Closer
            BY <1>1, <2>4 DEF Coming, Looping
        <3>3. t = Other /\ pc'[Closer] = pc[Closer] BY <1>7, <3>1, <3>2 DEF Threads
        <3>4. CASE pc[Closer] \in Looping /\ Closer \in Among(rdq)
            BY <1>1, <1>5, <1>6, <2>4, <3>2, <3>3, <3>4 DEF Coming
        <3>5. CASE pc[Closer] = "linger" /\ Closer \in Among(waitq[Lock])
            <4>1. owner'[Lock] \in Threads /\ pc[owner'[Lock]] \in Queued(Lock)
                BY <1>6, <3>5
            <4>2. owner'[Lock] # Other /\ owner'[Lock] # Reader
                BY <1>6, <3>1, <3>3, <4>1 DEF Queued
            <4>3. owner'[Lock] = Closer BY <4>1, <4>2 DEF Threads
            <4>4. QED BY <1>1, <1>6, <2>4, <3>3, <3>5, <4>3 DEF Coming, Looping
        <3>6. QED BY <2>4, <3>4, <3>5 DEF Coming
    <2>5. QED BY <1>1, <1>2, <1>7, <2>1, <2>3, <2>4 DEF Awake
<1>12. QED BY <1>6, <1>10, <1>11 DEF SInv

LEMMA SInvWakens ==
    ASSUME Kernel, SInv, NEW t \in Threads, Wakens(t)
    PROVE  SInv'
<1> USE Names
<1>1. /\ rdq # <<>> /\ Head(rdq) = t /\ pc[t] = "woken" /\ pc' = At(t, "relock")
      /\ UNCHANGED <<prio, rdq, owner, waitq, waiter, open, inside, meddled>>
    BY DEF Wakens, Running, Goto, kernel, object
<1>2. t \in {Reader, Closer} BY <1>1 DEF Kernel, Labelled, OtherLabels, Threads
<1>3. /\ "relock" \in Labels \ Asleep /\ "relock" \notin Queued(Lock)
      /\ \A u \in Threads : "relock" \notin Inner(u)
    BY DEF Labels, Asleep, Queued, Inner
<1>4. owner[Lock] # t BY <1>1 DEF SInv, Locked, Outside
<1>5. /\ Placed' /\ Locked'
      /\ \A u \in Threads : pc'[u] = IF u = t THEN "relock" ELSE pc[u]
    BY <1>1, <1>3, <1>4, Onward
<1>6. Ending' /\ Counted' /\ Preempted'
    BY <1>1, <1>2, <1>5 DEF SInv, Ending, Counted, Preempted
<1>7. Awake'
    <2>1. (Raising <=> Raising') /\ (Rescue <=> Rescue')
        BY <1>1, <1>2, <1>5 DEF Raising, Rescue
    <2>2. pc'[Reader] = "wait" => pc[Reader] = "wait" /\ t = Closer
        BY <1>2, <1>5
    <2>3. pc'[Reader] = "wait" => Coming'
        <3> SUFFICES ASSUME pc'[Reader] = "wait" PROVE Coming' OBVIOUS
        <3>1. pc[Reader] = "wait" /\ t = Closer BY <2>2
        <3>2. Reader \in Among(rdq) BY <3>1 DEF SInv, Placed, PlacedIn
        <3>3. Closer \in Among(rdq) /\ prio[Closer] < prio[Reader]
            BY <1>1, <3>1, <3>2, HeadFirst DEF SInv
        <3>4. QED BY <1>1, <1>5, <3>1, <3>3 DEF Coming, Looping
    <2>4. QED BY <1>1, <2>1, <2>3 DEF SInv, Awake
<1>8. QED BY <1>5, <1>6, <1>7 DEF SInv

(* A thread that raises the flags on its way to l. *)
LEMMA FlagsRaised ==
    ASSUME Kernel, SInv, NEW t \in Threads, rdq # <<>>, Head(rdq) = t, NEW l \in Labels \ Asleep,
           Set(At(t, l)), prio' = prio, owner[Lock] = t, l \notin Outside, t # waiter
    PROVE  /\ Placed' /\ Locked' /\ Awake' /\ owner' = owner
           /\ \A u \in Threads : pc'[u] = IF u = waiter THEN "woken" ELSE IF u = t THEN l ELSE pc[u]
<1> USE Names
<1>1. /\ PlacedIn(At(t, l), rdq, waitq) /\ At(t, l) \in [Threads -> Labels]
      /\ \A u \in Threads : At(t, l)[u] = IF u = t THEN l ELSE pc[u]
    BY StayAt DEF SInv, At, Kernel, Labelled
<1>2. waiter # NoTask => At(t, l)[waiter] = "waiting"
    BY <1>1 DEF Kernel, Labelled
<1>3. /\ Placed' /\ UNCHANGED <<owner, waitq>> /\ flags' = FINISHED_FLAG /\ waiter' = NoTask
      /\ \A u \in Threads : pc'[u] = IF u = waiter THEN "woken" ELSE At(t, l)[u]
    BY <1>1, <1>2, SetPlaced
<1>4. \A u \in Threads : pc'[u] = IF u = waiter THEN "woken" ELSE IF u = t THEN l ELSE pc[u]
    BY <1>1, <1>3
<1>5. Locked' BY <1>3, <1>4, LockKept DEF SInv
<1>6. Awake' BY <1>3 DEF Awake
<1>7. QED BY <1>3, <1>4, <1>5, <1>6

LEMMA SInvLeaves ==
    ASSUME Kernel, SInv, NEW t \in Threads, Leaves(t)
    PROVE  SInv'
<1> USE Names
<1>1. /\ rdq # <<>> /\ Head(rdq) = t /\ pc[t] = "leave"
      /\ UNCHANGED <<prio, open, meddled>> /\ inside' = inside \ {t} /\ Finish(t)
    BY DEF Leaves, Running
<1>2. t \in {Reader, Other} /\ t # waiter
    BY <1>1 DEF Kernel, Labelled, CloserLabels, Threads
<1>3. owner[Lock] = t BY <1>1, Holds DEF SInv, Queued
<1>4. "unlock" \in Labels \ Asleep /\ "unlock" \notin Outside BY DEF Labels, Asleep, Outside
<1>5. /\ Placed' /\ Locked' /\ Awake' /\ owner' = owner
      /\ \A u \in Threads : pc'[u] = IF u = t THEN "unlock" ELSE
                                     IF u = waiter /\ ~open THEN "woken" ELSE pc[u]
    <2>1. CASE open
        <3>1. pc' = At(t, "unlock") /\ UNCHANGED <<rdq, owner, waitq, flags, waiter>>
            BY <1>1, <2>1 DEF Finish, Goto, kernel, event_flag
        <3>2. /\ Placed' /\ Locked'
              /\ \A u \in Threads : pc'[u] = IF u = t THEN "unlock" ELSE pc[u]
            BY <1>1, <1>3, <1>4, <3>1, Onward
        <3>3. QED BY <1>1, <2>1, <3>1, <3>2 DEF Awake
    <2>2. CASE ~open
        <3>1. Set(At(t, "unlock")) BY <1>1, <2>2 DEF Finish
        <3>2. /\ Placed' /\ Locked' /\ Awake' /\ owner' = owner
              /\ \A u \in Threads : pc'[u] = IF u = waiter THEN "woken" ELSE
                                             IF u = t THEN "unlock" ELSE pc[u]
            BY <1>1, <1>2, <1>3, <1>4, <3>1, FlagsRaised
        <3>3. QED BY <1>2, <2>2, <3>2
    <2>3. QED BY <2>1, <2>2
<1>6. pc'[Reader] = "wait" => pc[Reader] = "wait" /\ t = Other /\ Reader \in Among(rdq)
    BY <1>2, <1>5 DEF SInv, Placed, PlacedIn
<1>7. Preempted'
    <2>1. pc'[Reader] = "wait" => prio[Other] < prio[Reader]
        BY <1>1, <1>6, HeadFirst DEF SInv
    <2>2. QED BY <1>1, <2>1 DEF Preempted
<1>8. Ending'
    <2>1. t = Other => pc'[Other] = "unlock" BY <1>5
    <2>2. owner'[Lock] = t BY <1>3, <1>5
    <2>3. pc'[Reader] \in {pc[Reader], "unlock", "woken"} BY <1>5
    <2>4. QED BY <1>1, <2>1, <2>2, <2>3 DEF SInv, Ending
<1>9. Counted'
    <2>1. t = Reader => pc'[Reader] = "unlock" BY <1>5
    <2>2. t # Reader => /\ pc'[Reader] \in {pc[Reader], "woken"}
                        /\ Reader \in inside => Reader \in inside'
        BY <1>1, <1>5
    <2>3. QED BY <2>1, <2>2 DEF SInv, Counted
<1>10. QED BY <1>5, <1>7, <1>8, <1>9 DEF SInv

LEMMA SInvArrives ==
    ASSUME Kernel, SInv, NEW r \in Reports, Arrives(r)
    PROVE  SInv'
<1> USE Names
<1>1. UNCHANGED <<prio, open, inside, meddled>> BY DEF Arrives, object
<1>2. CASE ~Wakes
    BY <1>1, <1>2, Same DEF Arrives, kernel, event_flag
<1>3. CASE Wakes
    <2>1. Set(pc) /\ pc \in [Threads -> Labels]
        BY <1>3 DEF Arrives, Kernel, Labelled
    <2>2. waiter # NoTask => waiter \in Threads /\ pc[waiter] = "waiting"
        BY DEF Kernel, Labelled
    <2>3. /\ Placed' /\ UNCHANGED <<owner, waitq>> /\ flags' = FINISHED_FLAG /\ waiter' = NoTask
          /\ \A u \in Threads : pc'[u] = IF u = waiter THEN "woken" ELSE pc[u]
        BY <1>1, <2>1, <2>2, SetPlaced DEF SInv, Placed
    <2>4. \A u \in Threads : "woken" \notin Inner(u) \cup Queued(Lock)
        BY DEF Inner, Queued
    <2>5. Locked' BY <2>2, <2>3, <2>4 DEF SInv, Locked, Outside
    <2>6. Awake' BY <2>3 DEF Awake
    <2>7. Ending' /\ Counted' /\ Preempted'
        BY <1>1, <2>2, <2>3 DEF SInv, Ending, Counted, Preempted, Kernel, Labelled
    <2>8. QED BY <2>3, <2>5, <2>6, <2>7 DEF SInv
<1>4. QED BY <1>2, <1>3

(* The driver's close, unanswered: tried once more, or given up. *)
LEMMA SInvUnanswered ==
    ASSUME Kernel, SInv, Unanswered
    PROVE  SInv'
<1> USE Names
<1>1. /\ rdq # <<>> /\ Head(rdq) = Closer /\ pc[Closer] = "listen" /\ rdq \in Seq(Threads)
      /\ UNCHANGED <<prio, flags, waiter, open, inside, meddled>> /\ Release(Smutex, rdq)
    BY DEF Unanswered, Running, event_flag, Kernel, KInv
<1>2. PICK l \in {"talk", "event"} : pc' = At(Closer, l)
    BY DEF Unanswered, Goto
<1>3. l \in Labels \ Asleep /\ l \notin Outside /\ l # "wait" BY DEF Labels, Asleep, Outside
<1>4. owner[Lock] = Closer BY <1>1, InnerIs DEF SInv, Locked
<1>5. PlacedIn(At(Closer, l), rdq, waitq) BY <1>1, <1>3, StayAt DEF SInv
<1>6. /\ Placed' /\ Locked' /\ Among(rdq) \subseteq Among(rdq')
      /\ owner'[Lock] = owner[Lock] /\ waitq'[Lock] = waitq[Lock]
      /\ \A u \in Threads : pc'[u] = IF u = Closer THEN l ELSE pc[u]
    BY <1>1, <1>2, <1>3, <1>4, <1>5, DriverLeft
<1>7. Ending' /\ Counted' /\ Preempted'
    BY <1>1, <1>2, <1>6 DEF SInv, Ending, Counted, Preempted
<1>8. Awake'
    BY <1>1, <1>2, <1>6 DEF SInv, Awake, Raising
<1>9. QED BY <1>6, <1>7, <1>8 DEF SInv

LEMMA SInvClose ==
    ASSUME Kernel, SInv, Close
    PROVE  SInv'
<1> USE Names
<1> SUFFICES ASSUME Detaches \/ Raises \/ Lingers PROVE SInv'
    BY SInvUnanswered DEF Close
<1>1. /\ rdq # <<>> /\ Head(rdq) = Closer /\ pc[Closer] \in {"detach", "event", "linger"}
      /\ UNCHANGED <<prio, inside, meddled>>
    BY DEF Detaches, Raises, Lingers, Running, object
<1>2. owner[Lock] = Closer BY <1>1, Holds, InnerIs DEF SInv, Queued
<1>3. {"talk", "linger", "unlock", "block"} \subseteq Labels \ Asleep
      /\ {"talk", "linger", "unlock", "block"} \cap Outside = {}
    BY DEF Labels, Asleep, Outside
<1>4. CASE Detaches
    <2>1. /\ pc' = At(Closer, "talk") /\ UNCHANGED <<rdq, owner, waitq>>
        BY <1>4 DEF Detaches, Goto, kernel
    <2>2. /\ Placed' /\ Locked'
          /\ \A u \in Threads : pc'[u] = IF u = Closer THEN "talk" ELSE pc[u]
        BY <1>1, <1>2, <1>3, <2>1, Onward
    <2>3. pc[Reader] \notin {"ask", "poll", "drain", "look", "nap", "napping", "block"}
        BY <1>2, InnerIs DEF SInv, Locked
    <2>4. Ending'
        BY <1>2, <2>1, <2>2, <2>3 DEF Ending, Kernel, Labelled, ReaderLabels
    <2>5. Counted' /\ Preempted'
        BY <1>1, <2>2 DEF SInv, Counted, Preempted
    <2>6. Awake' BY <2>2 DEF Awake, Raising
    <2>7. QED BY <2>2, <2>4, <2>5, <2>6 DEF SInv
<1>5. CASE Raises
    <2>1. Set(At(Closer, "linger")) /\ open' = open /\ Closer # waiter
        BY <1>1, <1>5 DEF Raises, Event, object, Kernel, Labelled
    <2>2. /\ Placed' /\ Locked' /\ Awake' /\ owner' = owner
          /\ \A u \in Threads : pc'[u] = IF u = waiter THEN "woken" ELSE
                                         IF u = Closer THEN "linger" ELSE pc[u]
        BY <1>1, <1>2, <1>3, <2>1, FlagsRaised
    <2>3. waiter # Other BY DEF Kernel, Labelled
    <2>4. Ending' /\ Counted' /\ Preempted'
        BY <1>1, <2>1, <2>2, <2>3 DEF SInv, Ending, Counted, Preempted
    <2>5. QED BY <2>2, <2>4 DEF SInv
<1>6. CASE Lingers
    <2>1. PICK l \in {"unlock", "block"} :
              pc' = At(Closer, l) /\ (l = "unlock" => inside = {})
        BY <1>6 DEF Lingers, Goto
    <2>2. UNCHANGED <<rdq, owner, waitq, flags, waiter, open>> /\ pc[Closer] = "linger"
        BY <1>6 DEF Lingers, Running, kernel, event_flag, object
    <2>3. /\ Placed' /\ Locked'
          /\ \A u \in Threads : pc'[u] = IF u = Closer THEN l ELSE pc[u]
        BY <1>1, <1>2, <1>3, <2>1, <2>2, Onward
    <2>4. Ending' /\ Counted' /\ Preempted'
        BY <1>1, <2>2, <2>3 DEF SInv, Ending, Counted, Preempted
    <2>5. (Rescue <=> Rescue') /\ ~Raising BY <2>2, <2>3 DEF Rescue, Raising
    <2>6. pc'[Reader] = "wait" /\ Coming => Coming'
        <3>1. Closer \in Among(rdq) BY <1>1, HeadFirst DEF SInv
        <3>2. pc[Reader] = "wait" => l = "block" BY <2>1 DEF SInv, Counted
        <3>3. QED BY <1>1, <2>2, <2>3, <3>1, <3>2 DEF Coming, Looping
    <2>7. Awake' BY <1>1, <2>2, <2>3, <2>5, <2>6 DEF SInv, Awake
    <2>8. QED BY <2>3, <2>4, <2>7 DEF SInv
<1>7. QED BY <1>4, <1>5, <1>6

LEMMA SleepStep == ASSUME Kernel, SInv, [Next]_vars PROVE SInv'
<1>1. ASSUME NEW t \in Threads, Step(t) PROVE SInv'
    BY <1>1, SInvEnters, SInvChecks, SInvNaps, SInvUnblocks, SInvWaits, SInvWakens, SInvRelocks,
       SInvLeaves, SInvUnlocks, SInvPolls, SInvReads, SInvAnswered DEF Step
<1>2. ASSUME NEW t \in Threads, Runs(t) PROVE SInv'
    <2>1. CASE Step(t) BY <2>1, <1>1
    <2>2. CASE Recv BY <2>2, Names, SInvReads, SInvPolls, SInvLooks DEF Recv
    <2>3. CASE Close BY <2>3, SInvClose
    <2>4. QED BY <1>2, <2>1, <2>2, <2>3 DEF Runs
<1>3. ASSUME NEW t \in Threads, Calls(t) \/ NapEnds(t) PROVE SInv'
    BY <1>3, SInvCalls
<1>4. CASE TimesOut
    BY <1>4, Names, SInvCalls
<1>5. ASSUME NEW r \in Reports, Arrives(r) PROVE SInv'
    BY <1>5, SInvArrives
<1>6. CASE UNCHANGED vars
    BY <1>6, Same DEF vars, kernel, event_flag, object
<1>7. QED BY <1>1, <1>2, <1>3, <1>4, <1>5, <1>6 DEF Next, Reports

(* For every choice of priorities and however the threads take turns: a    *)
(* recv asleep when close has taken the socket away, and has not had to    *)
(* wait for a caller it does not count, is woken by the event() of close   *)
(* or by the other caller, who is on its way to find the socket gone.      *)
THEOREM AllWoken == Spec => []SleepersWoken
<1>1. Init => SInv
    <2> SUFFICES ASSUME Init PROVE SInv OBVIOUS
    <2>1. Among(rdq) = {} /\ \A m \in Mutexes : Among(waitq[m]) = {} /\ waitq[m] = <<>>
        BY DEF Init, Among
    <2>2. pc = [t \in Threads |-> "user"] /\ rdq = <<>> BY DEF Init
    <2>3. Placed BY <2>1, <2>2, Names DEF Placed, PlacedIn, InLine, Distinct
    <2>4. \A t \in Threads : "user" \notin Inner(t) \cup Queued(Lock) /\ owner[Lock] # t
        BY Names DEF Init, Inner, Queued, Mutexes
    <2>5. Locked BY <2>2, <2>4 DEF Locked
    <2>6. Ending /\ Counted /\ Preempted /\ Awake
        BY <2>2, Names DEF Init, Ending, Counted, Preempted, Awake
    <2>7. QED BY <2>3, <2>5, <2>6 DEF SInv
<1>2. WInv /\ KInv /\ DInv => Kernel
    BY LevelsAssumption DEF WInv, DInv, Kernel
<1>3. Kernel /\ SInv /\ [Next]_vars => SInv'
    BY SleepStep
<1>4. Kernel /\ SInv => SleepersWoken
    BY Names DEF Kernel, Labelled, SInv, Awake, Rescue, SleepersWoken
<1>5. QED BY WaitInductive, TypeInductive, <1>1, <1>2, <1>3, <1>4, PTL DEF Spec
=============================================================================

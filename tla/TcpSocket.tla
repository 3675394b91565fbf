------------------------------ MODULE TcpSocket ------------------------------
(***************************************************************************)
(* One TCPSocket of mbed OS on the ESP32 driver: a thread receives, one    *)
(* closes the socket meanwhile, and a third sends on it, sets an option of *)
(* it or uses another socket of the radio, and so consumes what has come   *)
(* for all.                                                                *)
(*                                                                         *)
(* A recv polls the driver and then waits for READ_FLAG.  The flag is      *)
(* raised from the receive interrupt of the UART, which calls              *)
(* ESP32::event only when the buffer was empty, and which calls the        *)
(* socket only while Notified is 0.  close takes the socket away, raises   *)
(* the flags and waits until the calls inside have left.                   *)
(*                                                                         *)
(* The scheduling is that of the ASP3 kernel on one processor: the head of *)
(* rdq runs until it blocks or a more urgent thread becomes ready.  The    *)
(* event flag is created with flgatr = 0, so a second waiter is refused    *)
(* (E_ILUSE), and osEventFlagsWait clears what it waited for in a second   *)
(* kernel call, after twai_flg.                                            *)
(***************************************************************************)
EXTENDS Naturals, Sequences

CONSTANTS
    Levels,         \* priorities the threads can have been created with
    Attempts,       \* ESP32_RECV_TIMEOUT: polls of a recv after the first
    Traffic         \* bound: reports that come in

ASSUME LevelsAssumption   == Levels \subseteq Nat /\ Levels # {}
ASSUME AttemptsAssumption == Attempts \in Nat
ASSUME TrafficAssumption  == Traffic \in Nat

Reader  == "reader"     \* calls recv on the socket
Closer  == "closer"     \* calls close on the socket, once
Other   == "other"      \* any other thread that uses the socket or the radio
Threads == {Reader, Closer, Other}
NoTask  == "none"

Lock    == "lock"       \* InternetSocket::_lock
Smutex  == "smutex"     \* ESP32::_smutex
Mutexes == {Lock, Smutex}

READ_FLAG     == {"read"}
WRITE_FLAG    == {"write"}
FINISHED_FLAG == READ_FLAG \cup WRITE_FLAG      \* 0x3
Flags         == FINISHED_FLAG

VARIABLES
    prio, rdq,          \* priorities; the ready queue, the running thread first
    owner, waitq,       \* the mutexes: holder, threads that wait in turn
    flags, waiter,      \* the event flag: flgptn, the thread in its wait queue
    flgptn,             \* what twai_flg gave each thread back, until it is used
    open, inside,       \* _socket; the calls that _readers and _writers count
    attached, notified, \* _cbs[id]: callback # NULL, Notified
    rx, traffic,        \* reports in the UART buffer; reports still to come
    packets, gone,      \* _packets of this socket; closed by the peer
    retry,              \* retry_cnt of the poll under way
    tries,              \* ESP32::close: tries that got no answer
    meddled,            \* history: close had to wait for a caller that it does not count
    pc

kernel == <<rdq, owner, waitq>>
event_flag == <<flags, waiter, flgptn>>
object == <<open, inside, tries, meddled>>
driver == <<attached, notified, rx, packets, gone, retry>>
vars   == <<prio, kernel, event_flag, object, driver, traffic, pc>>

-----------------------------------------------------------------------------
(* The kernel. *)
Running(t, label) == rdq # <<>> /\ Head(rdq) = t /\ pc[t] = label

(* t becomes ready behind every thread at least as urgent as itself. *)
MakeReady(q, t) ==
    \E k \in 0 .. Len(q) :
        /\ \A i \in 1 .. k : prio[q[i]] <= prio[t]
        /\ \A i \in (k + 1) .. Len(q) : prio[q[i]] > prio[t]
        /\ rdq' = SubSeq(q, 1, k) \o <<t>> \o SubSeq(q, k + 1, Len(q))

At(t, label) == [pc EXCEPT ![t] = label]

Goto(t, label) == pc' = At(t, label)

(* Mutex::lock: either way t goes on at label when the mutex is its own.   *)
Acquire(t, m, label) ==
    /\ Goto(t, label)
    /\ \/ /\ owner[m] = NoTask
          /\ owner' = [owner EXCEPT ![m] = t]
          /\ UNCHANGED <<rdq, waitq>>
       \/ /\ owner[m] # NoTask
          /\ waitq' = [waitq EXCEPT ![m] = Append(@, t)]
          /\ rdq' = Tail(rdq)
          /\ UNCHANGED owner

(* Mutex::unlock, of which q are ready afterwards: the first waiter owns   *)
(* the mutex before it runs again.                                         *)
Release(m, q) ==
    \/ /\ waitq[m] = <<>>
       /\ owner' = [owner EXCEPT ![m] = NoTask]
       /\ rdq' = q
       /\ UNCHANGED waitq
    \/ /\ waitq[m] # <<>>
       /\ owner' = [owner EXCEPT ![m] = Head(waitq[m])]
       /\ waitq' = [waitq EXCEPT ![m] = Tail(@)]
       /\ MakeReady(q, Head(waitq[m]))

(* EventFlags::set, by a thread on its way to label or, with here = pc, by *)
(* the interrupt: the waiter, whose pattern always meets these flags,      *)
(* leaves the wait queue.                                                  *)
Set(here) ==
    /\ flags' = FINISHED_FLAG
    /\ \/ /\ waiter = NoTask
          /\ pc' = here
          /\ UNCHANGED <<rdq, waiter, flgptn>>
       \/ /\ waiter # NoTask
          /\ waiter' = NoTask
          /\ flgptn' = [flgptn EXCEPT ![waiter] = FINISHED_FLAG]
          /\ pc' = [here EXCEPT ![waiter] = "woken"]
          /\ MakeReady(rdq, waiter)
    /\ UNCHANGED <<owner, waitq>>

Pattern(t) == IF t = Reader THEN READ_FLAG ELSE FINISHED_FLAG

-----------------------------------------------------------------------------
(* The receive interrupt: UARTSerial::rx_irq, ESP32::event and             *)
(* InternetSocket::event.  The peer closes a connection once, and sends    *)
(* nothing on a closed one.                                                *)
Wakes == rx = <<>> /\ attached /\ ~notified

Peer(report) ==
    report \in {"data", "closed"} =>
        open /\ ~gone /\ \A i \in 1 .. Len(rx) : rx[i] # "closed"

Arrives(report) ==
    /\ traffic > 0 /\ Peer(report)
    /\ traffic' = traffic - 1
    /\ rx' = Append(rx, report)
    /\ IF Wakes
       THEN /\ Set(pc)
            /\ notified' = TRUE
       ELSE UNCHANGED <<kernel, event_flag, pc, notified>>
    /\ UNCHANGED <<prio, object, attached, packets, gone, retry>>

(* process_oob and the readers of an answer: _packet_handler and           *)
(* socket_handler for this socket, anything else for others.               *)
TakeReport ==
    /\ rx # <<>>
    /\ rx' = Tail(rx)
    /\ packets' = IF Head(rx) = "data" THEN packets + 1 ELSE packets
    /\ gone' = (gone \/ Head(rx) = "closed")
    /\ notified' = (notified /\ Head(rx) # "closed")
    /\ UNCHANGED <<attached, retry>>

-----------------------------------------------------------------------------
(* A call begins: the thread, asleep elsewhere until now, is made ready.   *)
First(t) == IF t = Other THEN {"call", "set", "talk"} ELSE {"call"}

Calls(t) ==
    /\ pc[t] = "user"
    /\ MakeReady(rdq, t)
    /\ \E label \in First(t) : Goto(t, label)
    /\ UNCHANGED <<prio, owner, waitq, event_flag, object, driver, traffic>>

Locks(t, label) ==
    /\ Acquire(t, Lock, label)
    /\ UNCHANGED <<prio, event_flag, object, driver, traffic>>

(* recv, send and close; and what takes the lock for a moment and is not   *)
(* counted: setsockopt, set_timeout, sigio, getpeername.                   *)
Enters(t) ==
    \/ Running(t, "call") /\ Locks(t, IF t = Closer THEN "detach" ELSE "check")
    \/ Running(t, "set") /\ Locks(t, "setting")

Checks(t) ==
    /\ Running(t, "check")
    /\ inside' = inside \cup {t}
    /\ Goto(t, IF ~open THEN "leave" ELSE IF t = Reader THEN "ask" ELSE "talk")
    /\ UNCHANGED <<prio, kernel, event_flag, open, tries, meddled, driver, traffic>>

(* ESP32::recv: Notified is cleared once, before the first poll. *)
Rearm == notified' = (notified /\ packets = 0)   \* bug: only if data are queued

Notified == notified' = FALSE

Asks ==
    /\ Running(Reader, "ask")
    /\ Notified
    /\ Goto(Reader, "poll")
    /\ UNCHANGED <<prio, kernel, event_flag, object, attached, rx, packets, gone, retry, traffic>>

Polls ==
    /\ Running(Reader, "poll")
    /\ Acquire(Reader, Smutex, "drain")
    /\ UNCHANGED <<prio, event_flag, object, driver, traffic>>

Drains ==
    /\ Running(Reader, "drain")
    /\ \/ TakeReport /\ UNCHANGED pc
       \/ rx = <<>> /\ Goto(Reader, "look") /\ UNCHANGED driver
    /\ UNCHANGED <<prio, kernel, event_flag, object, traffic>>

(* What the poll found: data, which recv returns; nothing, until the       *)
(* attempts are used up: then -2, closed, which recv returns as well, or   *)
(* -1, for which it waits unless its time-out is 0.                        *)
Found ==
    /\ packets > 0
    /\ \E n \in 1 .. packets : packets' = packets - n
    /\ Goto(Reader, "leave")
    /\ retry' = 0

OnceMore == retry <= Attempts       \* bug: off by one

Again == retry < Attempts

NotYet ==
    /\ packets = 0 /\ Again
    /\ retry' = retry + 1
    /\ Goto(Reader, "nap")
    /\ UNCHANGED packets

Nothing ==
    /\ packets = 0 /\ ~Again
    /\ Goto(Reader, "leave") \/ (~gone /\ Goto(Reader, "block"))
    /\ retry' = 0
    /\ UNCHANGED packets

Looks ==
    /\ Running(Reader, "look")
    /\ Found \/ NotYet \/ Nothing
    /\ Release(Smutex, rdq)
    /\ UNCHANGED <<prio, event_flag, object, attached, notified, rx, gone, traffic>>

(* A send and a close of a socket that is gone send no command. *)
Sends(t) == t = Other /\ owner[Lock] = t
Unsaid(t) == gone /\ (t = Closer \/ Sends(t))

(* ThisThread::sleep_for(1), and the wait for the answer to a command. *)
Naps(t) ==
    /\ \/ t = Reader /\ Running(t, "nap") /\ Goto(t, "napping")
       \/ Running(t, "talking") /\ ~Unsaid(t) /\ Goto(t, "expecting")
    /\ rdq' = Tail(rdq)
    /\ UNCHANGED <<prio, owner, waitq, event_flag, object, driver, traffic>>

NapEnds(t) ==
    /\ \/ pc[t] = "napping" /\ Goto(t, "poll")
       \/ pc[t] = "expecting" /\ Goto(t, "listen")
    /\ MakeReady(rdq, t)
    /\ UNCHANGED <<prio, owner, waitq, event_flag, object, driver, traffic>>

-----------------------------------------------------------------------------
(* The wait of recv for READ_FLAG and of close for FINISHED_FLAG. *)
Unblocks(t) ==
    /\ Running(t, "block")
    /\ Release(Lock, rdq)
    /\ Goto(t, "wait")
    /\ UNCHANGED <<prio, event_flag, object, driver, traffic>>

Refused(t) == waiter # NoTask /\ Goto(t, "failed") /\ UNCHANGED <<rdq, waiter, flgptn>>

Granted(t) ==
    /\ waiter = NoTask /\ flags \cap Pattern(t) # {}
    /\ flgptn' = [flgptn EXCEPT ![t] = flags]
    /\ Goto(t, "woken")
    /\ UNCHANGED <<rdq, waiter>>

Blocked(t) ==
    /\ waiter = NoTask /\ flags \cap Pattern(t) = {}
    /\ waiter' = t
    /\ rdq' = Tail(rdq)
    /\ Goto(t, "waiting")
    /\ UNCHANGED flgptn

Waits(t) ==
    /\ Running(t, "wait")
    /\ Refused(t) \/ Granted(t) \/ Blocked(t)
    /\ UNCHANGED <<prio, owner, waitq, flags, object, driver, traffic>>

Clears(t) == flags' = flags \ (Pattern(t) \cap flgptn[t])

Wakens(t) ==
    /\ Running(t, "woken")
    /\ Clears(t)
    /\ flgptn' = [flgptn EXCEPT ![t] = {}]
    /\ Goto(t, "relock")
    /\ UNCHANGED <<prio, kernel, waiter, object, driver, traffic>>

(* A recv with a timeout leaves the wait queue with E_TMOUT. *)
TimesOut ==
    /\ waiter = Reader
    /\ waiter' = NoTask
    /\ MakeReady(rdq, Reader)
    /\ Goto(Reader, "failed")
    /\ UNCHANGED <<prio, owner, waitq, flags, flgptn, object, driver, traffic>>

(* Back under the lock: recv gives up on an error, close looks again.      *)
Relocks(t) ==
    /\ \/ Running(t, "relock") /\ Acquire(t, Lock, IF t = Closer THEN "linger" ELSE "check")
       \/ Running(t, "failed") /\ Acquire(t, Lock, IF t = Closer THEN "linger" ELSE "leave")
    /\ meddled' = (meddled \/ (t = Closer /\ owner[Lock] = Other /\ pc[Other] = "setting"))
    /\ UNCHANGED <<prio, event_flag, open, inside, tries, driver, traffic>>

FinishSilent(t) == Goto(t, "unlock") /\ UNCHANGED <<kernel, event_flag>>
                                    \* bug: FINISHED_FLAG not set

Finish(t) ==
    IF open
    THEN Goto(t, "unlock") /\ UNCHANGED <<kernel, event_flag>>
    ELSE Set(At(t, "unlock"))

Leaves(t) ==
    /\ Running(t, "leave")
    /\ inside' = inside \ {t}
    /\ Finish(t)
    /\ UNCHANGED <<prio, open, tries, meddled, driver, traffic>>

(* The last unlock, after which the thread has nothing left to do here. *)
Unlocks(t) ==
    /\ Running(t, "unlock") \/ Running(t, "setting")
    /\ Release(Lock, Tail(rdq))
    /\ Goto(t, IF t = Closer THEN "closed" ELSE "user")
    /\ UNCHANGED <<prio, event_flag, object, driver, traffic>>

-----------------------------------------------------------------------------
(* ESP32::send, ESP32::close and the commands of other sockets: the        *)
(* reports that come before the answer are taken for everybody.            *)
Talks(t) ==
    /\ Running(t, "talk")
    /\ Acquire(t, Smutex, "talking")
    /\ notified' = (notified /\ ~Sends(t))
    /\ UNCHANGED <<prio, event_flag, object, attached, rx, packets, gone, retry, traffic>>

Listens(t) ==
    /\ Running(t, "listen")
    /\ TakeReport
    /\ UNCHANGED <<prio, kernel, event_flag, object, traffic, pc>>

Answered(t) ==
    /\ Running(t, "listen") \/ (Running(t, "talking") /\ Unsaid(t))
    /\ \/ /\ t = Closer                          \* _clear_socket_packets
          /\ packets' = 0
          /\ Goto(t, "event")
          /\ Release(Smutex, rdq)
       \/ /\ Sends(t)
          /\ Goto(t, "leave")
          /\ Release(Smutex, rdq)
          /\ UNCHANGED packets
       \/ /\ t = Other /\ ~Sends(t)              \* another socket's command
          /\ Goto(t, "user")
          /\ Release(Smutex, Tail(rdq))
          /\ UNCHANGED packets
    /\ UNCHANGED <<prio, event_flag, object, attached, notified, rx, gone, retry, traffic>>

(* A close that is not answered in time is tried once more, and ends then. *)
Unanswered ==
    /\ Running(Closer, "listen")
    /\ Goto(Closer, IF tries = 0 THEN "talk" ELSE "event")
    /\ tries' = 1
    /\ Release(Smutex, rdq)
    /\ UNCHANGED <<prio, event_flag, open, inside, meddled, driver, traffic>>

(* InternetSocket::close: socket_attach(_socket, 0, 0) and _socket = 0,    *)
(* the driver's close, event(), and the wait for the calls inside.         *)
Detaches ==
    /\ Running(Closer, "detach")
    /\ open' = FALSE /\ attached' = FALSE /\ notified' = FALSE
    /\ Goto(Closer, "talk")
    /\ UNCHANGED <<prio, kernel, event_flag, inside, tries, meddled, rx, packets, gone, retry, traffic>>

EventForgotten == Goto(Closer, "linger") /\ UNCHANGED <<kernel, event_flag>>
                                    \* bug: nobody woken

Event == Set(At(Closer, "linger"))

Raises ==
    /\ Running(Closer, "event")
    /\ Event
    /\ UNCHANGED <<prio, object, driver, traffic>>

Lingers ==
    /\ Running(Closer, "linger")
    /\ Goto(Closer, IF inside = {} THEN "unlock" ELSE "block")
    /\ UNCHANGED <<prio, kernel, event_flag, object, driver, traffic>>

-----------------------------------------------------------------------------
Init ==
    /\ prio \in [Threads -> Levels]
    /\ rdq = <<>>
    /\ owner = [m \in Mutexes |-> NoTask]
    /\ waitq = [m \in Mutexes |-> <<>>]
    /\ flags = {} /\ waiter = NoTask
    /\ flgptn = [t \in Threads |-> {}]
    /\ open = TRUE /\ inside = {} /\ tries = 0 /\ meddled = FALSE
    /\ attached = TRUE /\ notified = FALSE
    /\ rx = <<>> /\ traffic = Traffic
    /\ packets = 0 /\ gone = FALSE
    /\ retry = 0
    /\ pc = [t \in Threads |-> "user"]

Recv  == Asks \/ Polls \/ Drains \/ Looks
Close == Detaches \/ Unanswered \/ Raises \/ Lingers

Step(t) ==
    \/ Enters(t) \/ Checks(t) \/ Naps(t) \/ Unblocks(t) \/ Waits(t) \/ Wakens(t)
    \/ Relocks(t) \/ Leaves(t) \/ Unlocks(t)
    \/ Talks(t) \/ Listens(t) \/ Answered(t)

Runs(t) == Step(t) \/ (t = Reader /\ Recv) \/ (t = Closer /\ Close)

Next ==
    \/ \E t \in Threads : Runs(t) \/ Calls(t) \/ NapEnds(t)
    \/ TimesOut
    \/ \E report \in {"data", "closed", "others"} : Arrives(report)

(* The running thread gets on and the sleeps of the timer end.  Calls do   *)
(* not come for ever without a pause: a less urgent thread gets its turn.  *)
Fairness ==
    /\ WF_vars(rdq # <<>> /\ Runs(Head(rdq)))
    /\ \A t \in Threads : WF_vars(NapEnds(t))
    /\ <>[][\A t \in Threads : pc[t] = "user" => pc'[t] = "user"]_vars

Spec == Init /\ [][Next]_vars /\ Fairness

-----------------------------------------------------------------------------
Labels == {"user", "call", "check", "ask", "poll", "drain", "look", "nap", "napping",
           "block", "wait", "waiting", "woken", "relock", "failed", "leave", "unlock",
           "set", "setting", "talk", "talking", "expecting", "listen", "detach", "event",
           "linger", "closed"}

TypeOK ==
    /\ prio \in [Threads -> Levels]
    /\ rdq \in Seq(Threads)
    /\ owner \in [Mutexes -> Threads \cup {NoTask}]
    /\ waitq \in [Mutexes -> Seq(Threads)]
    /\ flags \subseteq Flags /\ waiter \in {Reader, Closer, NoTask}
    /\ flgptn \in [Threads -> SUBSET Flags]
    /\ open \in BOOLEAN /\ inside \subseteq {Reader, Other}
    /\ tries \in 0 .. 1 /\ meddled \in BOOLEAN
    /\ attached \in BOOLEAN /\ notified \in BOOLEAN
    /\ rx \in Seq({"data", "closed", "others"}) /\ traffic \in 0 .. Traffic
    /\ packets \in 0 .. Traffic /\ gone \in BOOLEAN
    /\ retry \in 0 .. Attempts
    /\ pc \in [Threads -> Labels]

(* A recv that sleeps on an open socket misses nothing: no report is in    *)
(* the buffer of the UART, no data of its own in the driver, and the peer  *)
(* has not closed, whoever has read the buffer since it polled.            *)
NothingMissed == waiter = Reader /\ open => rx = <<>> /\ packets = 0 /\ ~gone

(* A recv that sleeps on a socket taken away by close will be woken: by    *)
(* the event() of that close, or by a send that finds the socket gone.     *)
(* Only where close had to wait for the lock, held by a caller that it     *)
(* does not count, can recv have fallen asleep after the flags were eaten. *)
Raising == pc[Closer] \in {"talk", "talking", "expecting", "listen", "event"}

SleepersWoken ==
    waiter = Reader /\ ~open /\ ~meddled => Raising \/ pc[Other] \in {"check", "leave"}

(* recv returns what has come for it, and returns once the peer or a close *)
(* has ended the connection.                                               *)
Receiving == pc[Reader] # "user"

RecvReturns == Receiving /\ (packets > 0 \/ gone \/ ~open) ~> ~Receiving \/ meddled

(* close returns. *)
CloseReturns == pc[Closer] = "call" ~> pc[Closer] = "closed" \/ meddled

=============================================================================

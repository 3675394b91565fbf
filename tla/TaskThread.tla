----------------------------- MODULE TaskThread -----------------------------
(***************************************************************************)
(* TaskThread::Main of HoikuCamApp/src/TaskBase.cpp, the loop in which     *)
(* NetTask, SensorTask, MediaTask, LeptonTask and ZXingTask all live, with *)
(* the thread flags of mbed-os/src/RTOS.cpp it waits on.                   *)
(*                                                                         *)
(* Signals come from other threads and from interrupts, between any two    *)
(* steps of the loop.  The subtasks are arbitrary: ProcessEvent and        *)
(* Process may set a subtask's timer to anything the program uses, and     *)
(* they return.  Time advances in ticks, also while the loop is busy.      *)
(*                                                                         *)
(* The kernel runs the ready thread of the highest priority and cuts no    *)
(* thread's time: another thread of its priority runs when this one waits  *)
(* or yields.  There always is one: NetTask's timer is 0 most of the time, *)
(* so its loop polls, yields and never waits.  The rival below is such a   *)
(* loop, of this thread's priority or above it.                            *)
(*                                                                         *)
(* The break after the wait is left out: the wait is for any bit, so       *)
(* twai_flg can fail but for a time-out only if another thread waits on    *)
(* the same flag (E_ILUSE) or deletes it, and each thread has its own.     *)
(***************************************************************************)
EXTENDS Integers

CONSTANTS
    TaskCount,      \* Tasks::_taskCount, the subtasks of the thread
    Signals,        \* the bits of InterTaskSignals it receives
    RivalAbove,     \* the polling thread has a higher priority than this one
    MaxTimer,       \* bound: the longest finite timer, in ticks
    MaxBusy         \* bound: ticks that pass while the loop is busy

ASSUME CountAssumption == TaskCount \in Nat \ {0}
ASSUME RivalAssumption == RivalAbove \in BOOLEAN
ASSUME BoundsAssumption == MaxTimer \in Nat \ {0} /\ MaxBusy \in Nat

Tasks   == 1 .. TaskCount           \* Tasks::_tasks
Forever == -1                       \* osWaitForever, as an int
Timers  == {Forever} \cup 0 .. MaxTimer

VARIABLES
    flags,          \* flgptn of the thread's event flag
    evt,            \* evt.value.signals; {} when the wait timed out
    timer,          \* Task::_timer of each subtask
    elapsed,        \* now - prev
    limit, scan,    \* GetTimer's result so far, and the subtask it comes to
    since,          \* elapsed when the wait began
    pc,             \* where Main is
    running,        \* "self", or "rival": who has the processor
    owed            \* signals raised and not yet seen by ProcessEvent, less
                    \* those raised while ProcessEvent was handling the same bit

vars == <<flags, evt, timer, elapsed, limit, scan, since, pc, running, owed>>

-----------------------------------------------------------------------------
ShorterOfAny(t, t2) ==              \* bug: forever is the shortest
    IF t = Forever \/ t > t2 THEN t2 ELSE t

(* The comparison in the loop of Tasks::GetTimer. *)
Shorter(t, t2) ==
    IF t = Forever \/ (t2 # Forever /\ t > t2) THEN t2 ELSE t

(* Task::Progress.  A Forever timer is an int like any other. *)
Progress(d, e) == IF d - e < 0 THEN 0 ELSE d - e

-----------------------------------------------------------------------------
(* Somebody calls Signal; set_flg ORs the bit in, and releases the thread  *)
(* with the whole pattern if it waits.                                     *)
Signal(s) ==
    /\ flags' = flags \cup {s}
    /\ owed' = IF pc = "event" /\ s \in evt THEN owed ELSE owed \cup {s}
    /\ IF pc = "waiting" THEN evt' = flags' /\ pc' = "clear"
                         ELSE UNCHANGED <<evt, pc>>
    /\ UNCHANGED <<timer, elapsed, limit, scan, since, running>>

(* The kernel's clock does not pass the moment a wait is over. *)
Tick ==
    /\ elapsed < IF pc = "waiting" THEN MaxBusy + MaxTimer ELSE MaxBusy
    /\ pc = "waiting" /\ limit # Forever => elapsed < since + limit
    /\ elapsed' = elapsed + 1
    /\ UNCHANGED <<flags, evt, timer, limit, scan, since, pc, running, owed>>

(* prev = now, and GetTimer begins. *)
Begin ==
    /\ pc = "top"
    /\ limit' = Forever /\ scan' = 1
    /\ pc' = "scan"
    /\ UNCHANGED <<flags, evt, timer, elapsed, since, running, owed>>

(* One turn of its loop. *)
Look ==
    /\ pc = "scan" /\ scan \in Tasks
    /\ limit' = Shorter(limit, timer[scan])
    /\ scan' = scan + 1
    /\ UNCHANGED <<flags, evt, timer, elapsed, since, pc, running, owed>>

(* signal_wait finds a bit set, and takes the whole pattern. *)
Take ==
    /\ pc = "scan" /\ scan = TaskCount + 1
    /\ flags # {}
    /\ evt' = flags
    /\ pc' = "clear"
    /\ UNCHANGED <<flags, timer, elapsed, limit, scan, since, running, owed>>

(* It finds none and the timeout is 0: the kernel does not wait. *)
Poll ==
    /\ pc = "scan" /\ scan = TaskCount + 1
    /\ flags = {} /\ limit = 0
    /\ evt' = {}
    /\ pc' = "woken"
    /\ UNCHANGED <<flags, timer, elapsed, limit, scan, since, running, owed>>

(* It finds none and waits; the processor goes to the other thread. *)
Wait ==
    /\ pc = "scan" /\ scan = TaskCount + 1
    /\ flags = {} /\ limit # 0
    /\ since' = elapsed
    /\ pc' = "waiting"
    /\ running' = "rival"
    /\ UNCHANGED <<flags, evt, timer, elapsed, limit, scan, owed>>

(* The wait is over: the kernel puts the thread among the ready ones. *)
TimedOut ==
    /\ pc = "waiting" /\ limit # Forever /\ elapsed >= since + limit
    /\ evt' = {}
    /\ pc' = "woken"
    /\ UNCHANGED <<flags, timer, elapsed, limit, scan, since, running, owed>>

(* The clr_flg of osThreadFlagsWait, a second kernel call. *)
ClearTaken ==
    /\ pc = "clear"
    /\ flags' = flags \ evt
    /\ pc' = "woken"
    /\ UNCHANGED <<evt, timer, elapsed, limit, scan, since, running, owed>>

(* After a wait of 0 the loop yields to the threads of its priority. *)
Yield ==
    /\ pc = "woken"
    /\ running' = IF limit = 0 THEN "rival" ELSE running
    /\ pc' = "awake"
    /\ UNCHANGED <<flags, evt, timer, elapsed, limit, scan, since, owed>>

RivalKeeps ==                       \* bug: a polling loop does not yield
    /\ running = "rival"
    /\ running' = "rival"
    /\ UNCHANGED <<flags, evt, timer, elapsed, limit, scan, since, pc, owed>>

(* The other thread's loop comes to its own yield. *)
RivalYields ==
    /\ running = "rival"
    /\ running' = IF pc = "waiting" \/ RivalAbove THEN "rival" ELSE "self"
    /\ UNCHANGED <<flags, evt, timer, elapsed, limit, scan, since, pc, owed>>

(* The clock is read and every subtask's timer advanced. *)
Advance ==
    /\ pc = "awake"
    /\ timer' = [k \in Tasks |-> Progress(timer[k], elapsed)]
    /\ elapsed' = 0
    /\ pc' = IF evt = {} THEN "process" ELSE "event"
    /\ owed' = owed \ evt
    /\ UNCHANGED <<flags, evt, limit, scan, since, running>>

(* One subtask inside ProcessEvent or Process sets its timer. *)
SetTimer(k, d) ==
    /\ pc \in {"event", "process"}
    /\ timer' = [timer EXCEPT ![k] = d]
    /\ UNCHANGED <<flags, evt, elapsed, limit, scan, since, pc, running, owed>>

SignalClrAll ==                     \* bug: clears every bit
    /\ pc = "event"
    /\ flags' = {}
    /\ pc' = "process"
    /\ UNCHANGED <<evt, timer, elapsed, limit, scan, since, running, owed>>

(* After ProcessEvent: _thread.signal_clr(evt.value.signals). *)
SignalClr ==
    /\ pc = "event"
    /\ flags' = flags \ evt
    /\ pc' = "process"
    /\ UNCHANGED <<evt, timer, elapsed, limit, scan, since, running, owed>>

Processed ==
    /\ pc = "process"
    /\ pc' = "top"
    /\ UNCHANGED <<flags, evt, timer, elapsed, limit, scan, since, running, owed>>

-----------------------------------------------------------------------------
Init ==
    /\ flags = {} /\ evt = {} /\ owed = {}
    /\ timer \in [Tasks -> Timers]
    /\ elapsed = 0 /\ limit = 0 /\ scan = 1 /\ since = 0
    /\ pc = "top"
    /\ running = "self"

(* What the thread does itself, when it has the processor. *)
Loop ==
    /\ running = "self"
    /\ \/ Begin \/ Look \/ Take \/ Poll \/ Wait \/ ClearTaken
       \/ Yield \/ Advance \/ SignalClr \/ Processed

Subtask ==
    /\ running = "self"
    /\ \E k \in Tasks, d \in Timers : SetTimer(k, d)

Next ==
    \/ Loop \/ Subtask \/ RivalYields
    \/ Tick \/ TimedOut
    \/ \E s \in Signals : Signal(s)

Spec == Init /\ [][Next]_vars

(* Whoever has the processor goes on, to its next wait or yield. *)
FairSpec == Spec /\ WF_vars(Loop) /\ WF_vars(RivalYields)

-----------------------------------------------------------------------------
TypeOK ==
    /\ flags \subseteq Signals /\ evt \subseteq Signals /\ owed \subseteq Signals
    /\ timer \in [Tasks -> Timers]
    /\ elapsed \in 0 .. MaxBusy + MaxTimer
    /\ limit \in Timers
    /\ scan \in 1 .. TaskCount + 1
    /\ since \in 0 .. MaxBusy
    /\ pc \in {"top", "scan", "waiting", "clear", "woken", "awake", "event", "process"}
    /\ running \in {"self", "rival"}

(* A signal can be lost only by being raised while ProcessEvent is         *)
(* handling the same bit: signal_clr erases it.  Any other signal is still *)
(* pending, or about to be handed to ProcessEvent.                         *)
NoOtherSignalLost ==
    owed \subseteq flags \cup
        (IF pc \in {"clear", "woken", "awake"} THEN evt ELSE {})

(* Of all the subtasks that have a timer, none is slept over: however the  *)
(* loop of GetTimer comes to the timeout, the thread has waited no longer  *)
(* than the timer of any of them.                                          *)
NoOversleep ==
    pc = "waiting" => \A k \in Tasks :
        timer[k] # Forever => elapsed - since <= timer[k]

(* Every signal raised outside its own handling reaches ProcessEvent, as   *)
(* long as the threads that poll are not above this one.                   *)
EverySignalSeen == \A s \in Signals : (s \in owed) ~> (s \notin owed)

=============================================================================

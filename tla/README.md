# PeachCam: models, checks and proofs

PeachCam is the firmware of a nursery camera on a GR-PEACH board (Renesas RZ/A1H,
one Cortex-A9 core). The application, `src/HoikuCamApp`, is a handful of threads
on the mbed OS API; `src/mbed-os/src/RTOS.cpp` implements that API (CMSIS-RTOS2)
on the TOPPERS/ASP3 kernel, `src/asp3_dcre`. This directory holds TLA+ modules of
the parts whose correctness depends on the order in which threads and interrupts
run, TLC configurations that check small instances, and TLAPS proofs.

- [Inventory](#inventory) — the system and its parts
- [Modules](#modules) — how each module corresponds to the code
- [Runs](#runs) — what TLC checks, the bounds, the fairness
- [Findings](#findings) — where the code and a statement about it disagree
- [Proofs](#proofs) — what holds for every size
- [Not modelled](#not-modelled) and [Plan](#plan)

## Inventory

### Threads of the application

Every thread is a `TaskThread` (`TaskBase.cpp`): it waits for its thread flags with
the shortest timer of its subtasks as the timeout, advances all the timers by the
time that went by, calls `ProcessEvent` of all subtasks if a flag came, clears the
flags it handled, and calls `Process` of all subtasks.

| Thread | Priority | Subtasks | State | Talks to |
|---|---|---|---|---|
| NetTask | normal | WifiTask, NtpTask, UploadTask, GoogleDriveTask | a state and a timer each, retry counters, the server's address, `_update_req` | ESP32 driver (commands, status callback), an HTTP server |
| SensorTask | normal | TriggerButtonTask, GripButtonTask, PowerOffTask, HeartRateTask | debounce counters, `_state`, `_count` | GlobalState: TriggerOn, PowerOn, PowerOff; reads MediaTask's state |
| MediaTask | normal | VisualTask, AudioTask | `_state` of both, the recording `wav_fp`, the list `mails`, the output ring | audio driver and its interrupts, the display, FatFs; `UpdateRequest` to NetTask |
| LeptonTask | normal | LeptonTask | the frame being read, the resync counter | SPI, the display |
| ZXingTask | below normal | ZXingTask | the last QR code | the camera's frame buffer |

`GlobalState` has pointers to the threads and forwards: `PowerOn`, `PowerOff` and
`TriggerOn` signal MediaTask (the power calls also the others), `UpdateRequest`
signals NetTask, `IsActive` reads the state of SensorTask and MediaTask.

### Below the application

| Part | State | Operations | Hard because |
|---|---|---|---|
| `RTOS.cpp`: mutex | kernel id, `tskid`, `count` | acquire, release | `tskid` and `count` are written outside the kernel call that decides |
| `RTOS.cpp`: thread flags | one event flag per thread | set, clear, wait | waiting and clearing are two kernel calls; clearing by pattern |
| `RTOS.cpp`: object lists | circular list, `_last`, `_count` | add, remove, contains | searched without a lock |
| `RTOS.cpp`: message queue | a block pool and a data queue | put, get, delete | several kernel calls in one operation, each may wait, fail or be overtaken |
| `RTOS.cpp`: event flags | an event flag of the kernel | set, wait | waiting and clearing are two kernel calls |
| `RTOS.cpp`: memory pool, semaphore, timer | kernel objects | one kernel call each | |
| ASP3 kernel: mutex, event flag, tasks, time events | owner, FIFO of waiters, list of a task's mutexes, flag pattern, ready queue | lock, unlock, set, wait, time out, rotate | hand-over at unlock; one waiter per event flag |
| `R_BSP_Aio` | a ring of requests, a counting semaphore | transfer, completion | completion is an interrupt |
| ESP32 driver: `ESP32`, `ESP32Stack`, `ATCmdParser` | connection status, table of ids, closed marks, packet list | open, connect, send, receive, close | replies and reports share one stream, any thread may parse them; ids are reused |
| `TCPSocket`, `InternetSocket`, `UARTSerial` | `_socket`, counts of the calls inside, an event flag, a lock | receive, send, close, the receive interrupt | waiting races the interrupt, other readers of the UART and a close |
| `HttpRequest` (mbed-http) | a socket | send | gives its socket back on some paths only |
| `SocketStack`, `SocketInterface` | descriptors | socket calls, select | |
| TINET, curl, wolfSSL, expat, zlib, musl, libc++, OpenCV, ZXing, ntshell, FLIR SDK | | | third-party or host-side |

### What is hard, and what has to be right

- *Recursive mutex.* Nobody else is inside while a thread has an acquisition it
  has not released, whatever runs between the kernel call and the bookkeeping.
- *Message queue.* Messages come out in the order they went in, whole; no block of
  the pool is lost or given out twice on any path; nobody waits for what is there.
- *Object lists.* A call on an object that exists finds it.
- *Task loop.* A flag set from another thread or an interrupt reaches
  `ProcessEvent`; the loop does not sleep through the timer of any subtask.
- *Audio.* A buffer is not rewritten while it is queued, is played in order, and a
  recorded buffer gets back to the driver.
- *Power.* A recording that began with the camera on is not cut, two threads agree on
  whether the camera is on, and it goes off when nobody uses it.
- *Network.* The subtasks follow the link, the clock is kept, and what was
  recorded is fetched.
- *Driver sockets.* An id belongs to one socket and is given back clean; data reach
  the socket they were sent to, once, in order and up to the end of the connection.
- *Receive and close.* A thread asleep in `recv` has missed nothing; `close` gets it out
  and returns.

`PROJECT.json` lists the hazards, each with the source line where it bites and the
properties that watch it.

## Modules

| Module | Models | Checked in |
|---|---|---|
| `RecursiveMutex` | what `osMutexRecursive` promises: only the nesting depths | refinement in `same_priority` |
| `RtosMutex` | `osMutexAcquire`/`osMutexRelease` over `tloc_mtx`/`unl_mtx` | `same_priority`, `mixed_nested` |
| `MCRtosMutex` | priorities for the runs | |
| `MessageFifo` | what a message queue promises: a bounded FIFO that can be deleted | refinement in `message_queue` |
| `MessageQueue` | `osMessageQueuePut`, `Get`, `Delete` over `tget_mpf`, `tsnd_dtq`, `trcv_dtq`, `rel_mpf` | `message_queue` |
| `ObjectList` | `rtos_queue_add`, `remove`, `contains` | `object_list`, `found_while_listed` |
| `TaskThread` | `TaskThread::Main`, `Signal`, thread flags | `task_loop` |
| `AudioStream` | AudioTask's buffers, the interrupts and `R_BSP_Aio` | `audio_stream` |
| `CameraPower` | PowerOffTask, the buttons, VisualTask, AudioTask's state | `camera_power` |
| `NetTask` | WifiTask, NtpTask, UploadTask, the driver's status, HttpRequest's sockets | `net_task`, `sockets_run_out` |
| `Esp32Sockets` | `ESP32Stack` and `ESP32`: the sockets of the radio | `esp32_sockets` |
| `MCEsp32Sockets` | symmetry for the run | |
| `TcpSocket` | `TCPSocket::recv` and `close`, the event flag, the receive interrupt | `tcp_socket` |
| `Threads_proofs` | the proofs about `TaskThread` and `ObjectList` | |
| the other `*_proofs` | the proofs about the module of that name | |

Each action is one stretch of code that nothing the model contains can split. An
operator that ends in a comment `bug:` is a plausible mistake, kept to check that
the properties notice it (`mutants` in `PROJECT.json`); nothing uses it.

### RtosMutex

The machine has one core: `rdq` is the ready queue in order of precedence and only
its head takes steps. `loctsk`, `waitq` and `lastmtx` are the kernel's, `tskid` and
`count` the wrapper's. A call is cut where the kernel can dispatch:

| Code | Actions |
|---|---|
| `tloc_mtx` in `osMutexAcquire` | `Acquire` = `LockFree`, `LockOwn` (E_OBJ), `LockPoll`, `LockWait` |
| `result->count++` after E_OBJ | `NestReturns` |
| `result->tskid = tskid` | `AcquireReturns` |
| between `loc_cpu` and `unl_cpu` in `osMutexRelease` | `Release` |
| `unl_mtx` | `Unlock` (with `HandOver`), `UnlockRefused` |
| `result->tskid = 0` | `ReleaseReturns` |
| `wait_tmout` | `Timeout` |
| the rest of a thread's life | `Sleep`, `Wake`, `Yield` |

`depth` is a history variable: acquisitions for which osOK was returned, less the
releases. Releasing without holding is allowed, and nested release in any order.
A mutex is never deleted and no owner terminates.

### MessageQueue

A queue is two kernel objects, the memory pool (`poolOpen`, `free`, `poolWait`) and the
data queue of pointers to blocks (`dtqOpen`, `data`, `sendWait`, `recvWait`). `mem` is
the message in a block, `hold` the block a thread works on. Kernel calls are atomic,
and threads are cut between two of them in any order, whatever their priorities:

| Code | Actions |
|---|---|
| `tget_mpf` in a put | `PutGetsBlock`, `PutWaits` |
| the copy into the block | `Fill` |
| `tsnd_dtq` | `SendHands` (a get waits), `SendQueues`, `SendRefused` |
| `trcv_dtq` in a get | `GetTakes`, `GetWaits` |
| the copy out of the block | `Copy` |
| `rel_mpf` in a get and in a put that failed | `HandBlock` (a put waits), `FreeBlock` |
| `wait_tmout` | `Timeout` |
| `del_dtq`, then `del_mpf` | `Delete`, `DeletePool` |

A call with timeout 0 that finds nothing changes no state and is no step; a finite
timeout may end a wait at any time. `receive_data` has a branch for a sender that waits
although the data queue is empty: it is for queues of capacity 0, which
`osMessageQueueNew` refuses. `Slots` and `Block` have the same number, `msg_count`.
A message has a body and the priority its put was called with (`Message`). `Fill` stores
both in the block and `Copy` hands both out; in between nothing looks at the priority, since
the data queue is made with TA_NULL. `MessageFifo` therefore promises the order of arrival for
messages of any priorities, which is not the order `Queue.h` documents (see Findings).
The queue is deleted once; its handle stays in the list, so later calls get as far as
the kernel, where they are refused and change nothing.

### ObjectList

A ring: `last` is `_last`, whose `next` is the first item. `Add` and `Remove` hold the
CPU lock and are one step. The search is `Enter`, `First`, and for each turn `Test`
(which reads `_count` again) and `Step`. `Reuse` is the memory of a removed item being
cleared or freed; reading the link of such an item is the state `fault`. A thread
searches for items that exist, and nobody removes the item somebody searches for: using
an object while deleting it is the caller's mistake. `listed` and `clean` are history.
`RingIntact` says that there is an order of the live items in which `next` links them, round
from `_last`.

### TaskThread

`flags` is the event flag, `evt` what the wait returned. Timers count ticks, and `elapsed` is
the clock since `prev`. What the subtasks do is left open: `SetTimer` may set any timer to
anything at any time in `ProcessEvent` and `Process`.

| Code | Actions |
|---|---|
| `prev = now`, the start of `GetTimer` | `Begin` |
| one turn of the loop in `Tasks::GetTimer` | `Look`, with the comparison in `Shorter` |
| `twai_flg` in `osThreadFlagsWait` | `Take`, `Poll` (timeout 0), `Wait`; `Signal` or `TimedOut` ends it |
| its `clr_flg` | `ClearTaken` |
| `Thread::yield` after a wait of 0 | `Yield` |
| the clock and `Progress` | `Advance` |
| `ProcessEvent`, `Process` | `SetTimer`; `SignalClr` and `Processed` at their ends |

`SignalClr` clears the same bits a second time, after `ProcessEvent`. `owed` is a history
variable: signals raised and not seen, except those raised while the same bit was being
handled, which the code loses by construction. `NoOversleep` does not speak of the timeout
`GetTimer` computed but of each subtask's own timer.

The kernel has static priorities and cuts no thread's time, and NetTask's timer is 0 most of the
time, so that its loop never waits: it polls and yields. The module has such a loop beside
the one it describes: `running` says who has the processor, and `RivalAbove` whether the other
loop has a higher priority. If it has, its yield does not let this thread run, and
`EverySignalSeen` is false: see Findings. The break after an error of the wait
(`TaskBase.cpp:151`) is left out, because the wait is for any bit of a flag no other thread waits
for or deletes.

In `AudioStream`, `CameraPower` and `NetTask`, which contain this loop, the wait and
its clearing are one step `Wake`. This loses nothing: whatever is erased between the
two calls is of the same pattern `SignalClr` erases before `Process` runs.

### AudioStream

Input buffers go round: with the driver (`inq`), filled and listed (`mails`), in the
thread's hand (`hand`). Output slots are written at `widx`, queued in the driver
(`outq`), and counted by `ridx` when played. `inTok` and `outTok` are the semaphores
of `R_BSP_Aio`, which never refuses a transfer once a token was taken. The completion
interrupts `ReadEnd` and `WriteEnd` run between any two steps of the thread. The fill
loop is split at every access an interrupt can see: `Fill` (fread), `TakeToken`,
`Submit`, `Advance`; `stop` is the copy of `_out_ridx` it compares with.

Because `CriticalSectionLock mutex();` locks nothing, a push that meets a pop can be
undone by it: `ReadEnd` has that outcome as a choice while `pc = "popping"`.
The buffer is then with nobody; `Recycled` speaks of buffers in the list.

Two behaviours of the code are in the model and no property forbids them:
if every completion of a ring falls into one `ProcessEvent`, all the `StartShutter`
signals are erased and the rest of the sound is not played; and `EndShutter` is raised
only by a completion that finds the indices equal, so the volume usually stays up.

### CameraPower

The clock is PowerOffTask's poll. `IsActive` reads SensorTask and AudioTask (`Poll`)
and then VisualTask (`Look`); the decision is sent in `Announce`. MediaTask takes its
flags in `Wake` and applies them to the picture (`VisualEvent`, `Shoot`) and the
sound: PowerOn (`AudioOn`), then the files of a trigger and PowerOff (`AudioEvent`). Later it
ends a recording whose timer is 0 (`Process`). `left` is that timer in polls. `lag` bounds by
`MaxLag` how many polls pass while a decision is pending. `prompt` is a history variable:
whether every decision so far was applied before the next poll.

`began` is another: how the camera was when the recording began. *on*: PowerOffTask took it for on
and no decision was on its way. *crossing*: the same, but a poll had read AudioTask and not yet
VisualTask, so it could miss both the recording and the picture of the same trigger;
if it then keeps the camera on the recording counts as *on*. *off*: all the rest, also a trigger
that was pending while PowerOff was decided or announced. `RecordingEnds` says how a
recording can end: of itself, or, unless it is one of *on*, by a PowerOn that MediaTask takes, which
leaves its file open (`MediaTask.cpp:253`). TLC has behaviours in which that happens to one
of each other kind.

Debouncing is abstracted to "a button changes at some sample". Opening the wav file
may fail. HeartRateTask and its vibrator are left out.

### NetTask

One variable per state and timer; a timer is due, running or forever, and a running
one may become due at any wake-up. `LinkChanges` is the driver reporting what the
radio said. `ESP32Interface::connect` is two steps, so a report can come after the
status `Connecting` and before the reply. `UpdateStarts` and its result are separate
for the same reason: requests can come while one is running. `owed` is a history
variable: a recording was closed and no update that began later has succeeded.

An update is an `HttpRequest`, and `taken` counts the sockets of the driver that requests
hold. `NetTask::Update` makes the request with `new` and never deletes it, so a socket
comes back only where `HttpRequest::send` closes it, after a complete response:

| What becomes of the request | Action | Socket |
|---|---|---|
| no id is free | `NoSocket` | none taken |
| response 200 | `UpdateAnswers` | closed |
| another complete response | `UpdateRefused` | closed |
| connecting, sending or receiving fails | `UpdateFails` | kept for ever |

NTP and the search for the server are AT commands and take no socket.

### Esp32Sockets

A call of the driver holds `_smutex` from its first command to its last reply, and the
model keeps in `sock[h].at` where it is. `rx` is the stream from the radio, one element a
line. `ReadLine` is the parser passing a report to its handler or dropping a reply nobody
waits for; `Answered` the reply that the call waits for; `GivesUp` the time-out, when the
stream is empty.

| Code | Actions |
|---|---|
| `get_free_id`: the test of `_ids[i]` | `FindId` |
| `_ids[i] = true`, the rest of `ESP32Stack::socket_open` | `SocketOpen` |
| `ESP32::open` | `Connect`, then `ConnectDone` or `ConnectFails` |
| `ESP32::send`, chunks of 2048 bytes with two tries each | `Send`, `Prompted`, `SendDone`, `SendFails`; `TrySend` |
| `ESP32::recv`, one turn of its loop | `Recv`, `ReadLine`, `TakePacket`, `TakePart`, then `RecvSome` or `RecvNone` |
| `ESP32::close`, two tries | `CloseGone`, `CloseTry`, `CloseDone`, `CloseFails`, `CloseGivesUp` |
| `socket_handler`, `_packet_handler` | `Handle`, in `ReadLine`; its error paths `ReadBadly` |
| the radio and the peers (not in the repository) | `Radio*`, `Peer*` |

The radio is as the driver takes it to be: it works on one command at a time, answers
`busy` meanwhile, makes a connection before its OK and reports every end. A command it
refuses gets ERROR, for which no call waits: the call times out. A connection is known by
the number of the command that was to make it, so a property can tell the data of one
connection from those of the next one with the same id.

`get_free_id` takes no lock, and the lock its callers hold is the one of the socket. Two threads
that open sockets at once can both find an id free before either has set it. `OneOpener` says that
one thread opens all the sockets, as in this application, where only NetTask does; it holds
in `esp32_sockets` and is the hypothesis of the theorems. Without it `OneSocketPerId`
fails (see Findings).

The time-out of 500 ms can be over while the radio still works, and `_packet_handler` can run
out of time or of memory: the data are lost, or, as a read that fails returns -1 and is tested
for 0 only, a packet of bytes that nobody sent is kept. `late` counts both.
With `late > 0` `OwnConnection`, `GivenBackClean`, `Whole`, `EndIsEnd` and `SentOnce` are
all violated: `open` has returned false and the connection comes up after all, and its OK is
taken by the next command. They are therefore stated for `late = 0`;
`OneSocketPerId` holds all the same. For `late = 0` all five are proved for every number of
sockets, ids, commands and bytes (see Proofs).

`SentOnce` counts chunks: those given to `send` (`said`), those the peer has got (`heard`) and
those confirmed (`acked`). After a call the peer has got the confirmed ones and no other, even if the
call failed in the middle or tried a chunk twice.

`Whole` is stated byte by byte: the bytes received are the first ones of the connection
(`got`), each packet of the list begins where the one before ends, and every byte
after those (from `Kept` on) that the peer has sent is in exactly one line of data, the lines
being in order.

`accept` and listening, UDP sockets that change their peer, `new` failing in `socket_open` and the
flow of the bytes within a line are left out. So a header without its data is lost whole, while in
the code its bytes stay in the stream and are parsed as lines.

### TcpSocket

Three threads on one processor: `Reader` in `recv`, `Closer` in `close`, and `Other`, which
sends on the same socket, sets an option of it, or uses another socket of the radio. The
kernel is that of `RtosMutex`: `rdq` in order of precedence, hand-over of a mutex to the
first waiter. Priorities are chosen in `Init`.

| Code | Actions |
|---|---|
| `_lock.lock()` | `Enters`, `Relocks`; `Acquire` |
| `_readers++`, `if (!_socket)` | `Checks` |
| `ESP32::recv` | `Asks` (`Notified = 0`), `Polls` (`_smutex`), `Drains` (`process_oob`), `Looks` = `Found`, `NotYet`, `Nothing` |
| `_lock.unlock()`, `wait_any` | `Unblocks`, `Waits` (`twai_flg`), `Wakens` (`clr_flg`), `TimesOut` |
| `_readers--`, `set(FINISHED_FLAG)`, `unlock` | `Leaves`, `Unlocks` |
| `InternetSocket::close` | `Detaches`, `Talks` ... `Answered` or `Unanswered`, which is tried once more (`ESP32::close`), `Raises` (`event`), `Lingers` |
| commands of other sockets, `ESP32::send` | `Talks`, `Naps`, `Listens`, `Answered` |
| `UARTSerial::rx_irq`, `ESP32::event` | `Arrives` |

The event flag admits one waiter (`flgatr` is 0), so a second one gets E_ILUSE, which
`recv` takes for a time-out and `close` for nothing. `meddled` is a history variable: close
had to wait for `_lock` while a caller it does not count held it. `SleepersWoken`,
`RecvReturns` and `CloseReturns` hold without it only; without that condition TLC finds a
livelock, described under Findings. `ESP32_RECV_TIMEOUT` is 1 for 2000: one poll that is
not the last and one that is. Whether a `recv` has a time-out is left open: a wait may time out
(`TimesOut`), and one with time-out 0 returns instead of waiting (`Nothing`).

## Runs

| Run | Instance | Shows |
|---|---|---|
| `same_priority` | 3 threads, 2 mutexes, nesting 2, one priority | implements the recursive mutex; `HoldsLock`, `CountIsNesting`; out-of-order releases are refused and harmless |
| `mixed_nested` | 2 threads of two priorities, 1 mutex, nesting 2 | *violated*, see Findings |
| `message_queue` | 2 threads, 2 blocks, 1 body with 2 priorities | `BlocksConserved`, `NeverWaitsToSend`, `NoIdleWaiter`, `DeleteReleases`; implements the bounded FIFO |
| `object_list` | 4 items, 1 searching thread | `ListTypeOK`, `RingIntact`, `FoundUndisturbed` |
| `found_while_listed` | the same | *violated*, see Findings |
| `task_loop` | 3 subtasks, 2 signals, timers to 2, busy time 1, a polling thread of the same priority | `NoOtherSignalLost`, `NoOversleep`, `EverySignalSeen` |
| `audio_stream` | ring of 3, 2 input buffers, 3 blocks of sound | `SlotFree`, `PlaysInOrder`, `ReadHasToken`, `NotStranded`, `Recycled` |
| `camera_power` | off after 2 idle polls, recording of 3 polls, decisions up to 2 polls late | `RecordingEnds`, `SettlesOff`; `InAgreement` as long as none was late |
| `net_task` | 2 attempts before a pause, 1 socket | `AddrKnown`, `Remembered`, `LearnsUp`, `LearnsDown`, `KeepsSyncing`, `Served` |
| `sockets_run_out` | 3 attempts, 5 sockets | *violated*, see Findings |
| `esp32_sockets` | 2 sockets, 2 ids, 2 connects, 2 bytes or chunks, 1 late reply, one thread opens | `OneSocketPerId`, `OwnConnection`, `GivenBackClean`, `Whole`, `EndIsEnd`, `SentOnce` |
| `tcp_socket` | 3 threads, 2 priorities, 2 polls, 2 reports | `NothingMissed`, `SleepersWoken`, `RecvReturns`, `CloseReturns` |

### Bounds

- `MaxDepth` 2 is the least nesting in which the inner and the outer release differ;
  3 threads let one own, one wait and one arrive; two mutexes can be released in the
  wrong order.
- Two threads and two blocks fill the queue and make a put wait for the block the other
  thread returns; two messages that differ in their priority tell an order, by arrival or by
  priority. Several threads in one line come with the
  theorems, which cover every number.
- With four items the list has a first, a last and two between them, one before and one
  behind the search; a second searching thread would not change anything for the first,
  as searching writes nothing that is shared.
- `TaskCount` 3: the loop of `GetTimer` comes to a shorter, a longer and an endless timer in
  every order. `MaxTimer`, `MaxBusy`: two different finite timers, 0 and Forever, and time that
  passes while the loop is busy, are all the loop compares.
- `OutBufs` 3 for 8: the fill loop stops, wraps and laps the ring in both; `SlotFree`
  and `NotStranded` are proved for every size. `FileBlocks` 3 fills the ring once with
  one block left over. Two input buffers of 16 meet in the list.
- `IdlePolls`, `RecPolls`, `MaxLag`: a recording is longer than the idle time and than the
  lag, so power decisions fall into it.
  `SettlesOff` needs `MaxLag <= IdlePolls`: a decision so late that the opposite one is
  taken meanwhile joins it in one word, and the code applies On before Off. With the
  100 ms poll and 30 idle polls the bound says that MediaTask takes a turn within
  three seconds. `InAgreement` needs every decision to be applied before the next poll
  (`prompt`) for the same reason: a PowerOff followed by a PowerOn before MediaTask wakes
  leaves the picture off and the sensor side on.
- `Retries` 2 for 3: a first failure and a last one. `Sockets` 1 for 5: one failure and there
  is none left, so `net_task` has the states in which requests fail for want of a socket.
  `sockets_run_out` has both numbers as in the code.
- `esp32_sockets`: two sockets on two ids can exchange them; the second connection may be
  made on the id of the first, by the same call after a close or by the other socket. Two
  bytes come as one packet or two, and a buffer of one byte splits the packet of two. A send
  has one chunk or two.
  The sockets are symmetric: no action and no property tells one from another.
- `tcp_socket`: two priorities order three threads in every way that matters to pairs of
  them. Two reports are what it takes for one to be read by another thread while the
  next one is on its way.

### Fairness

- *MessageQueue*: weak fairness of every thread's steps between two waits (the
  scheduler runs a ready thread) and of the second half of a deletion. No call and no
  timeout is owed: a wait may be for ever. `message_queue` does not check
  deadlock: after a deletion with every thread idle the
  queue really is at rest.
- *TaskThread*: weak fairness of the loop while it has the processor and of the other
  thread's coming to its next yield: whoever has the processor goes on to its next wait or
  yield. Nothing is assumed of the scheduler beyond what the kernel does, so
  `EverySignalSeen` is claimed for a thread that no polling thread is above, namely all but
  ZXingTask. The clock owes nothing.
- *AudioStream*: weak fairness of MediaTask's steps and of a wake-up with a flag
  pending, and of the driver's playing. No trigger and no timeout is owed; neither is
  a microphone buffer.
- *CameraPower*: weak fairness of both threads' steps, and a wake-up for a flag or for
  the end of a recording. Strong fairness of `Poll`: time passes, even if MediaTask
  is woken again and again by signals.
- *TcpSocket*: weak fairness of the running thread and of the timer that ends a sleep. An
  urgent thread that calls again and again could starve the others; that calls pause
  (`<>[][no Calls]_vars`) is an assumption on the application. No report and no time-out of
  a `recv` is owed. *Esp32Sockets* has safety properties only.
- *NetTask*: weak fairness of the thread, which never sleeps: GoogleDriveTask's timer
  becomes 0 at the first turn and `Idle` leaves it there, so every wait is a poll. Strong
  fairness of a running timer coming due, and of the outcomes `Dhcp`, `NtpAnswers`,
  `QueryAnswers` and `UpdateAnswers`: a command tried again and again succeeds at
  last. The liveness properties are about such a network only. In particular a server that
  accepts a connection and never answers is excluded: `HttpRequest` receives with no
  time-out, and NetTask would wait for ever. `Served` also has the condition that a socket is
  left.

`LearnsUp`, `LearnsDown` and `KeepsSyncing` depend on a defect of the timers: `osWaitForever`
is -1 as an int, and `Task::Progress` (`TaskBase.cpp:33`) makes it 0 at the first turn. The
signal of a status change can be erased (`SignalClr`) and only the timer that should
wait for ever and does not makes WifiTask look again. Repairing `Task::Progress`
alone would break them; the mutant `ElapseKept` is that repair.

## Findings

1. **`osMutexRelease` wipes the new owner** (`mixed_nested`, `RTOS.cpp:766`).
   A low-priority thread unlocks a mutex for which a high-priority one waits. The
   waiter owns it and runs at once, stores its id in `tskid`, acquires a second
   time and blocks on something. The low one resumes after `unl_mtx` and sets
   `tskid = 0`. The inner release of the high one then does not see itself as the owner
   and unlocks the kernel mutex, one release early, and another thread enters. With
   equal priorities the waiter does not run before the clear, and the proof below
   covers every such case. Of the application's threads only ZXingTask has another
   priority; the kernel tasks of the drivers may too.
2. **A removal hides another object** (`found_while_listed`, `RTOS.cpp:106`).
   The search for a handle reads `_count` at every turn. If an object it has passed is
   removed, it stops one item early, and a call on the last object of the list returns
   `osErrorParameter`. `Mutex::lock` treats that as fatal (`Mutex.h:88`). An object
   removed at the point of the search is worse: the link that is read next is in memory
   that was freed. It takes a thread of higher priority that deletes an object, or
   round-robin between threads of one priority.

3. **Failed requests use up the sockets** (`sockets_run_out`, `NetTask.cpp:439`).
   `NetTask::Update` leaks its `HttpRequest`, and `HttpRequest::send` closes the socket only
   after a complete response. The server being off for five attempts is enough: every later
   request fails with `NSAPI_ERROR_NO_SOCKET`, whether the server is back or not.
   `Socket.h:38` has the destructor close the socket; it never runs.

More that the models contain and no run is spent on:

- *Priorities of messages are ignored* (`RTOS.cpp:617`). `Queue.h:113` promises that messages are
  "retrieved in a descending priority order or first in first out when the priorities are the
  same". `osMessageQueuePut` stores the priority in the block and sends the block to a data queue of
  TA_NULL, first in first out; `Get` returns the priority without having looked at it. This is what
  `message_queue` and `Refinement` say as well: the order is that of arrival whatever the
  priorities, so a message of priority 1 put behind one of 0 is retrieved behind it. Users who give
  no priority have the documented order.
- *Two threads can open the same id* (`ESP32.cpp:903`). A thread that is preempted in
  `get_free_id` between the test and the setting of `_ids[i]`, and one that opens a
  socket meanwhile, get the same id; the first close gives it back while the other socket uses it.
  It takes two threads of different priorities that open sockets: this application has one such
  thread, NetTask. With `OneOpener = FALSE` TLC refutes `OneSocketPerId`.
- *A timer that waits for ever does not* (`TaskBase.cpp:33`): `osWaitForever`, -1 as an int,
  is floored to 0 by `Task::Progress`, so each subtask has its `Process` called as if due,
  once per turn.
- *A thread below a polling one can starve* (`TaskBase.cpp:155`). After a wait of 0 the loop yields to
  threads of its own priority only, and NetTask's timer is 0 most of the time. ZXingTask, below
  normal, runs only while NetTask waits for the radio or the network. With `RivalAbove = TRUE` TLC
  refutes `EverySignalSeen`.
- *A recording can be cut with its file open* (`MediaTask.cpp:253`): by a PowerOn, when it began while
  the camera was off or PowerOff was decided, announced or about to be decided. A second
  trigger during a recording opens a new `wav_fp` and drops the first one open.
- *The critical section is a function declaration* (`MediaTask.cpp:221`, `322`):
  `CriticalSectionLock mutex();` constructs nothing; see AudioStream above.
- *`close` can spin for ever* (`InternetSocket.cpp:72`). FINISHED_FLAG (0x3) is READ_FLAG |
  WRITE_FLAG, so `close` may take and clear the flag it raised for the reader. Let the thread
  that closes be the most urgent one, and let it find the reader between `_lock.unlock()` and
  its wait. It clears the flags and goes for `_lock`, which a third thread holds in
  `setsockopt`, `set_timeout`, `sigio` or `getpeername`. The reader runs, finds the flag down
  and falls asleep. Then `close` asks to wait again, is refused with E_ILUSE as the reader is
  the one waiter the flag admits, does not look at the result and asks again, for ever, above
  everybody else. This is what `meddled` excludes in `CloseReturns`; without it TLC gives this
  run.
- *A `recv` without time-out can return `NSAPI_ERROR_WOULD_BLOCK`*: the same refusal, when
  `close` waits first.
- *A recv at the end of a connection* gets -2 from the driver, which `ESP32Stack.cpp:207`
  turns into `NSAPI_ERROR_NO_SOCKET`; `TCPSocket.h` speaks of 0.
- *Late connections* (`ESP32.cpp:596`): see Esp32Sockets above.

## Proofs

TLAPS checks, for every value of the constants allowed by the modules' assumptions:

| Theorem | States | Argument |
|---|---|---|
| `RtosMutex_proofs!Exclusion`, `NestingCounted`, `TypeCorrect` | `[]HoldsLock`, `[]CountIsNesting`, `[]TypeOK`, if all threads have one priority | below |
| `RtosMutex_proofs!Refinement` | `Spec => Abstract!Spec`, same assumption | initial states map, each action maps to a step or a stutter under the invariant |
| `MessageQueue_proofs!BlocksSafe`, `OneWait`, `WaitersServed`, `TypeCorrect` | `[]BlocksConserved`, `[]NeverWaitsToSend`, `[]NoIdleWaiter`, `[]TypeOK` | below |
| `MessageQueue_proofs!Refinement` | `Spec => ImplementsFifo` | the queue is the blocks in `data` read through `mem`; a block in `data` is nobody's (`BlocksConserved`), so filling one does not change the queue, and a thread that has a message to put has a real one (`PutsMessage`) |
| `Threads_proofs!SignalsKept`, `WakesInTime`, `TypeCorrect` | `[]NoOtherSignalLost`, `[]NoOversleep`, `[]TypeOK` | `evt` is a subset of `flags` from the wait to the clearing; the loop invariant of `GetTimer` (`Scanned`): the result so far is no longer than any timer it has come to, and endless only if they are; in the wait that holds of all subtasks, and the kernel's clock does not pass the timeout (`Asleep`) |
| `Threads_proofs!ListRing`, `ListSearch`, `ListTypes` | `[]RingIntact`, `[]FoundUndisturbed`, `[]ListTypeOK`, for finitely many objects | below |
| `AudioStream_proofs!SlotsFree`, `InOrder`, `TypeCorrect` | `[]SlotFree`, `[]PlaysInOrder`, `[]TypeOK` | queued slots are the run that ends at `widx` (`Ring`), and tokens, queue and the slot in hand add up to one less than the ring (`Tokens`); a run shorter than the ring does not contain its own end |
| `AudioStream_proofs!NoneStranded`, `TokenThere` | `[]NotStranded`, `[]ReadHasToken` | `Signalled`: a filled buffer has its signal raised, in `evt` before it is handled, or noted in `recSignal` for this turn; a buffer in the thread's hand has left its token behind |
| `CameraPower_proofs!RecordingsEnd`, `TypeCorrect` | `RecordingEnds`, `[]TypeOK` | while a recording of kind *on* runs, or one that crosses a poll until the poll has decided, no power decision is pending or being taken (`Undisturbed`); PowerOn is applied before the trigger of the same word (`OnFirst`) |
| `CameraPower_proofs!Agreement` | `[]InAgreement` | as long as MediaTask is prompt, at most one decision is on its way, the one `power` tells (`OneDecision`), and picture and sound agree with it except where it has still to be applied (`SeesIt`, `HearsIt`) |
| `NetTask_proofs!ServerKnown`, `RequestRemembered`, `TypeCorrect` | `[]AddrKnown`, `[]Remembered`, `[]TypeOK` | inductive with the place in the loop and the flag that is being handled |
| `Esp32Sockets_proofs!TypeCorrect` | `[]TypeOK` | every line and packet has the id of a real connection |
| `Esp32Sockets_proofs!IdsExclusive` | `[]OneSocketPerId`, if one thread opens (`OneOpener`) | the ids given out are those of the sockets, whatever the radio reports, and the id found by the one opener stays free until it is set (`Reserved`) |
| `Esp32Sockets_proofs!OwnConnectionAlways`, `GivenBackCleanAlways`, `DataWhole`, `SentOnceAlways`, `EndIsEndAlways` | `[]OwnConnection`, `[]GivenBackClean`, `[]Whole`, `[]SentOnce`, `[]EndIsEnd`, same assumption | below |
| `TcpSocket_proofs!NoneMissed`, `AllWoken`, `TypeCorrect` | `[]NothingMissed`, `[]SleepersWoken`, `[]TypeOK` | below |

The mutex invariant `IInv` is needed because `HoldsLock` says nothing of `tskid` and
`count`, which decide a release. It adds that a thread midway through the bookkeeping is
the running one (`MidwayRuns`, where the single priority is used: a hand-over puts the
waiter behind the running thread, and preempting requires a more urgent one), that
queued threads wait for that mutex, once (`WaitersWait`), that the kernel's lists name
only mutexes the task holds (`ListedHeld`), and that `tskid` is the owner except while
the owner is returning or the last owner is leaving (`OwnerKnown`).

The message queue's invariant adds that queued threads wait in that queue and only there
(`WaitersWait`) and that deleted halves are empty (`DeletedEmpty`). That a put with a
block finds room (`RoomToSend`) is a counting argument: the blocks in the data queue
are different and the one in the thread's hand is not among them, so there are fewer than
`msg_count`.

A recv asleep has missed nothing because of what holds from the moment it clears
`Notified`: if the callback has been called since, the flag is up (`Raised`); and while the
flag is down, what its last look found is still true (`Emptied`): a report that came after
it found an empty buffer and called the callback, and other threads can read only what is in
the buffer. That part of the proof uses nothing of the scheduler; the
running thread may be any one. `packets + Len(rx) + traffic <= Traffic` bounds the types.

That a recv asleep on a socket taken away will be woken does rest on the scheduler. Its
invariant (`SInv`) first says where the threads are: the ready queue is ordered by priority,
who is in it is not asleep, and who waits for a mutex is on its way to a label behind it
(`Placed`); who is past `_lock.lock()` has the lock (`Locked`); once the socket is gone recv
is not in the driver (`Ending`), and close counts the recv that is about to wait (`Counted`).
The hard case is a reader between its unlock and its wait after close has raised the flags
(`Awake`). Either the flag is still up, or the other caller will raise it (`Rescue`), or
close, which alone can have cleared it, waits itself and keeps the reader out; or it is about
to wait, ready and more urgent than the reader (`Coming`). More urgent, since whoever is
before a reader that is not asleep has taken the processor from it (`Before`). Close leaves
the ready queue on that way only for `_lock`, and it is there again before the reader runs if
the holder is at its last unlock, because that holder too has preempted the reader
(`Preempted`). A holder in `setsockopt` or the like is the case that `meddled` excludes.

The list's invariant (`ListInv`) says that there is a ring of the live items, an order `r` in
which each links to the next and the one at `_count`, `_last`, to the first, and where the
searches are in it. A search nothing was removed from is at place `j`, its object at `m >= j`,
and its turns so far and the way left, `i + (m - j)`, are less than `_count`
(`OnItsWay`). An addition becomes the new first item, since `_last` stays: it adds one to `j`,
to `m` and to `_count`, so it takes nothing from the turns left. That sum is what
makes the search right although it reads `_count` again at every turn; a removal behind
the search breaks it, which is the finding above. A removal of the last item turns the ring by
one place, and `PrevItem` shows that the item whose link is changed is the one before. The
order is an existential witness and each step gives the new one, so that no induction along the
ring is needed.

The five properties of the ESP32's connections, too, assume one opener. They rest on one invariant, `IInv /\ Shared /\
InSync`, none of them being inductive alone. `IInv` and `Shared` hold whatever the radio
does: who holds `_smutex` is the one call that talks or reads, and two sockets never
ask for the same connection. `InSync` says that the state is `Quiet` as long as no call has been
late:

- `Works`, `Awaited`: the radio works for the call that holds the lock, and at most one answer
  is on the line, to that call, and none while the radio still works on the command (the
  prompt of a send apart). This is what a late call destroys: its answer would be taken by the
  next command.
- `Clean`: an id nobody has is clean, on the radio, in `_id_bits`, `_id_bits_close`, `_packets`
  and on the line. A close leaves it so because the lines about the id come before the
  OK it waits for, and a socket that is gone already had its CLOSED read.
- for each open socket, with its id `i`: `Ours`, the connection on `i` is the one it asked for,
  and the driver's bit is right or CLOSED is on the line; `InOrder`, CONNECT is the first
  line about `i` and CLOSED the last; `Joining`, what can be on the line while `open` waits, namely
  CONNECT before the OK, so that `_id_bits` is set when `open` returns, and without an OK no
  connection; `Counted`, `Received` and `Ended`, the counts of sends, the bytes, and the end.

Each action preserves it: for the socket of the call by its own argument, for other sockets and
for free ids by lemmas on what the action leaves alone (`OthersFine`, `CleanKept`, `WorldQuiet`).
The model's `Handles` and the bounds `Attempts` and `Traffic` are arbitrary in the proof. TLC
checked `Shared` and `InSync` on the instance of `esp32_sockets` before they were proved.

The runs evaluate `TypeOK` for the mutex, the socket and the list only; the type invariants
of the other modules are proved, for every instance.

Only model-checked: all liveness (`DeleteReleases`, `EverySignalSeen`, `Recycled`, `SettlesOff`,
`LearnsUp`, `LearnsDown`, `KeepsSyncing`, `Served`, `RecvReturns`, `CloseReturns`), which the
proof system does not handle under fairness. Every invariant and every action property a passing
run checks is proved, and so are both refinements.

## Not modelled

- GoogleDriveTask: starts in `Idle`, and no code sets the `_request` it polls.
- The upload of a file by UploadTask: `GlobalState::UploadRequest` has no caller.
- HeartRateTask, LeptonTask, ZXingTask beyond their loop; the display; FatFs.
- `osMemoryPool*`, semaphores and timers of the adapter: one kernel call per
  operation. Creating a message queue, and several queues that reuse kernel ids.
- Of the ESP32 driver: serving, UDP to several addresses, joining a network, the commands
  that are one line and one reply. Of mbed's sockets: connecting, accepting, waiting to send,
  UDP, and the destruction of a socket. When `close` returns, the last reader may still be in
  `_lock.unlock()`, which writes to the object.
- `SocketStack` and `SocketInterface`: one call of a socket per operation.
- In the audio path, the data itself: drawing, the header and the samples.
- Vendored code, host tools, the shell: see `components` in `PROJECT.json`.

## Plan

Done: `RecursiveMutex`, `RtosMutex`, `MessageFifo`, `MessageQueue`, `ObjectList`,
`TaskThread`, `AudioStream`, `CameraPower`, `NetTask`, `Esp32Sockets`, `TcpSocket`, all with
proofs. What would come next, in this order:

1. What the ESP32 driver promises, as an abstract specification (a byte stream in each
   direction with an end) that `Esp32Sockets` implements while no call is late.
2. Serving on the ESP32 (`accept`, `_accept_id`, `wait_close`), should the application use it.
3. HeartRateTask's state machine; CameraPower with the path shared by SensorTask and MediaTask.

----------------------------- MODULE AudioStream -----------------------------
(***************************************************************************)
(* The audio path of HoikuCamApp/src/MediaTask.cpp: the buffers that       *)
(* circulate between the audio driver, its completion interrupts and the   *)
(* MediaTask thread.                                                       *)
(*                                                                         *)
(* Input: every filled buffer is queued in mails by the interrupt          *)
(* (AudioReadEnd) and given back to the driver by AudioTask::Process, one  *)
(* per turn of the loop.  Output: the shutter sound is read from a file    *)
(* into a ring of buffers (StartShutter in AudioTask::ProcessEvent) and    *)
(* every buffer played asks for more (AudioWriteEnd).  The driver queues   *)
(* transfers and completes them in order; a counting semaphore             *)
(* (R_BSP_Aio::aio_trans) bounds how many it has, and it accepts every     *)
(* transfer a token was taken for.                                         *)
(*                                                                         *)
(* An interrupt runs to its end between two steps of the thread.           *)
(***************************************************************************)
EXTENDS Naturals, Sequences, FiniteSets, SequencesExt

CONSTANTS
    OutBufs,        \* AUDIO_OUT_BUF_NUM, the slots of the output ring
    InBufs,         \* the input buffers (AUDIO_IN_BUF_NUM of them)
    NoBuf,          \* no buffer in the thread's hand
    Closed,         \* shutter_fp = NULL
    FileBlocks      \* bound: buffers the shutter sound fills

ASSUME OutBufsAssumption    == OutBufs \in Nat /\ OutBufs >= 2
ASSUME InBufsAssumption    == IsFiniteSet(InBufs)
ASSUME NoBufAssumption      == NoBuf \notin InBufs
ASSUME FileBlocksAssumption == FileBlocks \in Nat
ASSUME ClosedAssumption     == Closed \notin Nat

Slots == 0 .. OutBufs - 1
Sigs  == {"TriggerOn", "RecAudio", "StartShutter", "EndShutter"}

VARIABLES
    inq, mails, hand,       \* input: with the driver, filled, being given back
    inTok,                  \* tokens left in read_ctl.p_sem_ctl
    outq,                   \* output: slots queued in the driver
    outTok,                 \* tokens left in write_ctl.p_sem_ctl
    ridx, widx,             \* _out_ridx, _out_widx
    file,                   \* shutter_fp: buffers left to read, or Closed
    stop,                   \* the local ridx of ProcessEvent: where to stop
    recSignal,              \* _rec_signal
    flags, evt,             \* signals of MediaTask; evt.value.signals while used
    pc

input  == <<inq, mails, hand, inTok>>
output == <<outq, outTok, ridx, widx>>
vars   == <<input, output, file, stop, recSignal, flags, evt, pc>>

-----------------------------------------------------------------------------
WriteTokensAll == OutBufs           \* bug: as many tokens as slots

(* audio(0x80, AUDIO_OUT_BUF_NUM - 1, AUDIO_IN_BUF_NUM) *)
WriteTokens == OutBufs - 1

Inc(i) == IF i + 1 >= OutBufs THEN 0 ELSE i + 1
Dec(i) == IF i <= 0 THEN OutBufs - 1 ELSE i - 1

Raise(s) == flags' = flags \cup s

-----------------------------------------------------------------------------
(* AudioReadEnd, then the token back.  CriticalSectionLock mutex() in      *)
(* Process declares a function and locks nothing: the interrupt may come   *)
(* while the thread unlinks the front of mails, and what pop_front writes  *)
(* afterwards can undo the link or the size of push_back.  The mail stays, *)
(* or it is no longer in the list.                                         *)
ReadEndNoSignal ==                  \* bug: forgets to signal RecAudio
    /\ inq # <<>>
    /\ inq' = Tail(inq) /\ inTok' = inTok + 1
    /\ mails' = Append(mails, Head(inq))
    /\ UNCHANGED <<hand, output, file, stop, recSignal, flags, evt, pc>>

ReadEndNoToken ==                   \* bug: keeps the token
    /\ inq # <<>>
    /\ inq' = Tail(inq) /\ mails' = Append(mails, Head(inq))
    /\ Raise({"RecAudio"})
    /\ UNCHANGED <<hand, inTok, output, file, stop, recSignal, evt, pc>>

ReadEnd ==
    /\ inq # <<>>
    /\ inq' = Tail(inq) /\ inTok' = inTok + 1
    /\ \/ mails' = Append(mails, Head(inq))
       \/ pc = "popping" /\ UNCHANGED mails
    /\ Raise({"RecAudio"})
    /\ UNCHANGED <<hand, output, file, stop, recSignal, evt, pc>>

(* AudioWriteEnd, then the token back. *)
WriteEnd ==
    /\ outq # <<>>
    /\ outq' = Tail(outq) /\ outTok' = outTok + 1
    /\ \/ ridx = widx /\ Raise({"EndShutter"}) /\ UNCHANGED ridx
       \/ ridx # widx /\ ridx' = Inc(ridx) /\ Raise({"StartShutter"})
    /\ UNCHANGED <<input, widx, file, stop, recSignal, evt, pc>>

(* GlobalState::TriggerOn, from SensorTask. *)
TriggerOn ==
    /\ Raise({"TriggerOn"})
    /\ UNCHANGED <<input, output, file, stop, recSignal, evt, pc>>

-----------------------------------------------------------------------------
(* TaskThread::Main.  A wait can also end with the timer of a subtask.     *)
Wake ==
    /\ pc = "wait"
    /\ evt' = flags /\ flags' = {}
    /\ pc' = IF flags = {} THEN "process" ELSE "event"
    /\ UNCHANGED <<input, output, file, stop, recSignal>>

(* AudioTask::ProcessEvent up to the loop that fills the ring. *)
Open(f, signals) ==
    /\ file' = f
    /\ recSignal' = (recSignal \/ "RecAudio" \in evt)
    /\ stop' = Dec(ridx)
    /\ pc' = IF "StartShutter" \in signals /\ f # Closed THEN "fill" ELSE "clr"

Event ==
    /\ pc = "event"
    /\ \/ "TriggerOn" \notin evt /\ Open(file, evt)
       \/ "TriggerOn" \in evt /\ Open(Closed, evt)        \* fopen fails
       \/ "TriggerOn" \in evt /\ Open(FileBlocks, evt \cup {"StartShutter"})
    /\ UNCHANGED <<input, output, flags, evt>>

(* One pass of the loop: fread into slot widx ...                          *)
Fill ==
    /\ pc = "fill"
    /\ IF file = 0 THEN file' = Closed /\ pc' = "clr"
                   ELSE file' = file - 1 /\ pc' = "token"
    /\ UNCHANGED <<input, output, stop, recSignal, flags, evt>>

(* ... audio.write: wait for a token, queue the slot ...                   *)
TakeToken ==
    /\ pc = "token" /\ outTok > 0
    /\ outTok' = outTok - 1
    /\ pc' = "submit"
    /\ UNCHANGED <<input, outq, ridx, widx, file, stop, recSignal, flags, evt>>

SubmitNext ==                       \* bug: advances _out_widx first
    /\ pc = "submit"
    /\ outq' = Append(outq, Inc(widx))
    /\ pc' = "advance"
    /\ UNCHANGED <<input, outTok, ridx, widx, file, stop, recSignal, flags, evt>>

Submit ==
    /\ pc = "submit"
    /\ outq' = Append(outq, widx)
    /\ pc' = "advance"
    /\ UNCHANGED <<input, outTok, ridx, widx, file, stop, recSignal, flags, evt>>

(* ... and on to the next slot, while (_out_widx != ridx).                 *)
Advance ==
    /\ pc = "advance"
    /\ widx' = Inc(widx)
    /\ pc' = IF Inc(widx) # stop THEN "fill" ELSE "clr"
    /\ UNCHANGED <<input, outq, outTok, ridx, file, stop, recSignal, flags, evt>>

SignalClr ==
    /\ pc = "clr"
    /\ flags' = flags \ evt /\ evt' = {}
    /\ pc' = "process"
    /\ UNCHANGED <<input, output, file, stop, recSignal>>

(* AudioTask::Process: once a buffer was ever signalled, take one mail.    *)
TakeFront ==
    /\ pc = "process"
    /\ IF recSignal /\ mails # <<>>
       THEN hand' = Head(mails) /\ pc' = "popping"
       ELSE UNCHANGED hand /\ pc' = IF recSignal THEN "again" ELSE "wait"
    /\ UNCHANGED <<inq, mails, inTok, output, file, stop, recSignal, flags, evt>>

PopFront ==
    /\ pc = "popping"
    /\ mails' = Tail(mails)
    /\ pc' = "read"
    /\ UNCHANGED <<inq, hand, inTok, output, file, stop, recSignal, flags, evt>>

(* audio.read gives the buffer back to the driver. *)
Read ==
    /\ pc = "read" /\ inTok > 0
    /\ inTok' = inTok - 1
    /\ inq' = Append(inq, hand) /\ hand' = NoBuf
    /\ pc' = "again"
    /\ UNCHANGED <<mails, output, file, stop, recSignal, flags, evt>>

AgainNever ==                       \* bug: does not look at mails again
    /\ pc = "again"
    /\ pc' = "wait"
    /\ UNCHANGED <<input, output, file, stop, recSignal, flags, evt>>

(* if (!mails.empty()) _owner->RecAudio(); *)
Again ==
    /\ pc = "again"
    /\ Raise(IF mails # <<>> THEN {"RecAudio"} ELSE {})
    /\ pc' = "wait"
    /\ UNCHANGED <<input, output, file, stop, recSignal, evt>>

-----------------------------------------------------------------------------
(* After AudioTask::OnStart: every input buffer is with the driver. *)
Init ==
    /\ inq \in SetToSeqs(InBufs) /\ mails = <<>> /\ hand = NoBuf
    /\ inTok = 0
    /\ outq = <<>> /\ outTok = WriteTokens
    /\ ridx = 0 /\ widx = 0 /\ stop = 0
    /\ file = Closed /\ recSignal = FALSE
    /\ flags = {} /\ evt = {} /\ pc = "wait"

Turn == Event \/ Fill \/ TakeToken \/ Submit \/ Advance \/ SignalClr
            \/ TakeFront \/ PopFront \/ Read \/ Again

Next == ReadEnd \/ WriteEnd \/ TriggerOn \/ Wake \/ Turn

Spec == Init /\ [][Next]_vars

(* The thread goes on when it can and wakes up for a signal; the driver    *)
(* plays what it has.  No trigger and no timeout is owed to it.            *)
FairSpec ==
    /\ Spec
    /\ WF_vars(Turn) /\ WF_vars(flags # {} /\ Wake) /\ WF_vars(WriteEnd)

-----------------------------------------------------------------------------
TypeOK ==
    /\ inq \in Seq(InBufs) /\ mails \in Seq(InBufs) /\ hand \in InBufs \cup {NoBuf}
    /\ inTok \in Nat /\ outTok \in Nat
    /\ outq \in Seq(Slots) /\ {ridx, widx, stop} \subseteq Slots
    /\ file \in 0 .. FileBlocks \cup {Closed}
    /\ recSignal \in BOOLEAN
    /\ flags \subseteq Sigs /\ evt \subseteq Sigs
    /\ pc \in {"wait", "event", "fill", "token", "submit", "advance", "clr",
               "process", "popping", "read", "again"}

(* fread never writes a slot that is still queued for playing, although    *)
(* the fill loop compares with a ridx read before it and may lap the ring. *)
SlotFree == pc \in {"token", "submit"} => widx \notin ToSet(outq)

(* What is queued is the run of slots written last, in ring order.         *)
PlaysInOrder ==
    LET end == IF pc = "advance" THEN Inc(widx) ELSE widx IN
    \A i \in 1 .. Len(outq) :
        Inc(outq[i]) = IF i = Len(outq) THEN end ELSE outq[i + 1]

(* The driver never has more than the semaphore allows and Read finds a    *)
(* token whenever it has a buffer: giving a buffer back never blocks.      *)
ReadHasToken == pc = "read" => inTok > 0

(* A filled buffer never waits for a loop that sleeps: RecAudio is raised, *)
(* though signal_clr may have erased the one its interrupt raised.         *)
NotStranded == pc = "wait" /\ mails # <<>> => "RecAudio" \in flags

(* So every filled buffer that is in the list gets back to the driver. *)
Recycled == \A b \in InBufs : (b \in ToSet(mails)) ~> (b \in ToSet(inq))

=============================================================================

----------------------------- MODULE CameraPower -----------------------------
(***************************************************************************)
(* Who turns the camera on and off, in HoikuCamApp/src.  SensorTask        *)
(* samples the trigger button and the grip, and its PowerOffTask polls     *)
(* GlobalState::IsActive: the first active poll turns the camera on, and   *)
(* more than IdlePolls inactive ones in a row turn it off.  MediaTask gets *)
(* the decisions as signals, in turns of its own that may be late, and     *)
(* applies them first to the picture (VisualTask), then to the sound       *)
(* (AudioTask); what it is doing is what IsActive reads.                   *)
(*                                                                         *)
(* The clock is the poll (100 ms).  A debounced button changes at any      *)
(* sample.  The vibrator and the audio buffers are left out.               *)
(***************************************************************************)
EXTENDS Naturals

CONSTANTS
    IdlePolls,      \* inactive polls the camera stays on (30)
    RecPolls,       \* polls a recording lasts (10 s: 100)
    MaxLag          \* bound: polls that go by before a decision is applied

ASSUME IdlePollsAssumption == IdlePolls \in Nat
ASSUME RecPollsAssumption  == RecPolls \in Nat /\ RecPolls >= 2
ASSUME MaxLagAssumption    == MaxLag \in Nat

VARIABLES
    trig, grip,     \* the debounced states of the two buttons
    power, idle,    \* PowerOffTask: _state and _count
    poll,           \* where PowerOffTask is in Process
    flags, evt,     \* signals of MediaTask; evt.value.signals while used
    pc,             \* where MediaTask is in its loop
    visual, audio,  \* VisualTask::_state, AudioTask::_state
    wav,            \* wav_fp # NULL
    left,           \* polls until _timer of a recording is 0
    began,          \* history: "on", "off" or "crossing", see RecordingEnds
    lag,            \* polls gone by since a decision is pending
    prompt          \* history: every decision was applied before the next poll

buttons == <<trig, grip>>
sensor  == <<power, idle, poll>>
media   == <<evt, pc, visual, audio, wav, began>>
vars    == <<buttons, sensor, flags, media, left, lag, prompt>>

-----------------------------------------------------------------------------
(* GripButtonTask::Process and TriggerButtonTask::Process, the sample that *)
(* ends the debouncing.  All of SensorTask is one thread.                  *)
GripButton ==
    /\ poll = "rest"
    /\ grip' = IF grip = "Hold" THEN "Release" ELSE "Hold"
    /\ UNCHANGED <<trig, sensor, flags, media, left, lag, prompt>>

TriggerButton ==
    /\ poll = "rest"
    /\ \/ trig = "Down" /\ trig' = "Up" /\ UNCHANGED flags
       \/ trig = "Up" /\ trig' = "Down" /\ flags' = flags \cup {"TriggerOn"}
    /\ UNCHANGED <<grip, sensor, media, left, lag, prompt>>

-----------------------------------------------------------------------------
(* PowerOffTask::Process.  IsActive reads the grip and AudioTask::_state,  *)
(* then VisualTask::_state.                                                *)
ActiveGripOnly == grip # "Release"  \* bug: does not ask MediaTask

Active == grip # "Release" \/ audio = "Recording"

Count(active) ==
    \/ /\ power = "PowerOff" /\ ~active
       /\ poll' = "rest" /\ UNCHANGED <<power, idle>>
    \/ /\ power = "PowerOff" /\ active
       /\ power' = "PowerOn" /\ poll' = "PowerOn" /\ UNCHANGED idle
    \/ /\ power = "PowerOn" /\ active
       /\ idle' = 0 /\ poll' = "rest" /\ UNCHANGED power
    \/ /\ power = "PowerOn" /\ ~active /\ idle + 1 <= IdlePolls
       /\ idle' = idle + 1 /\ poll' = "rest" /\ UNCHANGED power
    \/ /\ power = "PowerOn" /\ ~active /\ idle + 1 > IdlePolls
       /\ idle' = 0 /\ poll' = "PowerOff" /\ UNCHANGED power

Pending == (flags \cup evt) \cap {"PowerOn", "PowerOff"} # {}

(* A poll is a tick of the clock. *)
Poll ==
    /\ poll = "rest"
    /\ Pending => lag < MaxLag
    /\ lag' = IF Pending THEN lag + 1 ELSE 0
    /\ prompt' = (prompt /\ ~Pending)
    /\ left' = IF left > 0 THEN left - 1 ELSE 0
    /\ IF Active THEN Count(TRUE)
                 ELSE poll' = "look" /\ UNCHANGED <<power, idle>>
    /\ UNCHANGED <<buttons, flags, media>>

Look ==
    /\ poll = "look"
    /\ Count(visual = "Recording")
    /\ began' = IF began = "crossing" /\ poll' # "PowerOff" THEN "on" ELSE began
    /\ UNCHANGED <<buttons, flags, evt, pc, visual, audio, wav, left, lag, prompt>>

(* GlobalState::PowerOn and PowerOff, up to the signal to MediaTask. *)
Announce ==
    /\ poll \in {"PowerOn", "PowerOff"}
    /\ flags' = flags \cup {poll}
    /\ power' = poll
    /\ poll' = "rest"
    /\ UNCHANGED <<buttons, idle, media, left, lag, prompt>>

-----------------------------------------------------------------------------
(* TaskThread::Main of MediaTask: a signal, or a timer or a sound buffer.  *)
Wake ==
    /\ pc = "wait"
    /\ evt' = flags /\ flags' = {}
    /\ pc' = IF flags = {} THEN "process" ELSE "visual"
    /\ UNCHANGED <<buttons, sensor, visual, audio, wav, began, left, lag, prompt>>

(* VisualTask::ProcessEvent: the picture of a trigger takes a while. *)
VisualOffElse(v) ==                 \* bug: "else if" after the trigger
    IF "PowerOff" \in evt /\ "TriggerOn" \notin evt THEN "PowerOff" ELSE v

VisualOff(v) == IF "PowerOff" \in evt THEN "PowerOff" ELSE v

VisualEvent ==
    LET v == IF "PowerOn" \in evt THEN "Viewing" ELSE visual IN
    /\ pc = "visual"
    /\ IF "TriggerOn" \in evt /\ v # "PowerOff"
       THEN visual' = "Recording" /\ pc' = "shoot"
       ELSE visual' = VisualOff(v) /\ pc' = "audio"
    /\ UNCHANGED <<buttons, sensor, flags, evt, audio, wav, began, left, lag, prompt>>

Shoot ==
    /\ pc = "shoot"
    /\ visual' = VisualOff("Viewing")
    /\ pc' = "audio"
    /\ UNCHANGED <<buttons, sensor, flags, evt, audio, wav, began, left, lag, prompt>>

(* AudioTask::ProcessEvent.  The sound is turned on before the files of a  *)
(* trigger are opened, which takes a while.                                *)
AudioOn ==
    /\ pc = "audio"
    /\ IF "PowerOn" \in evt THEN audio' = "Idle" /\ left' = 0
                            ELSE UNCHANGED <<audio, left>>
    /\ pc' = "record"
    /\ UNCHANGED <<buttons, sensor, flags, evt, visual, wav, began, lag, prompt>>

(* The camera is on, and no decision that it should be is on its way. *)
On == power = "PowerOn" /\ poll \in {"rest", "look"} /\ "PowerOn" \notin flags

AudioOff(a) == IF "PowerOff" \in evt /\ a = "Idle" THEN "PowerOff" ELSE a

Record ==                           \* fopen succeeds
    /\ "TriggerOn" \in evt
    /\ audio' = "Recording" /\ wav' = TRUE /\ left' = RecPolls
    /\ began' = IF ~On THEN "off" ELSE IF poll = "look" THEN "crossing" ELSE "on"

NoRecord ==                         \* no trigger, or fopen fails
    /\ audio' = AudioOff(audio)
    /\ wav' = (wav /\ "TriggerOn" \notin evt)
    /\ UNCHANGED <<left, began>>

AudioEvent ==
    /\ pc = "record"
    /\ Record \/ NoRecord
    /\ pc' = "clr"
    /\ UNCHANGED <<buttons, sensor, flags, evt, visual, lag, prompt>>

SignalClr ==
    /\ pc = "clr"
    /\ flags' = flags \ evt /\ evt' = {}
    /\ pc' = "process"
    /\ UNCHANGED <<buttons, sensor, visual, audio, wav, began, left, lag, prompt>>

FinishStays(a) == a                 \* bug: closes the file, stays Recording
Finish(a) == "Idle"

(* AudioTask::Process: a recording whose timer is 0 is closed. *)
Process ==
    /\ pc = "process"
    /\ IF audio = "Recording" /\ left = 0
       THEN wav' = FALSE /\ audio' = Finish(audio)
       ELSE UNCHANGED <<wav, audio>>
    /\ pc' = "wait"
    /\ UNCHANGED <<buttons, sensor, flags, evt, visual, began, left, lag, prompt>>

-----------------------------------------------------------------------------
Init ==
    /\ trig \in {"Up", "Down"} /\ grip = "Release"
    /\ power = "PowerOff" /\ idle = 0 /\ poll = "rest"
    /\ flags = {} /\ evt = {} /\ pc = "wait" /\ lag = 0
    /\ visual = "PowerOff" /\ audio = "PowerOff"
    /\ wav = FALSE /\ left = 0 /\ began = "off" /\ prompt = TRUE

SensorStep == Look \/ Announce
MediaStep  == VisualEvent \/ Shoot \/ AudioOn \/ AudioEvent \/ SignalClr \/ Process

Next == GripButton \/ TriggerButton \/ Poll \/ SensorStep \/ Wake \/ MediaStep

Spec == Init /\ [][Next]_vars

Due == flags # {} \/ (audio = "Recording" /\ left = 0)

(* Both threads go on, MediaTask wakes up for signals and for the end of a *)
(* recording, and time passes however often MediaTask is busy.             *)
FairSpec ==
    /\ Spec
    /\ SF_vars(Poll) /\ WF_vars(SensorStep) /\ WF_vars(MediaStep)
    /\ WF_vars(Due /\ Wake)

-----------------------------------------------------------------------------
TypeOK ==
    /\ trig \in {"Up", "Down"} /\ grip \in {"Hold", "Release"}
    /\ power \in {"PowerOn", "PowerOff"} /\ idle \in 0 .. IdlePolls
    /\ poll \in {"rest", "look", "PowerOn", "PowerOff"}
    /\ {flags, evt} \subseteq SUBSET {"TriggerOn", "PowerOn", "PowerOff"}
    /\ pc \in {"wait", "visual", "shoot", "audio", "record", "clr", "process"}
    /\ visual \in {"PowerOff", "Viewing", "Recording"}
    /\ audio \in {"PowerOff", "Idle", "Recording"}
    /\ wav \in BOOLEAN /\ left \in 0 .. RecPolls
    /\ began \in {"on", "off", "crossing"} /\ lag \in 0 .. MaxLag /\ prompt \in BOOLEAN

(* How a recording ends: when its time is over, with its file closed.  A   *)
(* PowerOn that MediaTask takes cuts it short and leaves the file open,    *)
(* but only if it began with the camera off or on its way on or off, or if *)
(* it crossed the poll that turned the camera off: that poll had read      *)
(* AudioTask::_state before the recording, and VisualTask::_state after    *)
(* the picture of the same trigger.  PowerOff stops no recording, and no   *)
(* decision, however late, stops one of another beginning.                 *)
RecordingEnds ==
    [][audio = "Recording" /\ audio' # "Recording" =>
           \/ left = 0 /\ ~wav'
           \/ began # "on" /\ "PowerOn" \in evt]_vars

(* Two threads agree: at rest the picture is shown if and only if          *)
(* PowerOffTask believes that the camera is on, and then the sound is on.  *)
(* Needs every decision so far applied before the next poll.               *)
InAgreement ==
    prompt /\ pc = "wait" /\ flags = {} /\ poll = "rest" =>
        /\ visual = "PowerOff" <=> power = "PowerOff"
        /\ power = "PowerOn" => audio # "PowerOff"

(* Left alone, with the grip released and no trigger, the camera ends up   *)
(* off for good, whatever crossed on the way.                              *)
SettlesOff ==
    <>[](grip = "Release" /\ "TriggerOn" \notin flags)
        => <>[](visual = "PowerOff" /\ audio = "PowerOff")

=============================================================================

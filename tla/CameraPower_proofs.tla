-------------------------- MODULE CameraPower_proofs --------------------------
(***************************************************************************)
(* Which recordings a power decision can cut, for every number of idle     *)
(* polls, every length of a recording and every delay of MediaTask; and    *)
(* both threads agree as long as MediaTask is prompt.                      *)
(***************************************************************************)
EXTENDS CameraPower, TLAPS

(* A recording that began with the camera on, and has not crossed a poll   *)
(* that turned it off.                                                     *)
Kept ==
    /\ audio = "Recording"
    /\ \/ began = "on"
       \/ began = "crossing" /\ poll = "look"

(* While it runs, PowerOffTask believes that the camera is on, sees it     *)
(* active at each poll and so has no decision on its way; what was decided *)
(* before has been consumed when the recording began.                      *)
Undisturbed ==
    Kept => /\ power = "PowerOn" /\ poll \in {"rest", "look"}
            /\ began = "on" => poll = "rest"
            /\ "PowerOn" \notin flags
            /\ pc # "clr" => "PowerOn" \notin evt

(* PowerOn is applied before the files of a trigger are opened. *)
OnFirst == pc = "record" /\ "PowerOn" \in evt => audio = "Idle"

Consumed == pc \in {"wait", "process"} => evt = {}

IInv == TypeOK /\ Undisturbed /\ OnFirst /\ Consumed

-----------------------------------------------------------------------------
LEMMA InitInv == Init => IInv
<1> SUFFICES ASSUME Init PROVE IInv
  OBVIOUS
<1>1. 0 \in 0 .. IdlePolls /\ 0 \in 0 .. RecPolls /\ 0 \in 0 .. MaxLag
  BY IdlePollsAssumption, RecPollsAssumption, MaxLagAssumption
<1> QED
  BY <1>1 DEF Init, IInv, TypeOK, Undisturbed, OnFirst, Kept, Consumed

(* Whether a poll is active or not, the count stays in its range. *)
LEMMA CountType ==
  ASSUME NEW active \in BOOLEAN, power \in {"PowerOn", "PowerOff"},
         idle \in 0 .. IdlePolls, Count(active)
  PROVE  /\ power' \in {"PowerOn", "PowerOff"} /\ idle' \in 0 .. IdlePolls
         /\ poll' \in {"rest", "PowerOn", "PowerOff"}
  BY IdlePollsAssumption DEF Count

LEMMA TypeStep == TypeOK /\ [Next]_vars => TypeOK'
<1> SUFFICES ASSUME TypeOK, [Next]_vars PROVE TypeOK'
  OBVIOUS
<1> USE IdlePollsAssumption, RecPollsAssumption, MaxLagAssumption
<1>1. CASE GripButton
  BY <1>1 DEF GripButton, TypeOK, sensor, media
<1>2. CASE TriggerButton
  BY <1>2 DEF TriggerButton, TypeOK, sensor, media
<1>3. CASE Poll
  <2>1. power' \in {"PowerOn", "PowerOff"} /\ idle' \in 0 .. IdlePolls
          /\ poll' \in {"rest", "look", "PowerOn", "PowerOff"}
    BY <1>3, CountType DEF Poll, TypeOK
  <2>2. left' \in 0 .. RecPolls /\ lag' \in 0 .. MaxLag
    BY <1>3 DEF Poll, TypeOK
  <2> QED
    BY <1>3, <2>1, <2>2 DEF Poll, TypeOK, buttons, media
<1>4. CASE Look
  <2>1. power' \in {"PowerOn", "PowerOff"} /\ idle' \in 0 .. IdlePolls
          /\ poll' \in {"rest", "PowerOn", "PowerOff"}
    BY <1>4, CountType DEF Look, TypeOK
  <2> QED
    BY <1>4, <2>1 DEF Look, TypeOK, buttons
<1>5. CASE Announce
  BY <1>5 DEF Announce, TypeOK, buttons, media
<1>6. CASE Wake
  BY <1>6 DEF Wake, TypeOK, buttons, sensor
<1>7. CASE VisualEvent
  BY <1>7 DEF VisualEvent, VisualOff, TypeOK, buttons, sensor
<1>8. CASE Shoot
  BY <1>8 DEF Shoot, VisualOff, TypeOK, buttons, sensor
<1>9. CASE AudioOn
  BY <1>9 DEF AudioOn, TypeOK, buttons, sensor
<1>10. CASE AudioEvent
  <2>1. audio' \in {"PowerOff", "Idle", "Recording"} /\ began' \in {"on", "off", "crossing"}
    BY <1>10 DEF AudioEvent, Record, NoRecord, AudioOff, TypeOK
  <2>2. wav' \in BOOLEAN
    BY <1>10 DEF AudioEvent, Record, NoRecord, TypeOK
  <2>3. left' \in 0 .. RecPolls
    BY <1>10 DEF AudioEvent, Record, NoRecord, TypeOK
  <2> QED
    BY <1>10, <2>1, <2>2, <2>3 DEF AudioEvent, TypeOK, buttons, sensor
<1>11. CASE SignalClr
  BY <1>11 DEF SignalClr, TypeOK, buttons, sensor
<1>12. CASE Process
  BY <1>12 DEF Process, Finish, TypeOK, buttons, sensor
<1>13. CASE UNCHANGED vars
  BY <1>13 DEF vars, TypeOK, buttons, sensor, media
<1> QED
  BY <1>1, <1>2, <1>3, <1>4, <1>5, <1>6, <1>7, <1>8, <1>9, <1>10, <1>11, <1>12,
     <1>13
     DEF Next, SensorStep, MediaStep

LEMMA KeptStep == IInv /\ [Next]_vars => Undisturbed' /\ OnFirst' /\ Consumed'
<1> SUFFICES ASSUME IInv, [Next]_vars PROVE Undisturbed' /\ OnFirst' /\ Consumed'
  OBVIOUS
<1> USE DEF IInv, Undisturbed, OnFirst, Consumed, Kept
<1>1. CASE GripButton
  BY <1>1 DEF GripButton, sensor, media
<1>2. CASE TriggerButton
  BY <1>2 DEF TriggerButton, sensor, media
<1>3. CASE Poll
  (* A recording makes the poll active, and power is on already. *)
  <2>1. audio = "Recording" => Count(TRUE)
    BY <1>3 DEF Poll, Active
  <2>2. Kept => power' = "PowerOn" /\ poll' = "rest"
    BY <2>1 DEF Count
  <2>3. audio = "Recording" => poll' # "look"
    BY <2>1 DEF Count
  <2>4. Kept' => Kept
    BY <1>3, <2>3 DEF Poll, media
  <2> QED
    BY <1>3, <2>2, <2>4 DEF Poll, media, buttons
<1>4. CASE Look
  (* Of a recording it does not see, it decides at most to turn it off. *)
  <2>1. Kept => poll' \in {"rest", "PowerOff"} /\ power' = "PowerOn"
    BY <1>4 DEF Look, Count
  <2>2. Kept' => Kept /\ poll' = "rest"
    BY <1>4, <2>1 DEF Look
  <2> QED
    BY <1>4, <2>1, <2>2 DEF Look, buttons
<1>5. CASE Announce
  BY <1>5 DEF Announce, buttons, media
<1>6. CASE Wake
  BY <1>6 DEF Wake, buttons, sensor
<1>7. CASE VisualEvent
  BY <1>7 DEF VisualEvent, buttons, sensor
<1>8. CASE Shoot
  BY <1>8 DEF Shoot, buttons, sensor
<1>9. CASE AudioOn
  BY <1>9 DEF AudioOn, buttons, sensor, TypeOK
<1>10. CASE AudioEvent
  BY <1>10 DEF AudioEvent, Record, NoRecord, AudioOff, On, buttons, sensor, TypeOK
<1>11. CASE SignalClr
  BY <1>11 DEF SignalClr, buttons, sensor
<1>12. CASE Process
  BY <1>12 DEF Process, Finish, buttons, sensor
<1>13. CASE UNCHANGED vars
  BY <1>13 DEF vars, buttons, sensor, media
<1> QED
  BY <1>1, <1>2, <1>3, <1>4, <1>5, <1>6, <1>7, <1>8, <1>9, <1>10, <1>11, <1>12,
     <1>13
     DEF Next, SensorStep, MediaStep

(* The invariant is inductive. *)
THEOREM Inductive == Spec => []IInv
<1>1. IInv /\ [Next]_vars => IInv'
  BY TypeStep, KeptStep DEF IInv
<1> QED
  BY InitInv, <1>1, PTL DEF Spec

-----------------------------------------------------------------------------
(* Only AudioTask::ProcessEvent and Process stop a recording: the first    *)
(* with a PowerOn, which a recording that is kept never meets, the second  *)
(* when the time is over.                                                  *)
LEMMA StepEnds ==
  ASSUME IInv, [Next]_vars, audio = "Recording", audio' # "Recording"
  PROVE  \/ left = 0 /\ ~wav'
         \/ began # "on" /\ "PowerOn" \in evt
<1> USE DEF IInv, Undisturbed, Kept, TypeOK
<1>1. CASE AudioOn
  BY <1>1 DEF AudioOn
<1>2. CASE AudioEvent
  BY <1>2 DEF AudioEvent, Record, NoRecord, AudioOff
<1>3. CASE Process
  BY <1>3 DEF Process
<1>4. CASE ~AudioOn /\ ~AudioEvent /\ ~Process
  BY <1>4 DEF Next, SensorStep, MediaStep, GripButton, TriggerButton, Poll, Look,
     Announce, Wake, VisualEvent, Shoot, SignalClr, vars, media
<1> QED
  BY <1>1, <1>2, <1>3, <1>4

(* Every recording ends with its time and its file closed, or by a PowerOn *)
(* and then began with the camera off, turning, or crossed by the poll     *)
(* that turns it off (AudioTask and PowerOffTask), for every value of the  *)
(* constants.                                                              *)
THEOREM RecordingsEnd == Spec => RecordingEnds
<1>1. IInv /\ [Next]_vars
        => [audio = "Recording" /\ audio' # "Recording" =>
              \/ left = 0 /\ ~wav'
              \/ began # "on" /\ "PowerOn" \in evt]_vars
  BY StepEnds
<1> QED
  BY Inductive, <1>1, PTL DEF Spec, RecordingEnds

(* The variables keep their types, in particular _count never passes       *)
(* IdlePolls between two polls.                                            *)
THEOREM TypeCorrect == Spec => []TypeOK
<1>1. IInv => TypeOK
  BY DEF IInv
<1> QED
  BY Inductive, <1>1, PTL

-----------------------------------------------------------------------------
(* The two threads agree as long as every decision is applied before the   *)
(* next poll.  Then PowerOffTask decides only when nothing is on its way,  *)
(* so that at most one decision is, the one that power tells.              *)
Decisions == {"PowerOn", "PowerOff"}

(* Not yet applied to the picture, or the sound. *)
ToSee  == flags \cup (IF pc \in {"visual", "shoot"} THEN evt ELSE {})
ToHear == flags \cup (IF pc \in {"visual", "shoot", "audio"} THEN evt ELSE {})

Shooting == pc = "shoot" => visual = "Recording"

OneDecision ==
    prompt =>
        /\ poll # "rest" => ~Pending
        /\ "PowerOn" \in flags \cup evt => power = "PowerOn"
        /\ "PowerOff" \in flags \cup evt => power = "PowerOff"
        /\ \A d \in Decisions : d \in flags => d \notin evt

SeesIt ==
    prompt =>
        /\ poll \in {"rest", "look"} /\ ToSee \cap Decisions = {}
             => (visual = "PowerOff" <=> power = "PowerOff")
        /\ poll = "PowerOn" => power = "PowerOn" /\ visual = "PowerOff"
        /\ poll = "PowerOff" => power = "PowerOn" /\ visual # "PowerOff"

HearsIt ==
    prompt /\ power = "PowerOn" /\ poll # "PowerOn" /\ "PowerOn" \notin ToHear
        => audio # "PowerOff"

AInv == TypeOK /\ Consumed /\ Shooting /\ OneDecision /\ SeesIt /\ HearsIt

LEMMA AgreementInit == Init => Shooting /\ OneDecision /\ SeesIt /\ HearsIt
BY DEF Init, Shooting, OneDecision, SeesIt, HearsIt, Pending, Decisions, ToSee

LEMMA AgreementStep ==
  ASSUME AInv, [Next]_vars
  PROVE  Shooting' /\ OneDecision' /\ SeesIt' /\ HearsIt'
<1> USE DEF AInv, TypeOK, Consumed, Shooting, OneDecision, SeesIt, HearsIt, Pending,
     Decisions, ToSee, ToHear
<1>1. CASE GripButton
  BY <1>1 DEF GripButton, sensor, media
<1>2. CASE TriggerButton
  BY <1>2 DEF TriggerButton, sensor, media
<1>3. CASE Poll
  BY <1>3 DEF Poll, Count, media, buttons
<1>4. CASE Look
  BY <1>4 DEF Look, Count, buttons
<1>5. CASE Announce
  BY <1>5 DEF Announce, buttons, media
<1>6. CASE Wake
  BY <1>6 DEF Wake, buttons, sensor
<1>7. CASE VisualEvent
  BY <1>7 DEF VisualEvent, VisualOff, buttons, sensor
<1>8. CASE Shoot
  BY <1>8 DEF Shoot, VisualOff, buttons, sensor
<1>9. CASE AudioOn
  BY <1>9 DEF AudioOn, buttons, sensor
<1>10. CASE AudioEvent
  BY <1>10 DEF AudioEvent, Record, NoRecord, AudioOff, buttons, sensor
<1>11. CASE SignalClr
  BY <1>11 DEF SignalClr, buttons, sensor
<1>12. CASE Process
  BY <1>12 DEF Process, Finish, buttons, sensor
<1>13. CASE UNCHANGED vars
  BY <1>13 DEF vars, buttons, sensor, media
<1> QED
  BY <1>1, <1>2, <1>3, <1>4, <1>5, <1>6, <1>7, <1>8, <1>9, <1>10, <1>11, <1>12,
     <1>13
     DEF Next, SensorStep, MediaStep

(* SensorTask and MediaTask agree at rest if every decision was applied    *)
(* before the next poll, for every value of the constants.                 *)
THEOREM Agreement == Spec => []InAgreement
<1>1. Init => AInv
  BY InitInv, AgreementInit DEF IInv, AInv
<1>2. AInv /\ IInv /\ [Next]_vars => AInv'
  BY AgreementStep, TypeStep, KeptStep DEF AInv
<1>3. AInv => InAgreement
  BY DEF AInv, Consumed, SeesIt, HearsIt, InAgreement, ToSee, ToHear, Decisions
<1> QED
  BY Inductive, <1>1, <1>2, <1>3, PTL DEF Spec

=============================================================================

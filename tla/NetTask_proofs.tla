---------------------------- MODULE NetTask_proofs ----------------------------
(***************************************************************************)
(* UploadTask never talks to a server it does not know and never forgets a *)
(* request, for every number of retries.                                   *)
(***************************************************************************)
EXTENDS NetTask, TLAPS

(* Signals in hand are used up by the clearing; ...                        *)
Cleared == pc \notin {"event", "clr"} => evt = {}

(* ... what is about to be erased has been handled; ...                    *)
Handled ==
    pc = "clr" /\ "UpdateRequest" \in evt => updateReq /\ upload # "Detected"

(* ... and while an update runs it holds a socket, and a request that came *)
(* too late for it is still a signal.                                      *)
Updating ==
    pc = "update" => /\ upload = "Update"
                     /\ owed = "asked" => "UpdateRequest" \in flags
                     /\ taken > 0

IInv == TypeOK /\ AddrKnown /\ Remembered /\ Cleared /\ Handled /\ Updating

-----------------------------------------------------------------------------
LEMMA InitInv == Init => IInv
<1> SUFFICES ASSUME Init PROVE IInv
  OBVIOUS
<1>1. 0 \in 0 .. Retries - 1
  BY RetriesAssumption
<1>2. 0 \in 0 .. Sockets
  BY SocketsAssumption
<1> QED
  BY <1>1, <1>2 DEF Init, IInv, TypeOK, Timers, AddrKnown, Remembered, Cleared, Handled, Updating

(* After an attempt the count is a count of attempts again. *)
LEMMA RetryType ==
  ASSUME NEW r \in 0 .. Retries - 1
  PROVE  (IF r + 1 >= Retries THEN 0 ELSE r + 1) \in 0 .. Retries - 1
  BY RetriesAssumption

LEMMA TypeStep == TypeOK /\ Updating /\ [Next]_vars => TypeOK'
<1> SUFFICES ASSUME TypeOK, Updating, [Next]_vars PROVE TypeOK'
  OBVIOUS
<1> USE DEF TypeOK, Timers, wifiVars, ntpVars, upVars
<1>0. 0 \in 0 .. Retries - 1
  BY RetriesAssumption
<1>1. CASE LinkChanges
  BY <1>1 DEF LinkChanges, SetLink
<1>2. CASE UpdateRequest
  BY <1>2 DEF UpdateRequest
<1>3. CASE Wake
  <2>1. {wifiTimer', ntpTimer', upTimer'} \subseteq {"Zero", "Later", "Forever"}
    BY <1>3 DEF Wake, Elapse
  <2> QED
    BY <1>3, <2>1 DEF Wake
<1>4. CASE Event
  <2>1. wifi' \in {"Connected", "Connecting", "Disconnected"} /\ wifiTimer' \in Timers
    BY <1>4 DEF Event, Status
  <2>2. ntp' \in {"Synced", "Unsynced"} /\ ntpTimer' \in Timers
    BY <1>4 DEF Event
  <2>3. /\ upload' \in {"Undetected", "Detected", "Update"} /\ upTimer' \in Timers
        /\ updateReq' \in BOOLEAN
    BY <1>4 DEF Event, Request
  <2> QED
    BY <1>4, <2>1, <2>2, <2>3 DEF Event
<1>5. CASE SignalClr
  BY <1>5 DEF SignalClr
<1>6. CASE WifiRests \/ Dhcp \/ DhcpFails \/ Join \/ JoinFails
  BY <1>6 DEF WifiRests, Dhcp, DhcpFails, Join, JoinFails, SetLink, NotConnected
<1>7. CASE Look
  BY <1>7 DEF Look
<1>8. CASE NtpRests \/ NtpAnswers
  BY <1>0, <1>8 DEF NtpRests, NtpAnswers, NtpDue
<1>9. CASE NtpFails
  <2>1. retry' \in 0 .. Retries - 1
    BY <1>9, RetryType DEF NtpFails
  <2> QED
    BY <1>9, <2>1 DEF NtpFails, NtpDue
<1>10. CASE UpRests
  BY <1>10 DEF UpRests, UpDue, UpTo
<1>11. CASE QueryAnswers \/ UpdateStarts \/ UpdateAnswers
  <2>1. CASE QueryAnswers
    BY <1>0, <2>1 DEF QueryAnswers, UpDue, UpTo
  <2>2. CASE UpdateStarts
    <3>1. owed' \in {"no", "asked", "serving"} /\ taken' \in 0 .. Sockets
      BY <2>2, SocketsAssumption DEF UpdateStarts
    <3> QED
      BY <2>2, <3>1 DEF UpdateStarts, UpDue
  <2>3. CASE UpdateAnswers
    <3>1. owed' \in {"no", "asked", "serving"} /\ taken' \in 0 .. Sockets
      BY <2>3, SocketsAssumption DEF UpdateAnswers, Updating
    <3> QED
      BY <1>0, <2>3, <3>1 DEF UpdateAnswers, UpTo
  <2> QED
    BY <1>11, <2>1, <2>2, <2>3
<1>12. CASE QueryFails
  <2>1. upRetry' \in 0 .. Retries - 1
    BY <1>12, RetryType DEF QueryFails, RetryLater
  <2> QED
    BY <1>12, <2>1 DEF QueryFails, RetryLater, UpDue, UpTo
<1>14. CASE NoSocket \/ UpdateRefused \/ UpdateFails
  <2>1. upRetry' \in 0 .. Retries - 1
    BY <1>0, <1>14, RetryType
       DEF NoSocket, UpdateRefused, UpdateFails, Unsuccessful, RetryLater
  <2>2. owed' \in {"no", "asked", "serving"} /\ taken' \in 0 .. Sockets
    BY <1>14, SocketsAssumption DEF NoSocket, UpdateRefused, UpdateFails, Updating
  <2>3. /\ upload' \in {"Undetected", "Update"} /\ upTimer' \in Timers /\ pc' = "wait"
        /\ UNCHANGED <<link, wifiVars, ntpVars, flags, evt, addr, updateReq>>
    BY <1>14 DEF NoSocket, UpdateRefused, UpdateFails, Unsuccessful, RetryLater, UpTo
  <2> QED
    BY <2>1, <2>2, <2>3
<1>13. CASE UNCHANGED vars
  BY <1>13 DEF vars
<1> QED
  BY <1>1, <1>2, <1>3, <1>4, <1>5, <1>6, <1>7, <1>8, <1>9, <1>10, <1>11, <1>12, <1>13,
     <1>14 DEF Next, Turn

LEMMA Step ==
  IInv /\ [Next]_vars => AddrKnown' /\ Remembered' /\ Cleared' /\ Handled' /\ Updating'
<1> SUFFICES ASSUME IInv, [Next]_vars
             PROVE  AddrKnown' /\ Remembered' /\ Cleared' /\ Handled' /\ Updating'
  OBVIOUS
<1> USE DEF IInv, AddrKnown, Remembered, Cleared, Handled, Updating, upVars
<1>1. CASE LinkChanges
  BY <1>1 DEF LinkChanges, SetLink
<1>2. CASE UpdateRequest
  BY <1>2 DEF UpdateRequest
<1>3. CASE Wake
  BY <1>3 DEF Wake
<1>4. CASE Event
  BY <1>4 DEF Event, Request, TypeOK
<1>5. CASE SignalClr
  BY <1>5 DEF SignalClr
<1>6. CASE WifiRests \/ Dhcp \/ DhcpFails \/ Join \/ JoinFails \/ Look
  BY <1>6 DEF WifiRests, Dhcp, DhcpFails, Join, JoinFails, Look, SetLink, NotConnected
<1>7. CASE NtpRests \/ NtpAnswers \/ NtpFails
  BY <1>7 DEF NtpRests, NtpAnswers, NtpFails, NtpDue
<1>8. CASE UpRests
  BY <1>8 DEF UpRests, UpDue, UpTo
<1>9. CASE QueryAnswers
  BY <1>9 DEF QueryAnswers, UpDue, UpTo
<1>10. CASE QueryFails
  BY <1>10 DEF QueryFails, RetryLater, UpDue, UpTo
<1>11. CASE UpdateStarts
  BY <1>11, SocketsAssumption DEF UpdateStarts, UpDue, TypeOK
<1>12. CASE UpdateAnswers
  BY <1>12 DEF UpdateAnswers, UpTo, TypeOK
(* The branch of an unknown address is never taken. *)
<1>13. CASE NoSocket \/ UpdateRefused \/ UpdateFails
  <2>1. addr /\ upload = "Update"
    BY <1>13 DEF NoSocket, UpdateRefused, UpdateFails, UpDue
  <2>2. RetryLater("Update") /\ UNCHANGED <<addr, updateReq>>
    BY <1>13, <2>1 DEF NoSocket, UpdateRefused, UpdateFails, Unsuccessful
  <2>3. owed' # "no" => owed # "no"
    BY <1>13 DEF NoSocket, UpdateRefused, UpdateFails, TypeOK
  <2>4. pc \notin {"event", "clr"}
    BY <1>13 DEF NoSocket, UpdateRefused, UpdateFails, UpDue
  <2> QED
    BY <2>1, <2>2, <2>3, <2>4 DEF RetryLater, UpTo, TypeOK
<1>14. CASE UNCHANGED vars
  BY <1>14 DEF vars
<1> QED
  BY <1>1, <1>2, <1>3, <1>4, <1>5, <1>6, <1>7, <1>8, <1>9, <1>10, <1>11, <1>12, <1>13,
     <1>14 DEF Next, Turn

(* The invariant is inductive. *)
THEOREM Inductive == Spec => []IInv
<1>1. IInv /\ [Next]_vars => IInv'
  BY TypeStep, Step DEF IInv
<1> QED
  BY InitInv, <1>1, PTL DEF Spec

-----------------------------------------------------------------------------
(* UploadTask asks a known address only (UploadTask::ProcessEvent and      *)
(* Process), and so its search after failed updates is never entered.      *)
THEOREM ServerKnown == Spec => []AddrKnown
<1>1. IInv => AddrKnown
  BY DEF IInv
<1> QED
  BY Inductive, <1>1, PTL

(* No request of MediaTask is forgotten, though signals are erased after   *)
(* they were handled (TaskThread::Main).                                   *)
THEOREM RequestRemembered == Spec => []Remembered
<1>1. IInv => Remembered
  BY DEF IInv
<1> QED
  BY Inductive, <1>1, PTL

(* The attempts are counted up to their limit, and no request gives back a *)
(* socket it does not hold.                                                *)
THEOREM TypeCorrect == Spec => []TypeOK
<1>1. IInv => TypeOK
  BY DEF IInv
<1> QED
  BY Inductive, <1>1, PTL

=============================================================================

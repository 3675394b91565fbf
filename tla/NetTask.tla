------------------------------- MODULE NetTask -------------------------------
(***************************************************************************)
(* The NetTask thread, HoikuCamApp/src/NetTask.cpp, and its subtasks in    *)
(* their order: WifiTask follows the status the ESP32 driver reports,      *)
(* NtpTask sets the clock while there is a connection, UploadTask finds    *)
(* the server and tells it to fetch what was recorded whenever MediaTask   *)
(* asks (UpdateRequest).  The fourth, GoogleDriveTask, never leaves Idle:  *)
(* its timer stays 0 and so the thread never sleeps.  Uploading a file is  *)
(* left out: nothing calls GlobalState::UploadRequest.                     *)
(*                                                                         *)
(* An update is an HttpRequest (mbed-http), which takes a socket of the    *)
(* driver, closes it when the response is complete, and leaves it to its   *)
(* destructor otherwise; NetTask never deletes it.                         *)
(*                                                                         *)
(* The driver (ESP32Interface.cpp) parses what the radio reports whenever  *)
(* a command runs, in any thread: the status may change between any two    *)
(* steps, and each change raises WifiStatusChanged.                        *)
(***************************************************************************)
EXTENDS Naturals

CONSTANTS
    Retries,            \* attempts before a subtask makes a longer pause (3)
    Sockets             \* sockets of the driver, SOCKET_COUNT (5)

ASSUME RetriesAssumption == Retries \in Nat \ {0}
ASSUME SocketsAssumption == Sockets \in Nat \ {0}

(* A timer: due, running, or osWaitForever. *)
Timers == {"Zero", "Later", "Forever"}

VARIABLES
    link,               \* ESP32Interface::_connection_status
    wifi, wifiTimer,    \* WifiTask: _state, _timer
    ntp, ntpTimer,      \* NtpTask: _state, _timer
    retry,              \* NtpTask: _retry
    upload, upTimer,    \* UploadTask: _state, _timer
    upRetry,            \* UploadTask: _retry
    addr,               \* UploadTask: _serverAddr is known
    updateReq,          \* UploadTask: _update_req
    owed,               \* history: the update MediaTask asked for
    taken,              \* sockets of the driver that requests hold
    flags, evt,         \* signals of NetTask; evt.value.signals while used
    pc                  \* where NetTask is in its loop

wifiVars == <<wifi, wifiTimer>>
ntpVars  == <<ntp, ntpTimer, retry>>
upVars   == <<upload, upTimer, upRetry, addr, updateReq, owed, taken>>
vars     == <<link, wifiVars, ntpVars, upVars, flags, evt, pc>>

-----------------------------------------------------------------------------
(* set_connection_status: the callback is called for a change only. *)
SetLink(status) ==
    /\ link' = status
    /\ flags' = IF link = status THEN flags ELSE flags \cup {"WifiStatusChanged"}

(* The radio: "WIFI GOT IP" or "WIFI DISCONNECT". *)
LinkChanges ==
    /\ SetLink("Up") \/ SetLink("Down")
    /\ UNCHANGED <<wifiVars, ntpVars, upVars, evt, pc>>

-----------------------------------------------------------------------------
(* TaskThread::Main.  Task::Progress turns osWaitForever (-1) into 0.      *)
ElapseKept(timer) ==                \* bug: waits for a signal that was erased
    IF timer = "Later" THEN {"Zero", "Later"} ELSE {timer}

Elapse(timer) == IF timer = "Later" THEN {"Zero", "Later"} ELSE {"Zero"}

Wake ==
    /\ pc = "wait"
    /\ evt' = flags /\ flags' = {}
    /\ wifiTimer' \in Elapse(wifiTimer) /\ ntpTimer' \in Elapse(ntpTimer)
    /\ upTimer' \in Elapse(upTimer)
    /\ pc' = IF flags = {} THEN "wifi" ELSE "event"
    /\ UNCHANGED <<link, wifi, ntp, retry, upload, upRetry, addr, updateReq, owed, taken>>

(* ProcessEvent of WifiTask, NtpTask and UploadTask. *)
Status ==
    \/ link = "Up" /\ wifi' = "Connected" /\ wifiTimer' = "Forever"
    \/ link = "Down" /\ wifi' = "Disconnected" /\ wifiTimer' = "Later"
    \/ link = "Connecting" /\ wifi' = "Connecting" /\ wifiTimer' = "Forever"

RequestUnchecked ==                 \* bug: does not ask for the address
    /\ updateReq' = TRUE
    /\ upload' = "Update" /\ upTimer' = "Zero"

Request ==
    /\ updateReq' = TRUE
    /\ upload' = (IF addr THEN "Update" ELSE "Undetected") /\ upTimer' = "Zero"

Event ==
    /\ pc = "event"
    /\ IF "WifiStatusChanged" \in evt THEN Status ELSE UNCHANGED wifiVars
    /\ flags' = IF "WifiStatusChanged" \in evt /\ link = "Up"
                THEN flags \cup {"WifiConnected"} ELSE flags
    /\ IF "WifiConnected" \in evt
       THEN ntp' = "Unsynced" /\ ntpTimer' = "Zero"
       ELSE UNCHANGED <<ntp, ntpTimer>>
    /\ IF "UpdateRequest" \in evt
       THEN Request
       ELSE UNCHANGED <<updateReq, upload, upTimer>>
    /\ pc' = "clr"
    /\ UNCHANGED <<link, retry, upRetry, addr, owed, taken, evt>>

SignalClr ==
    /\ pc = "clr"
    /\ flags' = flags \ evt /\ evt' = {}
    /\ pc' = "wifi"
    /\ UNCHANGED <<link, wifiVars, ntpVars, upVars>>

-----------------------------------------------------------------------------
(* WifiTask::Process.  Disconnected, it calls ESP32Interface::connect: set *)
(* up DHCP, say Connecting, join the access point.                         *)
WifiRests ==
    /\ pc = "wifi" /\ wifiTimer # "Zero"
    /\ pc' = "ntp"
    /\ UNCHANGED <<link, wifiVars, ntpVars, upVars, flags, evt>>

NotConnected ==
    /\ wifi' = "Disconnected" /\ wifiTimer' = "Later"
    /\ pc' = "ntp"

Dhcp ==
    /\ pc = "wifi" /\ wifiTimer = "Zero" /\ wifi = "Disconnected"
    /\ SetLink("Connecting")
    /\ pc' = "join"
    /\ UNCHANGED <<wifiVars, ntpVars, upVars, evt>>

DhcpFails ==
    /\ pc = "wifi" /\ wifiTimer = "Zero" /\ wifi = "Disconnected"
    /\ NotConnected
    /\ UNCHANGED <<link, ntpVars, upVars, flags, evt>>

Join ==
    /\ pc = "join"
    /\ wifi' = "Connecting" /\ wifiTimer' = "Later"
    /\ pc' = "ntp"
    /\ UNCHANGED <<link, ntpVars, upVars, flags, evt>>

JoinFails ==
    /\ pc = "join"
    /\ SetLink("Down")
    /\ NotConnected
    /\ UNCHANGED <<ntpVars, upVars, evt>>

(* Otherwise it looks at the status again. *)
Look ==
    /\ pc = "wifi" /\ wifiTimer = "Zero" /\ wifi # "Disconnected"
    /\ \/ link = "Up" /\ wifi' = "Connected" /\ wifiTimer' = "Forever"
       \/ link = "Connecting" /\ wifi' = "Connecting" /\ wifiTimer' = "Later"
       \/ link = "Down" /\ wifi' = "Disconnected" /\ wifiTimer' = "Later"
    /\ flags' = IF link = "Up" /\ wifi = "Connecting"
                THEN flags \cup {"WifiConnected"} ELSE flags
    /\ pc' = "ntp"
    /\ UNCHANGED <<link, ntpVars, upVars, evt>>

-----------------------------------------------------------------------------
(* NtpTask::Process. *)
NtpDue == pc = "ntp" /\ ntpTimer = "Zero"

NtpRests ==
    /\ pc = "ntp"
    /\ \/ ntpTimer # "Zero" /\ UNCHANGED ntpVars
       \/ /\ ntpTimer = "Zero" /\ ntp = "Unsynced" /\ wifi # "Connected"
          /\ ntpTimer' = "Forever" /\ UNCHANGED <<ntp, retry>>
       \/ /\ ntpTimer = "Zero" /\ ntp = "Synced"
          /\ ntp' = "Unsynced" /\ ntpTimer' = "Zero" /\ UNCHANGED retry
    /\ pc' = "upload"
    /\ UNCHANGED <<link, wifiVars, upVars, flags, evt>>

NtpAnswers ==
    /\ NtpDue /\ ntp = "Unsynced" /\ wifi = "Connected"
    /\ ntp' = "Synced" /\ ntpTimer' = "Later" /\ retry' = 0
    /\ pc' = "upload"
    /\ UNCHANGED <<link, wifiVars, upVars, flags, evt>>

NtpFails ==
    /\ NtpDue /\ ntp = "Unsynced" /\ wifi = "Connected"
    /\ retry' = IF retry + 1 >= Retries THEN 0 ELSE retry + 1
    /\ ntpTimer' = "Later"
    /\ pc' = "upload"
    /\ UNCHANGED <<link, wifiVars, ntp, upVars, flags, evt>>

-----------------------------------------------------------------------------
(* UploadTask::Process. *)
UpDue(state) == pc = "upload" /\ upTimer = "Zero" /\ upload = state

UpTo(state, timer) ==
    /\ upload' = state /\ upTimer' = timer
    /\ pc' = "wait"
    /\ UNCHANGED <<link, wifiVars, ntpVars, flags, evt>>

RetryLater(state) ==
    /\ upRetry' = IF upRetry + 1 >= Retries THEN 0 ELSE upRetry + 1
    /\ UpTo(state, "Later")

UpRests ==
    /\ \/ pc = "upload" /\ upTimer # "Zero" /\ UpTo(upload, upTimer)
       \/ UpDue("Undetected") /\ wifi # "Connected" /\ UpTo("Undetected", "Forever")
       \/ UpDue("Detected") /\ IF addr THEN UpTo("Detected", "Forever")
                                       ELSE UpTo("Undetected", "Zero")
    /\ UNCHANGED <<upRetry, addr, updateReq, owed, taken>>

QueryAnswersDetected ==             \* bug: forgets the pending request
    /\ UpDue("Undetected") /\ wifi = "Connected"
    /\ addr' = TRUE /\ upRetry' = 0
    /\ UpTo("Detected", "Later")
    /\ UNCHANGED <<updateReq, owed, taken>>

QueryAnswers ==
    /\ UpDue("Undetected") /\ wifi = "Connected"
    /\ addr' = TRUE /\ upRetry' = 0
    /\ IF updateReq THEN UpTo("Update", "Zero") ELSE UpTo("Detected", "Later")
    /\ UNCHANGED <<updateReq, owed, taken>>

QueryFails ==
    /\ UpDue("Undetected") /\ wifi = "Connected"
    /\ RetryLater("Undetected")
    /\ UNCHANGED <<addr, updateReq, owed, taken>>

(* NetTask::Update, the request to the server, takes a while: it opens a   *)
(* socket, connects, sends, and receives until the response is complete.   *)
UpdateStarts ==
    /\ UpDue("Update") /\ taken < Sockets
    /\ taken' = taken + 1
    /\ owed' = IF owed = "asked" THEN "serving" ELSE owed
    /\ pc' = "update"
    /\ UNCHANGED <<link, wifiVars, ntpVars, upload, upTimer, upRetry, addr,
                   updateReq, flags, evt>>

(* After the last attempt it looks for the server only if the address is   *)
(* unknown, which it never is here.                                        *)
Unsuccessful ==
    /\ IF upRetry + 1 >= Retries /\ ~addr
       THEN upRetry' = 0 /\ UpTo("Undetected", "Zero")
       ELSE RetryLater("Update")
    /\ UNCHANGED <<addr, updateReq>>

NoSocket ==
    /\ UpDue("Update") /\ taken = Sockets
    /\ Unsuccessful
    /\ UNCHANGED <<owed, taken>>

UpdateAnswers ==
    /\ pc = "update"
    /\ taken' = taken - 1
    /\ updateReq' = FALSE /\ upRetry' = 0
    /\ owed' = IF owed = "serving" THEN "no" ELSE owed
    /\ UpTo("Detected", "Forever")
    /\ UNCHANGED addr

UpdateRefused ==                    \* a complete response, but not 200
    /\ pc = "update"
    /\ taken' = taken - 1
    /\ owed' = IF owed = "serving" THEN "asked" ELSE owed
    /\ Unsuccessful

(* Cannot connect or send, or the connection ends before the response:     *)
(* send() returns without closing the socket.                              *)
UpdateFails ==
    /\ pc = "update"
    /\ owed' = IF owed = "serving" THEN "asked" ELSE owed
    /\ Unsuccessful
    /\ UNCHANGED taken

(* GlobalState::UpdateRequest, when MediaTask has closed a recording. *)
UpdateRequest ==
    /\ flags' = flags \cup {"UpdateRequest"}
    /\ owed' = "asked"
    /\ UNCHANGED <<link, wifiVars, ntpVars, upload, upTimer, upRetry, addr,
                   updateReq, taken, evt, pc>>

-----------------------------------------------------------------------------
(* After OnStart: the ssid and the password are configured. *)
Init ==
    /\ link = "Down" /\ wifi = "Disconnected" /\ wifiTimer = "Later"
    /\ ntp = "Unsynced" /\ ntpTimer = "Forever" /\ retry = 0
    /\ upload = "Undetected" /\ upTimer = "Forever" /\ upRetry = 0
    /\ addr \in BOOLEAN             \* the server may be given by its address
    /\ updateReq = FALSE /\ owed = "no" /\ taken = 0
    /\ flags = {} /\ evt = {} /\ pc = "wait"

Turn ==
    \/ Wake \/ Event \/ SignalClr
    \/ WifiRests \/ Dhcp \/ DhcpFails \/ Join \/ JoinFails \/ Look
    \/ NtpRests \/ NtpAnswers \/ NtpFails
    \/ UpRests \/ QueryAnswers \/ QueryFails
    \/ UpdateStarts \/ NoSocket \/ UpdateAnswers \/ UpdateRefused \/ UpdateFails

Next == LinkChanges \/ UpdateRequest \/ Turn

Spec == Init /\ [][Next]_vars

(* The thread never sleeps for ever, running timers end, and a command     *)
(* tried again and again succeeds at last.                                 *)
WifiFair == WF_vars(Turn) /\ SF_vars(Wake /\ wifiTimer' = "Zero") /\ SF_vars(Dhcp)
NtpFair  == SF_vars(Wake /\ ntpTimer' = "Zero") /\ SF_vars(NtpAnswers)
UpFair   == /\ SF_vars(Wake /\ upTimer' = "Zero")
            /\ SF_vars(QueryAnswers) /\ SF_vars(UpdateAnswers)

FairSpec == Spec /\ WifiFair /\ NtpFair /\ UpFair

-----------------------------------------------------------------------------
TypeOK ==
    /\ link \in {"Up", "Down", "Connecting"}
    /\ wifi \in {"Connected", "Connecting", "Disconnected"}
    /\ ntp \in {"Synced", "Unsynced"}
    /\ wifiTimer \in Timers /\ ntpTimer \in Timers
    /\ retry \in 0 .. Retries - 1
    /\ upload \in {"Undetected", "Detected", "Update"} /\ upTimer \in Timers
    /\ upRetry \in 0 .. Retries - 1
    /\ addr \in BOOLEAN /\ updateReq \in BOOLEAN /\ owed \in {"no", "asked", "serving"}
    /\ taken \in 0 .. Sockets
    /\ {flags, evt} \subseteq
         SUBSET {"WifiStatusChanged", "WifiConnected", "UpdateRequest"}
    /\ pc \in {"wait", "event", "clr", "wifi", "join", "ntp", "upload", "update"}

(* WifiTask knows in the end how the link is, though signal_clr may erase  *)
(* the signal of a change that came while the last one was handled: it     *)
(* looks again because a timer that waits for ever does not survive        *)
(* Task::Progress.                                                         *)
LearnsUp   == <>[](link = "Up") => <>[](wifi = "Connected")
LearnsDown == <>[](link # "Up") => <>[](wifi # "Connected")

(* While the link is up the clock is set again and again, though the       *)
(* signal that a connection is there can be erased and queries fail.       *)
KeepsSyncing == <>[](link = "Up") => []<>(ntp = "Synced") /\ []<>(ntp = "Unsynced")

(* No request goes to a server whose address is not known, and UploadTask  *)
(* does not believe that it has found one.                                 *)
AddrKnown == upload # "Undetected" \/ pc = "update" => addr

(* A request is not done before its update: as long as one is owed it is   *)
(* on its way as a signal, or UploadTask remembers it and will not rest in *)
(* Detected, though signal_clr may erase the signal of the next request.   *)
Remembered ==
    owed # "no" =>
        \/ "UpdateRequest" \in flags \cup evt
        \/ updateReq /\ upload # "Detected"

(* Every request gets a socket, because the ones before it have given      *)
(* theirs back.                                                            *)
SocketLeft == upload = "Update" /\ pc = "upload" => taken < Sockets

(* Every recording closed is fetched in the end, by an update that starts  *)
(* after the recording was closed, if the link stays up and the failed     *)
(* requests have left a socket.                                            *)
Served ==
    <>[](link = "Up" /\ "UpdateRequest" \notin flags /\ SocketLeft)
        => []<>(owed = "no")

=============================================================================

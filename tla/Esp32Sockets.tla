----------------------------- MODULE Esp32Sockets -----------------------------
(***************************************************************************)
(* The sockets of the ESP32 driver, ESP32Stack.cpp over ESP32/ESP32.cpp.   *)
(* The driver sends AT commands over a serial line and reads one stream,   *)
(* in which the replies to its commands (OK, >, SEND OK) are mixed with    *)
(* what the radio reports by itself: n,CONNECT, n,CLOSED and +IPD (data).  *)
(* ATCmdParser passes a report to its handler, drops a reply that nobody   *)
(* waits for, and gives up when the stream stays empty until its time-out. *)
(* A command the radio refuses gets ERROR, which no call waits for: such   *)
(* a command times out and the line is left out of the stream.             *)
(*                                                                         *)
(* Sockets belong to threads of any number; a call holds _smutex except    *)
(* for get_free_id and between the two tries of close.  get_free_id tests  *)
(* _ids and sets it without any lock, so two threads that open sockets can *)
(* get the same id; in the application only NetTask opens any (OneOpener). *)
(*                                                                         *)
(* The radio, which works on one command at a time, and the peers are the  *)
(* environment.  Connecting as a client is modelled, serving is not: the   *)
(* application never listens on the ESP32.                                 *)
(***************************************************************************)
EXTENDS Naturals, Sequences, Functions

CONSTANTS
    Handles,            \* the sockets of the application
    SocketCount,        \* ids of the radio, SOCKET_COUNT (5)
    Attempts,           \* bound: commands to connect
    OneOpener,          \* only one thread opens sockets
    Traffic,            \* bound: bytes that peers send and chunks for them
    Late,               \* bound: times the driver runs out of time or memory
    Nobody              \* _smutex is free

ASSUME CountAssumption == SocketCount \in Nat \ {0} /\ Attempts \in Nat
ASSUME BoundAssumption == Traffic \in Nat /\ Late \in Nat
ASSUME OpenerAssumption == OneOpener \in BOOLEAN
ASSUME NobodyAssumption == Nobody \notin Handles

Ids == 0 .. SocketCount - 1
NoId == SocketCount

(* What a connection is known by here: the number of the command that was  *)
(* to make it.                                                             *)
Links == 1 .. Attempts
NoLink == 0

VARIABLES
    ids,                \* _ids: the ids that are given out
    found,              \* found[h]: the i get_free_id is about to give to h
    idBits,             \* _id_bits: connected, as far as was reported
    idBitsClose,        \* _id_bits_close: closed by the peer or the radio
    packets,            \* _packets, by id: data nobody has received yet
    smutex,             \* who holds _smutex
    sock,               \* the sockets and where their calls are
    rx,                 \* the stream from the radio
    radio,              \* the command the radio works on
    conn,               \* the connection the radio has on an id
    attempts,           \* commands to connect so far
    sent,               \* history: bytes a peer has sent on a connection
    said,               \* history: chunks that were to be sent on a connection
    heard,              \* history: chunks a peer has got on a connection
    late                \* history: calls that gave up before the radio did, and
                        \* data that could not be read or kept

driver == <<ids, found, idBits, idBitsClose, packets, smutex, sock>>
line   == <<rx, radio>>
world  == <<conn, attempts, sent, said, heard>>
vars   == <<driver, line, world, late>>

Line(kind, id, link, from, to) ==
    [kind |-> kind, id |-> id, link |-> link, from |-> from, to |-> to]
Reply(kind) == Line(kind, NoId, NoLink, 0, 0)
Report(kind, id) == Line(kind, id, NoLink, 0, 0)

Command(op, id, link) == [op |-> op, id |-> id, link |-> link]
Idle == Command("idle", NoId, NoLink)

(* struct esp32_socket; link is the connection it takes for its own, asked *)
(* the one it asked for, got the bytes received, ended that recv reported  *)
(* the end; chunks what send still has to send, acked what was confirmed.  *)
NoSocket == [at |-> "none", id |-> NoId, link |-> NoLink, asked |-> NoLink,
             tries |-> 0, room |-> 0, got |-> <<>>, ended |-> FALSE,
             chunks |-> 0, acked |-> 0]

(* What the bound leaves. *)
Left == Traffic - FoldFunction(+, 0, sent) - FoldFunction(+, 0, said)

-----------------------------------------------------------------------------
(* The radio takes a command when it is idle and answers "busy" otherwise. *)
(* While it waits for the data of a send, whatever comes is the data.      *)
Tell(command) ==
    radio' = CASE radio = Idle      -> command
               [] radio.op = "data" -> [radio EXCEPT !.op = "sending"]
               [] OTHER             -> radio

At(h, where) == sock[h].at = where
Goes(h, where) == sock' = [sock EXCEPT ![h].at = where]

Lock(h) == smutex = Nobody /\ smutex' = h
Unlock(h) == smutex = h /\ smutex' = Nobody

(* Whether the driver takes the socket for closed. *)
Gone(id) == id \notin idBits \/ id \in idBitsClose

-----------------------------------------------------------------------------
(* ATCmdParser::vrecv and process_oob: the next line of the stream.        *)
Waits == [connecting |-> "OK", asking |-> "PROMPT", writing |-> "SEND_OK",
          closing |-> "OK", polling |-> "none"]

Busy(h) == smutex = h /\ sock[h].at \in DOMAIN Waits
Wanted(h) == rx # <<>> /\ Head(rx).kind = Waits[sock[h].at]

HandleDrops(report) ==              \* bug: drops what has not been read
    /\ idBits' = CASE report.kind = "CONNECT" -> idBits \cup {report.id}
                   [] report.kind = "CLOSED"  -> idBits \ {report.id}
                   [] OTHER                   -> idBits
    /\ idBitsClose' = IF report.kind = "CLOSED"
                         THEN idBitsClose \cup {report.id} ELSE idBitsClose
    /\ packets' = IF report.kind = "IPD"
                     THEN [packets EXCEPT ![report.id] = Append(@, report)]
                     ELSE [packets EXCEPT ![report.id] = <<>>]

(* socket_handler and _packet_handler *)
Handle(report) ==
    /\ idBits' = CASE report.kind = "CONNECT" -> idBits \cup {report.id}
                   [] report.kind = "CLOSED"  -> idBits \ {report.id}
                   [] OTHER                   -> idBits
    /\ idBitsClose' = IF report.kind = "CLOSED"
                         THEN idBitsClose \cup {report.id} ELSE idBitsClose
    /\ packets' = IF report.kind = "IPD"
                     THEN [packets EXCEPT ![report.id] = Append(@, report)]
                     ELSE packets

(* A report is handled and a reply to another call is dropped. *)
ReadLine(h) ==
    /\ Busy(h) /\ rx # <<>> /\ ~Wanted(h)
    /\ Handle(Head(rx))
    /\ rx' = Tail(rx)
    /\ UNCHANGED <<ids, found, smutex, sock, radio, world, late>>

(* _packet_handler fails: it runs out of time for the header or of memory  *)
(* for the packet, and what the radio sent is lost; or read comes back too *)
(* early with -1, which passes for a success, and a packet is kept whose   *)
(* bytes nobody sent.                                                      *)
ReadBadly(h) ==
    /\ Busy(h) /\ rx # <<>> /\ Head(rx).kind = "IPD"
    /\ late < Late /\ late' = late + 1
    /\ \/ UNCHANGED packets
       \/ packets' = [packets EXCEPT ![Head(rx).id] =
                         Append(@, [Head(rx) EXCEPT !.link = NoLink])]
    /\ rx' = Tail(rx)
    /\ UNCHANGED <<ids, found, idBits, idBitsClose, smutex, sock, radio, world>>

(* The reply a call waits for, and its absence: nothing more comes until   *)
(* the time is over, whether or not the radio still works on the command.  *)
Answered(h, where) == At(h, where) /\ Busy(h) /\ Wanted(h) /\ rx' = Tail(rx)
GivesUp(h, where) ==
    /\ At(h, where) /\ Busy(h) /\ rx = <<>>
    /\ \/ radio = Idle /\ UNCHANGED late
       \/ radio # Idle /\ late < Late /\ late' = late + 1

(* _clear_socket_packets *)
Clear(id) == packets' = [packets EXCEPT ![id] = <<>>]

-----------------------------------------------------------------------------
FreeOnLine == {i \in Ids : i \notin idBits}        \* bug: only those connected

(* get_free_id looks for an id that is neither given out nor connected.    *)
(* Its loop comes to the first, but ids may become free behind it.         *)
Free == {i \in Ids : i \notin ids /\ i \notin idBits}

FindId(h) ==
    /\ At(h, "none") /\ found[h] = NoId
    /\ OneOpener => \A g \in Handles : found[g] = NoId
    /\ \E i \in Free : found' = [found EXCEPT ![h] = i]
    /\ UNCHANGED <<ids, idBits, idBitsClose, packets, smutex, sock, line, world,
                   late>>

(* socket_open: _ids[i] = true. *)
SocketOpen(h) ==
    /\ found[h] # NoId
    /\ ids' = ids \cup {found[h]}
    /\ found' = [found EXCEPT ![h] = NoId]
    /\ sock' = [sock EXCEPT ![h].at = "rest", ![h].id = found[h]]
    /\ UNCHANGED <<idBits, idBitsClose, packets, smutex, line, world, late>>

(* socket_connect: ESP32::open sends the command and waits 500 ms.  The    *)
(* application connects a socket once.                                     *)
Connect(h) ==
    /\ At(h, "rest") /\ sock[h].asked = NoLink /\ attempts < Attempts
    /\ Lock(h)
    /\ attempts' = attempts + 1
    /\ Tell(Command("connect", sock[h].id, attempts'))
    /\ sock' = [sock EXCEPT ![h].at = "connecting", ![h].asked = attempts']
    /\ UNCHANGED <<ids, found, idBits, idBitsClose, packets, rx, conn, sent, said,
                   heard, late>>

ConnectDone(h) ==
    /\ Answered(h, "connecting") /\ Unlock(h)
    /\ sock' = [sock EXCEPT ![h].at = "rest", ![h].link = sock[h].asked]
    /\ Clear(sock[h].id)
    /\ UNCHANGED <<ids, found, idBits, idBitsClose, radio, world, late>>

ConnectUnchecked(h) ==              \* bug: does not look at the result
    /\ GivesUp(h, "connecting") /\ Unlock(h)
    /\ sock' = [sock EXCEPT ![h].at = "rest", ![h].link = sock[h].asked]
    /\ Clear(sock[h].id)
    /\ UNCHANGED <<ids, found, idBits, idBitsClose, line, world>>

ConnectFails(h) ==
    /\ GivesUp(h, "connecting") /\ Unlock(h)
    /\ Goes(h, "rest")
    /\ Clear(sock[h].id)
    /\ UNCHANGED <<ids, found, idBits, idBitsClose, line, world>>

-----------------------------------------------------------------------------
(* ESP32::send cuts the data into chunks and gives each of them two tries. *)
(* Before each try it looks whether the socket is gone, and a call for one *)
(* that is gone from the beginning changes nothing.                        *)
TrySend(h, over) ==
    /\ smutex' = IF over THEN Nobody ELSE h
    /\ IF over THEN UNCHANGED radio
               ELSE Tell(Command("send", sock[h].id, sock[h].link))

Send(h) ==
    /\ At(h, "rest") /\ sock[h].link # NoLink /\ ~Gone(sock[h].id)
    /\ smutex = Nobody /\ TrySend(h, FALSE)
    /\ \E n \in 1 .. Left :
         /\ sock' = [sock EXCEPT ![h].at = "asking", ![h].tries = 0, ![h].chunks = n]
         /\ said' = [said EXCEPT ![sock[h].link] = @ + n]
    /\ UNCHANGED <<ids, found, idBits, idBitsClose, packets, rx, conn, attempts, sent,
                   heard, late>>

(* The data goes out; an idle radio takes it for an unknown command. *)
Prompted(h) ==
    /\ Answered(h, "asking")
    /\ radio' = IF radio.op = "data" THEN [radio EXCEPT !.op = "sending"] ELSE radio
    /\ Goes(h, "writing")
    /\ UNCHANGED <<ids, found, idBits, idBitsClose, packets, smutex, world, late>>

(* The next chunk has two tries again. *)
SendDone(h) ==
    /\ Answered(h, "writing")
    /\ LET over == sock[h].chunks <= 1 \/ Gone(sock[h].id) IN
       /\ TrySend(h, over)
       /\ sock' = [sock EXCEPT ![h].at = IF over THEN "rest" ELSE "asking",
                               ![h].tries = 0, ![h].acked = @ + 1,
                               ![h].chunks = IF over THEN 0 ELSE @ - 1]
    /\ UNCHANGED <<ids, found, idBits, idBitsClose, packets, world, late>>

SendFailsTrue(h) ==                 \* bug: takes the last try for a success
    /\ GivesUp(h, "asking") \/ GivesUp(h, "writing")
    /\ smutex' = Nobody
    /\ sock' = [sock EXCEPT ![h].at = "rest", ![h].acked = @ + 1]
    /\ UNCHANGED <<ids, found, idBits, idBitsClose, packets, rx, radio, world>>

SendFails(h) ==
    /\ GivesUp(h, "asking") \/ GivesUp(h, "writing")
    /\ LET over == sock[h].tries = 1 \/ Gone(sock[h].id) IN
       /\ TrySend(h, over)
       /\ sock' = [sock EXCEPT ![h].at = IF over THEN "rest" ELSE "asking",
                               ![h].tries = 1]
    /\ UNCHANGED <<ids, found, idBits, idBitsClose, packets, rx, world>>

-----------------------------------------------------------------------------
(* ESP32::recv, one turn of its loop: the stream is read until it is       *)
(* empty, then the packets of the socket are taken out of the list.  A     *)
(* turn that finds none and is not the last is a call that found none.     *)
Recv(h) ==
    /\ At(h, "rest") /\ sock[h].link # NoLink
    /\ Lock(h)
    /\ \E amount \in 1 .. Traffic :
         sock' = [sock EXCEPT ![h].at = "polling", ![h].room = amount]
    /\ UNCHANGED <<ids, found, idBits, idBitsClose, packets, line, world, late>>

Mine(h) == packets[sock[h].id]
Size(p) == p.to - p.from
Piece(p, n) == [i \in 1 .. n |-> <<p.link, p.from + i>>]

(* The stream was read to its end, or a packet was taken already. *)
Polled(h) == At(h, "polling") /\ rx = <<>>
Taking(h) == smutex = h /\ (Polled(h) \/ At(h, "taken"))

(* A packet that fits is moved to the buffer and the search goes on. *)
TakePacket(h) ==
    /\ Taking(h) /\ Mine(h) # <<>>
    /\ LET p == Head(Mine(h)) IN
       /\ Size(p) <= sock[h].room
       /\ packets' = [packets EXCEPT ![sock[h].id] = Tail(@)]
       /\ sock' = [sock EXCEPT ![h].at = "taken", ![h].room = @ - Size(p),
                               ![h].got = @ \o Piece(p, Size(p))]
    /\ UNCHANGED <<ids, found, idBits, idBitsClose, smutex, line, world, late>>

TakePartAgain(h) ==                 \* bug: does not advance the index
    /\ Taking(h) /\ Unlock(h) /\ Mine(h) # <<>>
    /\ LET p == Head(Mine(h))
           n == sock[h].room IN
       /\ Size(p) > n
       /\ sock' = [sock EXCEPT ![h].at = "rest", ![h].got = @ \o Piece(p, n)]
    /\ UNCHANGED <<ids, found, idBits, idBitsClose, packets, line, world, late>>

(* Of a packet that does not fit the rest stays in the list. *)
TakePart(h) ==
    /\ Taking(h) /\ Unlock(h) /\ Mine(h) # <<>>
    /\ LET p == Head(Mine(h))
           n == sock[h].room IN
       /\ Size(p) > n
       /\ packets' = [packets EXCEPT ![sock[h].id][1].from = @ + n]
       /\ sock' = [sock EXCEPT ![h].at = "rest", ![h].got = @ \o Piece(p, n)]
    /\ UNCHANGED <<ids, found, idBits, idBitsClose, line, world, late>>

RecvSome(h) ==
    /\ At(h, "taken") /\ Unlock(h) /\ Mine(h) = <<>>
    /\ Goes(h, "rest")
    /\ UNCHANGED <<ids, found, idBits, idBitsClose, packets, line, world, late>>

(* There was no packet.  The last turn of the call tells a socket that is  *)
(* gone (-2) from one that has no data yet (-1).                           *)
RecvNone(h, last) ==
    /\ Polled(h) /\ Unlock(h) /\ Mine(h) = <<>>
    /\ sock' = [sock EXCEPT ![h].at = "rest",
                            ![h].ended = @ \/ (last /\ Gone(sock[h].id))]
    /\ UNCHANGED <<ids, found, idBits, idBitsClose, packets, line, world, late>>

-----------------------------------------------------------------------------
(* ESP32::close *)
ReleaseMarked(h) ==                 \* bug: keeps the mark
    /\ ids' = ids \ {sock[h].id}
    /\ Clear(sock[h].id)
    /\ sock' = [sock EXCEPT ![h] = NoSocket]
    /\ UNCHANGED idBitsClose

Release(h) ==
    /\ idBitsClose' = idBitsClose \ {sock[h].id}
    /\ ids' = ids \ {sock[h].id}
    /\ Clear(sock[h].id)
    /\ sock' = [sock EXCEPT ![h] = NoSocket]

(* A socket that is not connected is given back at once. *)
CloseGone(h) ==
    /\ At(h, "rest") \/ At(h, "again")
    /\ smutex = Nobody /\ sock[h].id \notin idBits
    /\ Release(h)
    /\ UNCHANGED <<found, idBits, smutex, line, world, late>>

CloseTry(h) ==
    /\ At(h, "rest") \/ At(h, "again")
    /\ Lock(h) /\ sock[h].id \in idBits
    /\ Tell(Command("close", sock[h].id, sock[h].link))
    /\ sock' = [sock EXCEPT ![h].tries = IF At(h, "rest") THEN 0 ELSE 1,
                            ![h].at = "closing"]
    /\ UNCHANGED <<ids, found, idBits, idBitsClose, packets, rx, world, late>>

CloseDone(h) ==
    /\ Answered(h, "closing") /\ Unlock(h)
    /\ Release(h)
    /\ UNCHANGED <<found, idBits, radio, world, late>>

CloseFails(h) ==
    /\ GivesUp(h, "closing") /\ Unlock(h)
    /\ Goes(h, IF sock[h].tries = 0 THEN "again" ELSE "giveup")
    /\ UNCHANGED <<ids, found, idBits, idBitsClose, packets, line, world>>

(* After two tries the id is given back all the same, without the lock. *)
CloseGivesUp(h) ==
    /\ At(h, "giveup")
    /\ ids' = ids \ {sock[h].id}
    /\ sock' = [sock EXCEPT ![h] = NoSocket]
    /\ UNCHANGED <<found, idBits, idBitsClose, packets, smutex, line, world, late>>

-----------------------------------------------------------------------------
(* The radio and the peers, as the driver knows them. *)
RadioConnects ==
    /\ radio.op = "connect" /\ conn[radio.id] = NoLink
    /\ conn' = [conn EXCEPT ![radio.id] = radio.link]
    /\ rx' = rx \o <<Report("CONNECT", radio.id), Reply("OK")>>
    /\ radio' = Idle
    /\ UNCHANGED <<driver, attempts, sent, said, heard, late>>

RadioCloses ==
    /\ radio.op = "close" /\ conn[radio.id] # NoLink
    /\ conn' = [conn EXCEPT ![radio.id] = NoLink]
    /\ rx' = rx \o <<Report("CLOSED", radio.id), Reply("OK")>>
    /\ radio' = Idle
    /\ UNCHANGED <<driver, attempts, sent, said, heard, late>>

RadioPrompts ==
    /\ radio.op = "send" /\ conn[radio.id] # NoLink
    /\ radio' = [radio EXCEPT !.op = "data"]
    /\ rx' = Append(rx, Reply("PROMPT"))
    /\ UNCHANGED <<driver, world, late>>

RadioSends ==
    /\ radio.op = "sending" /\ conn[radio.id] # NoLink
    /\ heard' = [heard EXCEPT ![conn[radio.id]] = @ + 1]
    /\ rx' = Append(rx, Reply("SEND_OK"))
    /\ radio' = Idle
    /\ UNCHANGED <<driver, conn, attempts, sent, said, late>>

(* ERROR or SEND FAIL; a connection that fails may be reported closed.  A  *)
(* connection that is there can always be closed.                          *)
RadioRefuses ==
    /\ \/ radio.op \in {"connect", "send", "sending"}
       \/ radio.op = "close" /\ conn[radio.id] = NoLink
    /\ radio' = Idle
    /\ \/ UNCHANGED rx
       \/ /\ radio.op = "connect" /\ conn[radio.id] = NoLink
          /\ rx' = Append(rx, Report("CLOSED", radio.id))
    /\ UNCHANGED <<driver, world, late>>

PeerSends(id) ==
    /\ conn[id] # NoLink
    /\ \E n \in 1 .. Left :
         /\ sent' = [sent EXCEPT ![conn[id]] = @ + n]
         /\ rx' = Append(rx, Line("IPD", id, conn[id], sent[conn[id]],
                                  sent[conn[id]] + n))
    /\ UNCHANGED <<driver, radio, conn, attempts, said, heard, late>>

PeerCloses(id) ==
    /\ conn[id] # NoLink
    /\ conn' = [conn EXCEPT ![id] = NoLink]
    /\ rx' = Append(rx, Report("CLOSED", id))
    /\ UNCHANGED <<driver, radio, attempts, sent, said, heard, late>>

-----------------------------------------------------------------------------
Init ==
    /\ ids = {} /\ found = [h \in Handles |-> NoId]
    /\ idBits = {} /\ idBitsClose = {}
    /\ packets = [i \in Ids |-> <<>>]
    /\ smutex = Nobody /\ sock = [h \in Handles |-> NoSocket]
    /\ rx = <<>> /\ radio = Idle
    /\ conn = [i \in Ids |-> NoLink] /\ attempts = 0
    /\ sent = [l \in Links |-> 0] /\ heard = [l \in Links |-> 0]
    /\ said = [l \in Links |-> 0]
    /\ late = 0

Opens(h) ==
    FindId(h) \/ SocketOpen(h) \/ Connect(h) \/ ConnectDone(h) \/ ConnectFails(h)
Sending(h) == Send(h) \/ Prompted(h) \/ SendDone(h) \/ SendFails(h)
Receives(h) ==
    \/ Recv(h) \/ TakePacket(h) \/ TakePart(h) \/ RecvSome(h)
    \/ \E last \in BOOLEAN : RecvNone(h, last)
Closes(h) ==
    CloseGone(h) \/ CloseTry(h) \/ CloseDone(h) \/ CloseFails(h) \/ CloseGivesUp(h)
Radio ==
    \/ RadioConnects \/ RadioCloses \/ RadioPrompts \/ RadioSends \/ RadioRefuses
    \/ \E i \in Ids : PeerSends(i) \/ PeerCloses(i)

Next ==
    \/ \E h \in Handles :
         \/ ReadLine(h) \/ ReadBadly(h)
         \/ Opens(h) \/ Sending(h) \/ Receives(h) \/ Closes(h)
    \/ Radio

Spec == Init /\ [][Next]_vars

-----------------------------------------------------------------------------
Kinds == {"OK", "PROMPT", "SEND_OK", "CONNECT", "CLOSED", "IPD"}
Lines ==
    {p \in [kind : Kinds, id : Ids \cup {NoId}, link : Links \cup {NoLink},
            from : Nat, to : Nat] :
       /\ p.from <= p.to
       /\ p.kind \in {"CONNECT", "CLOSED", "IPD"} => p.id \in Ids}
Bytes == (Links \cup {NoLink}) \X Nat

Places == {"none", "rest", "connecting", "asking", "writing", "polling", "taken",
           "closing", "again", "giveup"}
Sockets ==
    [at : Places, id : Ids \cup {NoId}, link : Links \cup {NoLink},
     asked : Links \cup {NoLink}, tries : 0 .. 1, room : Nat,
     got : Seq(Bytes), ended : BOOLEAN, chunks : Nat, acked : Nat]

Commands == [op : {"idle", "connect", "close", "send", "data", "sending"},
             id : Ids \cup {NoId}, link : Links \cup {NoLink}]

TypeOK ==
    /\ ids \subseteq Ids /\ idBits \subseteq Ids /\ idBitsClose \subseteq Ids
    /\ found \in [Handles -> Ids \cup {NoId}]
    /\ packets \in [Ids -> Seq({p \in Lines : p.kind = "IPD"})]
    /\ smutex \in Handles \cup {Nobody}
    /\ sock \in [Handles -> Sockets]
    /\ \A h \in Handles : sock[h].id \in Ids <=> ~At(h, "none")
    /\ rx \in Seq(Lines)
    /\ radio \in {c \in Commands : c = Idle \/ (c.op # "idle" /\ c.id \in Ids)}
    /\ conn \in [Ids -> Links \cup {NoLink}]
    /\ attempts \in 0 .. Attempts
    /\ sent \in [Links -> Nat] /\ said \in [Links -> Nat] /\ heard \in [Links -> Nat]
    /\ late \in 0 .. Late

(* A socket has its id to itself, and an id is given out as long as a      *)
(* socket has it: get_free_id and the three ways out of close.  Needs that *)
(* one thread opens all sockets.                                           *)
OneSocketPerId ==
    /\ ids = {sock[h].id : h \in {g \in Handles : ~At(g, "none")}}
    /\ \A g, h \in Handles :
         g # h /\ ~At(g, "none") /\ ~At(h, "none") => sock[g].id # sock[h].id

Reported(id) == \E i \in 1 .. Len(rx) : rx[i].kind = "CLOSED" /\ rx[i].id = id

(* While no call gives up on the radio too early: open has returned true   *)
(* for the connection that was asked for, and the driver takes the socket  *)
(* for open until the end of just this connection was reported.            *)
OwnConnection ==
    late = 0 => \A h \in Handles : sock[h].link # NoLink =>
        LET i == sock[h].id IN
        \/ conn[i] = sock[h].link /\ ~Gone(i)
        \/ conn[i] = NoLink /\ (Reported(i) \/ i \in idBitsClose)

(* While no call gives up too early: an id that close has given back has   *)
(* no connection, no data and no mark left of the one before, on the       *)
(* radio, in the driver or on the line.                                    *)
GivenBackClean ==
    late = 0 => \A i \in Ids \ ids :
        /\ conn[i] = NoLink /\ i \notin idBits /\ i \notin idBitsClose
        /\ packets[i] = <<>>
        /\ \A j \in 1 .. Len(rx) : rx[j].id # i

(* The data for an id that is still on the line, and how far the bytes of  *)
(* a socket go that were received or are in the list.                      *)
Pos == 1 .. Len(rx)
Data(id) == {j \in Pos : rx[j].kind = "IPD" /\ rx[j].id = id}
Kept(h) ==
    LET q == packets[sock[h].id] IN
    IF q = <<>> THEN Len(sock[h].got) ELSE q[Len(q)].to

(* What was received are the first bytes of the connection, the list goes  *)
(* on where they end, one packet where the one before ends, and of what    *)
(* comes after it every byte is on the line, once and in order.            *)
Received(h) ==
    LET i == sock[h].id
        l == sock[h].asked
        q == packets[i]
        n == Len(sock[h].got) IN
    l # NoLink =>
    /\ \A k \in 1 .. n : sock[h].got[k] = <<l, k>>
    /\ \A k \in 1 .. Len(q) :
         /\ q[k].link = l /\ q[k].from < q[k].to
         /\ q[k].from = IF k = 1 THEN n ELSE q[k-1].to
    /\ \A j \in Data(i) : /\ rx[j].link = l /\ rx[j].from < rx[j].to
                          /\ Kept(h) <= rx[j].from /\ rx[j].to <= sent[l]
    /\ \A j, k \in Data(i) : j < k => rx[j].to <= rx[k].from
    /\ Kept(h) <= sent[l]
    /\ \A x \in Kept(h) .. sent[l] - 1 :
         \E j \in Data(i) : rx[j].from <= x /\ x < rx[j].to

(* While no call gives up too early: what was received and what is still   *)
(* in the list or on the line are the bytes the peer sent on the           *)
(* connection the socket asked for, each once and in order.                *)
Whole == late = 0 => \A h \in Handles : Received(h)

(* A socket that was told the end has received everything. *)
EndIsEnd ==
    late = 0 => \A h \in Handles : sock[h].ended =>
        Len(sock[h].got) = sent[sock[h].link]

(* While no call gives up too early: of what send was given, the peer has  *)
(* got every chunk that was confirmed, and between two calls no other, be  *)
(* it that a chunk was tried twice or that the call failed halfway.        *)
SentOnce ==
    late = 0 => \A h \in Handles : sock[h].link # NoLink =>
        LET l == sock[h].link IN
        /\ sock[h].acked <= heard[l] /\ heard[l] <= said[l]
        /\ At(h, "rest") => sock[h].acked = heard[l]
=============================================================================

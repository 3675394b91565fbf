-------------------------- MODULE Esp32Sockets_proofs --------------------------
(***************************************************************************)
(* The ESP32 driver's sockets, for every number of sockets, ids, commands  *)
(* and bytes.  Whoever opens sockets and however late the radio answers:   *)
(* type correctness (TypeInv).  When one thread opens them (OneOpener): a  *)
(* socket has its id to itself (IInv), and of the calls only the           *)
(* one that holds _smutex talks to the radio (Shared).  As long as no call *)
(* has given up on a radio that still worked on its command, in addition   *)
(* Quiet: every id the driver has given back is clean, and for every       *)
(* socket the connection of the radio, the lines about its id on the       *)
(* stream, the driver's bits and packets and the call of the socket agree. *)
(* The five properties of the connections follow from it.                  *)
(***************************************************************************)
EXTENDS Esp32Sockets, TLAPS, SequenceTheorems

LEMMA Numbers == NoId \notin Ids /\ NoLink \notin Links /\ Ids \subseteq Nat
  BY CountAssumption DEF NoId, Ids, NoLink, Links

(* The parts of the invariant that are about the sockets. *)
SockOK ==
    /\ sock \in [Handles -> Sockets]
    /\ \A h \in Handles : sock[h].id \in Ids <=> ~At(h, "none")

(* A step of a call: every socket keeps its id. *)
KeepsIds ==
    \A g \in Handles : /\ sock'[g].id = sock[g].id
                       /\ sock'[g].at = "none" <=> sock[g].at = "none"

-----------------------------------------------------------------------------
(* Sockets with some of their fields changed are sockets. *)
LEMMA Fields ==
  ASSUME NEW s \in Sockets, NEW w \in Places
  PROVE  /\ [s EXCEPT !.at = w] \in Sockets
         /\ \A t \in 0 .. 1 : [s EXCEPT !.at = w, !.tries = t] \in Sockets
         /\ \A l \in Links \cup {NoLink} : [s EXCEPT !.at = w, !.asked = l] \in Sockets
         /\ \A l \in Links \cup {NoLink} : [s EXCEPT !.at = w, !.link = l] \in Sockets
         /\ \A n \in Nat : [s EXCEPT !.at = w, !.room = n] \in Sockets
         /\ \A b \in BOOLEAN : [s EXCEPT !.at = w, !.ended = b] \in Sockets
         /\ \A i \in Ids \cup {NoId} : [s EXCEPT !.at = w, !.id = i] \in Sockets
         /\ \A q \in Seq(Bytes) : [s EXCEPT !.at = w, !.got = q] \in Sockets
         /\ \A n \in Nat, q \in Seq(Bytes) :
              [s EXCEPT !.at = w, !.room = n, !.got = q] \in Sockets
         /\ \A t \in 0 .. 1, n \in Nat :
              [s EXCEPT !.at = w, !.tries = t, !.chunks = n] \in Sockets
         /\ \A t \in 0 .. 1, m \in Nat, n \in Nat :
              [s EXCEPT !.at = w, !.tries = t, !.acked = m, !.chunks = n] \in Sockets
<1> USE DEF Sockets
<1>1. [s EXCEPT !.at = w] \in Sockets
  OBVIOUS
<1>2. \A t \in 0 .. 1 : [s EXCEPT !.at = w, !.tries = t] \in Sockets
  OBVIOUS
<1>3. \A l \in Links \cup {NoLink} : [s EXCEPT !.at = w, !.asked = l] \in Sockets
  OBVIOUS
<1>4. \A l \in Links \cup {NoLink} : [s EXCEPT !.at = w, !.link = l] \in Sockets
  OBVIOUS
<1>6. \A n \in Nat : [s EXCEPT !.at = w, !.room = n] \in Sockets
  OBVIOUS
<1>7. \A b \in BOOLEAN : [s EXCEPT !.at = w, !.ended = b] \in Sockets
  OBVIOUS
<1>8. \A i \in Ids \cup {NoId} : [s EXCEPT !.at = w, !.id = i] \in Sockets
  OBVIOUS
<1>9. \A q \in Seq(Bytes) : [s EXCEPT !.at = w, !.got = q] \in Sockets
  OBVIOUS
<1>10. \A n \in Nat, q \in Seq(Bytes) :
         [s EXCEPT !.at = w, !.room = n, !.got = q] \in Sockets
  OBVIOUS
<1>11. \A t \in 0 .. 1, n \in Nat :
         [s EXCEPT !.at = w, !.tries = t, !.chunks = n] \in Sockets
  OBVIOUS
<1>12. \A t \in 0 .. 1, m \in Nat, n \in Nat :
         [s EXCEPT !.at = w, !.tries = t, !.acked = m, !.chunks = n] \in Sockets
  OBVIOUS
<1> QED
  BY <1>1, <1>2, <1>3, <1>4, <1>6, <1>7, <1>8, <1>9, <1>10, <1>11, <1>12

(* Changing one socket to another with the same id. *)
LEMMA Changed ==
  ASSUME SockOK, NEW h \in Handles, sock[h].at # "none",
         NEW s \in Sockets, s.id = sock[h].id, s.at # "none",
         sock' = [sock EXCEPT ![h] = s]
  PROVE  SockOK' /\ KeepsIds
  BY DEF SockOK, KeepsIds, At

LEMMA Went ==
  ASSUME SockOK, NEW h \in Handles, sock[h].at # "none", NEW w \in Places \ {"none"},
         Goes(h, w)
  PROVE  SockOK' /\ KeepsIds
<1> DEFINE s == [sock[h] EXCEPT !.at = w]
<1>1. sock[h] \in Sockets
  BY DEF SockOK
<1>2. s \in Sockets
  BY <1>1, Fields
<1>3. s.id = sock[h].id /\ s.at = w
  BY <1>1 DEF Sockets
<1>4. sock' = [sock EXCEPT ![h] = s]
  BY DEF Goes
<1> QED
  BY <1>2, <1>3, <1>4, Changed

(* A socket that is given back. *)
LEMMA NoSocketType == NoSocket \in Sockets /\ NoSocket.at = "none" /\ NoSocket.id = NoId
  BY DEF NoSocket, Sockets, Places

LEMMA Dropped ==
  ASSUME SockOK, NEW h \in Handles, sock' = [sock EXCEPT ![h] = NoSocket]
  PROVE  SockOK'
  BY NoSocketType, Numbers DEF SockOK, At

-----------------------------------------------------------------------------
(* Sending a command to the radio. *)
RadioOK == radio \in {c \in Commands : c = Idle \/ (c.op # "idle" /\ c.id \in Ids)}

LEMMA TellType ==
  ASSUME RadioOK, NEW op \in {"connect", "close", "send"}, NEW i \in Ids,
         NEW l \in Links \cup {NoLink}, Tell(Command(op, i, l))
  PROVE  RadioOK'
<1>1. CASE radio = Idle
  <2>1. radio' = Command(op, i, l)
    BY <1>1 DEF Tell, Idle, Command
  <2> QED
    BY <2>1 DEF Command, Commands, RadioOK
<1>2. CASE radio # Idle /\ radio.op = "data"
  <2>1. radio' = [radio EXCEPT !.op = "sending"]
    BY <1>2 DEF Tell
  <2> QED
    BY <1>2, <2>1 DEF RadioOK, Commands
<1>3. CASE radio # Idle /\ radio.op # "data"
  <2>1. radio' = radio
    BY <1>3 DEF Tell
  <2> QED
    BY <2>1 DEF RadioOK
<1> QED
  BY <1>1, <1>2, <1>3

(* The radio goes on with the command it works on. *)
LEMMA OpType ==
  ASSUME RadioOK, radio.op # "idle", NEW op \in {"data", "sending"},
         radio' = [radio EXCEPT !.op = op]
  PROVE  RadioOK'
<1>1. radio \in Commands /\ radio.id \in Ids
  BY DEF RadioOK, Idle, Command
<1>2. radio' \in Commands /\ radio'.op = op /\ radio'.id = radio.id
  BY <1>1 DEF Commands
<1> QED
  BY <1>1, <1>2 DEF RadioOK

LEMMA TailType ==
  ASSUME rx \in Seq(Lines), rx # <<>>
  PROVE  Tail(rx) \in Seq(Lines) /\ Head(rx) \in Lines
  OBVIOUS

PacketsOK == packets \in [Ids -> Seq({p \in Lines : p.kind = "IPD"})]

LEMMA ClearType ==
  ASSUME PacketsOK, NEW i, Clear(i)
  PROVE  PacketsOK'
<1>1. <<>> \in Seq({p \in Lines : p.kind = "IPD"})
  OBVIOUS
<1> QED
  BY <1>1 DEF PacketsOK, Clear

-----------------------------------------------------------------------------
LEMMA InitType == Init => TypeOK
<1> SUFFICES ASSUME Init PROVE TypeOK
  OBVIOUS
<1>1. sock \in [Handles -> Sockets] /\ \A h \in Handles : sock[h].id = NoId /\ sock[h].at = "none"
  BY NoSocketType DEF Init
<1>2. radio = Idle /\ Idle \in Commands
  BY DEF Init, Idle, Commands, Command
<1>3. packets \in [Ids -> Seq({p \in Lines : p.kind = "IPD"})] /\ rx \in Seq(Lines)
  BY DEF Init
<1> QED
  BY <1>1, <1>2, <1>3, Numbers, CountAssumption, BoundAssumption DEF Init, TypeOK, At

(* What TypeOK says apart from the sockets. *)
RestOK ==
    /\ ids \subseteq Ids /\ idBits \subseteq Ids /\ idBitsClose \subseteq Ids
    /\ found \in [Handles -> Ids \cup {NoId}]
    /\ PacketsOK
    /\ smutex \in Handles \cup {Nobody}
    /\ rx \in Seq(Lines)
    /\ RadioOK
    /\ conn \in [Ids -> Links \cup {NoLink}]
    /\ attempts \in 0 .. Attempts
    /\ sent \in [Links -> Nat] /\ said \in [Links -> Nat] /\ heard \in [Links -> Nat]
    /\ late \in 0 .. Late

LEMMA Parts == TypeOK <=> SockOK /\ RestOK
  BY DEF TypeOK, SockOK, RestOK, PacketsOK, RadioOK
LEMMA PartsNext == TypeOK' <=> SockOK' /\ RestOK'
  BY DEF TypeOK, SockOK, RestOK, PacketsOK, RadioOK, At

(* The facts about a socket in use that the steps below need. *)
LEMMA InUse ==
  ASSUME SockOK, NEW h \in Handles, sock[h].at # "none"
  PROVE  /\ sock[h] \in Sockets /\ sock[h].id \in Ids
         /\ sock[h].link \in Links \cup {NoLink} /\ sock[h].asked \in Links \cup {NoLink}
         /\ sock[h].room \in Nat /\ sock[h].acked \in Nat /\ sock[h].chunks \in Nat
         /\ sock[h].got \in Seq(Bytes) /\ sock[h].ended \in BOOLEAN
  BY DEF SockOK, Sockets, At

(* A call whose place is named in the step is a call of a socket in use. *)
Step(h) ==
    \/ ReadLine(h) \/ ReadBadly(h)
    \/ Connect(h) \/ ConnectDone(h) \/ ConnectFails(h)
    \/ Send(h) \/ Prompted(h) \/ SendDone(h) \/ SendFails(h)
    \/ Recv(h) \/ TakePacket(h) \/ TakePart(h) \/ RecvSome(h)
    \/ (\E last \in BOOLEAN : RecvNone(h, last))
    \/ CloseTry(h) \/ CloseFails(h)

LEMMA GivesUpLate ==
  ASSUME late \in 0 .. Late, NEW h, NEW w, GivesUp(h, w)
  PROVE  late' \in 0 .. Late /\ sock[h].at = w
  BY BoundAssumption DEF GivesUp, At

LEMMA AnsweredLine ==
  ASSUME rx \in Seq(Lines), NEW h, NEW w, Answered(h, w)
  PROVE  rx' \in Seq(Lines) /\ sock[h].at = w
  BY TailType DEF Answered, Wanted, At

LEMMA HeadPacket ==
  ASSUME PacketsOK, NEW h, sock[h].id \in Ids, Mine(h) # <<>>
  PROVE  /\ Head(Mine(h)) \in Lines /\ Head(Mine(h)).kind = "IPD"
         /\ Head(Mine(h)).link \in Links \cup {NoLink}
         /\ Tail(Mine(h)) \in Seq({p \in Lines : p.kind = "IPD"})
<1>1. Mine(h) \in Seq({p \in Lines : p.kind = "IPD"})
  BY DEF Mine, PacketsOK
<1>2. Head(Mine(h)) \in {p \in Lines : p.kind = "IPD"}
  BY <1>1
<1>3. Tail(Mine(h)) \in Seq({p \in Lines : p.kind = "IPD"})
  BY <1>1
<1> QED
  BY <1>2, <1>3 DEF Lines

LEMMA PieceType ==
  ASSUME NEW s \in Seq(Bytes), NEW p \in Lines, p.link \in Links \cup {NoLink}, NEW n \in Nat
  PROVE  s \o Piece(p, n) \in Seq(Bytes)
<1>1. \A i \in 1 .. n : <<p.link, p.from + i>> \in Bytes
  BY DEF Lines, Bytes
<1>2. Piece(p, n) \in [1 .. n -> Bytes]
  BY <1>1 DEF Piece
<1> QED
  BY <1>2, SeqDef, ConcatProperties

(* What a step of a call leaves of the sockets. *)
LEMMA StepSock ==
  ASSUME SockOK, RestOK, NEW h \in Handles, Step(h)
  PROVE  SockOK' /\ KeepsIds
<1>1. CASE ReadLine(h) \/ ReadBadly(h)
  BY <1>1 DEF ReadLine, ReadBadly, SockOK, KeepsIds, At
<1>2. CASE Connect(h)
  <2> DEFINE s == [sock[h] EXCEPT !.at = "connecting", !.asked = attempts']
  <2>1. sock[h].at = "rest" /\ attempts' \in Links
    BY <1>2, CountAssumption DEF Connect, At, RestOK, Links
  <2>2. sock[h] \in Sockets
    BY <2>1, InUse
  <2>3. s \in Sockets
    BY <2>1, <2>2, Fields DEF Places
  <2>4. s.at = "connecting" /\ s.id = sock[h].id
    BY <2>2 DEF Sockets
  <2>5. sock' = [sock EXCEPT ![h] = s]
    BY <1>2 DEF Connect
  <2> QED
    BY <2>1, <2>3, <2>4, <2>5, Changed
<1>3. CASE ConnectDone(h)
  <2> DEFINE s == [sock[h] EXCEPT !.at = "rest", !.link = sock[h].asked]
  <2>1. sock[h].at = "connecting"
    BY <1>3 DEF ConnectDone, Answered, At
  <2>2. sock[h] \in Sockets /\ sock[h].asked \in Links \cup {NoLink}
    BY <2>1, InUse
  <2>3. s \in Sockets
    BY <2>2, Fields DEF Places
  <2>4. s.at = "rest" /\ s.id = sock[h].id
    BY <2>2 DEF Sockets
  <2>5. sock' = [sock EXCEPT ![h] = s]
    BY <1>3 DEF ConnectDone
  <2> QED
    BY <2>1, <2>3, <2>4, <2>5, Changed
<1>4. CASE ConnectFails(h)
  <2>1. sock[h].at = "connecting" /\ Goes(h, "rest")
    BY <1>4 DEF ConnectFails, GivesUp, At
  <2> QED
    BY <2>1, Went DEF Places
<1>5. CASE Send(h)
  <2>1. PICK n \in 1 .. Left :
          sock' = [sock EXCEPT ![h].at = "asking", ![h].tries = 0, ![h].chunks = n]
    BY <1>5 DEF Send
  <2> DEFINE s == [sock[h] EXCEPT !.at = "asking", !.tries = 0, !.chunks = n]
  <2>2. sock[h].at = "rest" /\ n \in Nat /\ 0 \in 0 .. 1
    BY <1>5 DEF Send, At
  <2>3. sock[h] \in Sockets
    BY <2>2, InUse
  <2>4. s \in Sockets
    BY <2>2, <2>3, Fields DEF Places
  <2>5. s.at = "asking" /\ s.id = sock[h].id
    BY <2>3 DEF Sockets
  <2>6. sock' = [sock EXCEPT ![h] = s]
    BY <2>1
  <2> QED
    BY <2>2, <2>4, <2>5, <2>6, Changed
<1>6. CASE Prompted(h)
  <2>1. sock[h].at = "asking" /\ Goes(h, "writing")
    BY <1>6 DEF Prompted, Answered, At
  <2> QED
    BY <2>1, Went DEF Places
<1>7. CASE SendDone(h)
  <2> DEFINE over == sock[h].chunks <= 1 \/ Gone(sock[h].id)
             w == IF over THEN "rest" ELSE "asking"
             m == sock[h].acked + 1
             n == IF over THEN 0 ELSE sock[h].chunks - 1
             s == [sock[h] EXCEPT !.at = w, !.tries = 0, !.acked = m, !.chunks = n]
  <2>1. sock[h].at = "writing"
    BY <1>7 DEF SendDone, Answered, At
  <2>2. sock[h] \in Sockets /\ sock[h].acked \in Nat /\ sock[h].chunks \in Nat
    BY <2>1, InUse
  <2>3. w \in Places \ {"none"} /\ m \in Nat /\ n \in Nat /\ 0 \in 0 .. 1
    BY <2>2 DEF Places
  <2>4. sock' = [sock EXCEPT ![h] = s]
    BY <1>7 DEF SendDone
  <2> HIDE DEF w, m, n
  <2>5. s \in Sockets
    BY <2>2, <2>3, Fields
  <2>6. s.at = w /\ s.id = sock[h].id
    BY <2>2 DEF Sockets
  <2> QED
    BY <2>1, <2>3, <2>4, <2>5, <2>6, Changed
<1>8. CASE SendFails(h)
  <2> DEFINE w == IF sock[h].tries = 1 \/ Gone(sock[h].id) THEN "rest" ELSE "asking"
  <2> DEFINE s == [sock[h] EXCEPT !.at = w, !.tries = 1]
  <2>1. sock[h].at # "none" /\ w \in Places /\ w # "none"
    BY <1>8 DEF SendFails, GivesUp, At, Places
  <2>2. sock[h] \in Sockets
    BY <2>1, InUse
  <2> HIDE DEF w
  <2>3. 1 \in 0 .. 1
    OBVIOUS
  <2>4. s \in Sockets
    BY <2>1, <2>2, <2>3, Fields
  <2>5. s.at = w /\ s.id = sock[h].id
    BY <2>2 DEF Sockets
  <2>6. sock' = [sock EXCEPT ![h] = s]
    BY <1>8 DEF SendFails, w
  <2> QED
    BY <2>1, <2>4, <2>5, <2>6, Changed
<1>9. CASE Recv(h)
  <2>1. PICK amount \in 1 .. Traffic :
          sock' = [sock EXCEPT ![h].at = "polling", ![h].room = amount]
    BY <1>9 DEF Recv
  <2> DEFINE s == [sock[h] EXCEPT !.at = "polling", !.room = amount]
  <2>2. sock[h].at = "rest" /\ amount \in Nat
    BY <1>9 DEF Recv, At
  <2>3. sock[h] \in Sockets
    BY <2>2, InUse
  <2>4. s \in Sockets
    BY <2>2, <2>3, Fields DEF Places
  <2>5. s.at = "polling" /\ s.id = sock[h].id
    BY <2>3 DEF Sockets
  <2>6. sock' = [sock EXCEPT ![h] = s]
    BY <2>1
  <2> QED
    BY <2>2, <2>4, <2>5, <2>6, Changed
<1>10. CASE TakePacket(h)
  <2>1. sock[h].at \in {"polling", "taken"} /\ Mine(h) # <<>>
    BY <1>10 DEF TakePacket, Taking, Polled, At
  <2>2. /\ sock[h] \in Sockets /\ sock[h].id \in Ids /\ sock[h].room \in Nat
        /\ sock[h].got \in Seq(Bytes)
    BY <2>1, InUse
  <2> DEFINE p == Head(Mine(h))
             q == sock[h].got \o Piece(p, Size(p))
             s == [sock[h] EXCEPT !.at = "taken", !.room = sock[h].room - Size(p),
                                  !.got = q]
  <2>3. p \in Lines /\ p.link \in Links \cup {NoLink}
    BY <2>1, <2>2, HeadPacket DEF RestOK
  <2>4. Size(p) \in Nat /\ Size(p) <= sock[h].room
    BY <1>10, <2>3 DEF TakePacket, Lines, Size
  <2>5. q \in Seq(Bytes)
    BY <2>2, <2>3, <2>4, PieceType
  <2>6. sock[h].room - Size(p) \in Nat
    BY <2>2, <2>4
  <2>7. sock' = [sock EXCEPT ![h] = s]
    BY <1>10 DEF TakePacket
  <2>8. s.at = "taken" /\ s.id = sock[h].id
    BY <2>2 DEF Sockets
  <2> HIDE DEF q
  <2>9. s \in Sockets
    BY <2>2, <2>5, <2>6, Fields DEF Places
  <2> QED
    BY <2>1, <2>7, <2>8, <2>9, Changed
<1>11. CASE TakePart(h)
  <2>1. sock[h].at \in {"polling", "taken"} /\ Mine(h) # <<>>
    BY <1>11 DEF TakePart, Taking, Polled, At
  <2>2. /\ sock[h] \in Sockets /\ sock[h].id \in Ids /\ sock[h].room \in Nat
        /\ sock[h].got \in Seq(Bytes)
    BY <2>1, InUse
  <2> DEFINE p == Head(Mine(h))
             q == sock[h].got \o Piece(p, sock[h].room)
             s == [sock[h] EXCEPT !.at = "rest", !.got = q]
  <2>3. p \in Lines /\ p.link \in Links \cup {NoLink}
    BY <2>1, <2>2, HeadPacket DEF RestOK
  <2>4. q \in Seq(Bytes)
    BY <2>2, <2>3, PieceType
  <2>5. sock' = [sock EXCEPT ![h] = s]
    BY <1>11 DEF TakePart
  <2>6. s.at = "rest" /\ s.id = sock[h].id
    BY <2>2 DEF Sockets
  <2> HIDE DEF q
  <2>7. s \in Sockets
    BY <2>2, <2>4, Fields DEF Places
  <2> QED
    BY <2>1, <2>5, <2>6, <2>7, Changed
<1>12. CASE RecvSome(h)
  <2>1. sock[h].at = "taken" /\ Goes(h, "rest")
    BY <1>12 DEF RecvSome, At
  <2> QED
    BY <2>1, Went DEF Places
<1>13. CASE \E last \in BOOLEAN : RecvNone(h, last)
  <2>1. PICK last \in BOOLEAN : RecvNone(h, last)
    BY <1>13
  <2> DEFINE b == sock[h].ended \/ (last /\ Gone(sock[h].id))
  <2> DEFINE s == [sock[h] EXCEPT !.at = "rest", !.ended = b]
  <2>2. sock[h].at = "polling"
    BY <2>1 DEF RecvNone, Polled, At
  <2>3. sock[h] \in Sockets
    BY <2>2, InUse
  <2>4. b \in BOOLEAN
    OBVIOUS
  <2>5. sock' = [sock EXCEPT ![h] = s]
    BY <2>1, Zenon DEF RecvNone
  <2> HIDE DEF b
  <2>6. s \in Sockets
    BY <2>3, <2>4, Fields DEF Places
  <2>7. s.at = "rest" /\ s.id = sock[h].id
    BY <2>3 DEF Sockets
  <2> QED
    BY <2>2, <2>5, <2>6, <2>7, Changed
<1>14. CASE CloseTry(h)
  <2> DEFINE t == IF At(h, "rest") THEN 0 ELSE 1
  <2> DEFINE s == [sock[h] EXCEPT !.at = "closing", !.tries = t]
  <2>1. sock[h].at # "none" /\ t \in 0 .. 1
    BY <1>14 DEF CloseTry, At
  <2>2. sock[h] \in Sockets
    BY <2>1, InUse
  <2>3. sock' = [sock EXCEPT ![h] = s]
    BY <1>14, <2>2 DEF CloseTry, Sockets
  <2> HIDE DEF t
  <2>4. s \in Sockets
    BY <2>1, <2>2, Fields DEF Places
  <2>5. s.at = "closing" /\ s.id = sock[h].id
    BY <2>2 DEF Sockets
  <2> QED
    BY <2>1, <2>3, <2>4, <2>5, Changed
<1>15. CASE CloseFails(h)
  <2>1. PICK w \in {"again", "giveup"} : Goes(h, w)
    BY <1>15 DEF CloseFails
  <2>2. sock[h].at = "closing"
    BY <1>15 DEF CloseFails, GivesUp, At
  <2> QED
    BY <2>1, <2>2, Went DEF Places
<1> QED
  BY <1>1, <1>2, <1>3, <1>4, <1>5, <1>6, <1>7, <1>8, <1>9, <1>10, <1>11, <1>12,
     <1>13, <1>14, <1>15 DEF Step

LEMMA TriesType ==
  ASSUME SockOK, RestOK, NEW h \in Handles, sock[h].at # "none",
         NEW over \in BOOLEAN, TrySend(h, over)
  PROVE  RadioOK' /\ smutex' \in Handles \cup {Nobody}
<1>1. sock[h].id \in Ids /\ sock[h].link \in Links \cup {NoLink}
  BY InUse
<1>2. CASE over
  BY <1>2 DEF TrySend, RestOK, RadioOK
<1>3. CASE ~over
  BY <1>1, <1>3, TellType DEF TrySend, RestOK
<1> QED
  BY <1>2, <1>3

(* What a step of a call leaves of the rest. *)
LEMMA StepRest ==
  ASSUME SockOK, RestOK, NEW h \in Handles, Step(h)
  PROVE  RestOK'
<1> USE DEF RestOK, line, world
<1>16. CASE ReadBadly(h)
  <2> DEFINE p == Head(rx)
             q == [p EXCEPT !.link = NoLink]
  <2>1. p \in Lines /\ p.kind = "IPD" /\ rx' \in Seq(Lines)
    BY <1>16, TailType DEF ReadBadly
  <2>2. q \in Lines /\ q.kind = "IPD" /\ p.id \in Ids
    BY <2>1 DEF Lines
  <2>3. PacketsOK'
    <3> HIDE DEF q
    <3>1. CASE packets' = [packets EXCEPT ![p.id] = Append(@, q)]
      BY <2>2, <3>1, AppendProperties DEF PacketsOK
    <3>2. CASE packets' = packets
      BY <3>2 DEF PacketsOK
    <3> QED
      BY <1>16, <3>1, <3>2 DEF ReadBadly, q
  <2>4. late' \in 0 .. Late
    BY <1>16, BoundAssumption DEF ReadBadly
  <2> QED
    BY <1>16, <2>1, <2>3, <2>4 DEF ReadBadly, RadioOK
<1>1. CASE ReadLine(h)
  <2>1. Head(rx) \in Lines /\ rx' \in Seq(Lines)
    BY <1>1, TailType DEF ReadLine
  <2>2. idBits' \subseteq Ids /\ idBitsClose' \subseteq Ids
    BY <1>1, <2>1 DEF ReadLine, Handle, Lines
  <2>3. PacketsOK'
    <3>1. CASE Head(rx).kind = "IPD"
      <4>1. Head(rx).id \in Ids /\ Head(rx) \in {p \in Lines : p.kind = "IPD"}
        BY <2>1, <3>1 DEF Lines
      <4>2. packets' = [packets EXCEPT ![Head(rx).id] = Append(@, Head(rx))]
        BY <1>1, <3>1 DEF ReadLine, Handle
      <4> QED
        BY <4>1, <4>2, AppendProperties DEF PacketsOK
    <3>2. CASE Head(rx).kind # "IPD"
      BY <1>1, <3>2 DEF ReadLine, Handle, PacketsOK
    <3> QED
      BY <3>1, <3>2
  <2> QED
    BY <1>1, <2>1, <2>2, <2>3 DEF ReadLine, RadioOK
<1>2. CASE Connect(h)
  <2>1. sock[h].id \in Ids /\ attempts' \in Links /\ attempts' \in 0 .. Attempts
    BY <1>2, InUse, CountAssumption DEF Connect, At, Links
  <2>2. RadioOK'
    BY <1>2, <2>1, TellType DEF Connect
  <2> QED
    BY <1>2, <2>1, <2>2 DEF Connect, Lock, PacketsOK
<1>3. CASE ConnectDone(h)
  <2>1. rx' \in Seq(Lines)
    BY <1>3, AnsweredLine DEF ConnectDone
  <2>2. PacketsOK'
    BY <1>3, ClearType DEF ConnectDone
  <2> QED
    BY <1>3, <2>1, <2>2 DEF ConnectDone, Unlock, RadioOK
<1>4. CASE ConnectFails(h)
  <2>1. late' \in 0 .. Late
    BY <1>4, GivesUpLate DEF ConnectFails
  <2>2. PacketsOK'
    BY <1>4, ClearType DEF ConnectFails
  <2> QED
    BY <1>4, <2>1, <2>2 DEF ConnectFails, Unlock, RadioOK
<1>5. CASE Send(h)
  <2>1. sock[h].id \in Ids /\ sock[h].link \in Links
    BY <1>5, InUse DEF Send, At
  <2>2. RadioOK'
    BY <1>5, <2>1, TellType DEF Send, TrySend
  <2>3. said' \in [Links -> Nat]
    BY <1>5, <2>1 DEF Send
  <2> QED
    BY <1>5, <2>2, <2>3 DEF Send, TrySend, PacketsOK
<1>6. CASE Prompted(h)
  <2>1. rx' \in Seq(Lines)
    BY <1>6, AnsweredLine DEF Prompted
  <2>2. RadioOK'
    <3>1. CASE radio.op = "data"
      <4>1. radio' = [radio EXCEPT !.op = "sending"]
        BY <1>6, <3>1 DEF Prompted
      <4> QED
        BY <3>1, <4>1, OpType
    <3>2. CASE radio.op # "data"
      BY <1>6, <3>2 DEF Prompted, RadioOK
    <3> QED
      BY <3>1, <3>2
  <2> QED
    BY <1>6, <2>1, <2>2 DEF Prompted, PacketsOK
<1>7. CASE SendDone(h)
  <2>1. rx' \in Seq(Lines) /\ sock[h].at = "writing"
    BY <1>7, AnsweredLine DEF SendDone
  <2>2. PICK over \in BOOLEAN : TrySend(h, over)
    BY <1>7 DEF SendDone
  <2>3. RadioOK' /\ smutex' \in Handles \cup {Nobody}
    BY <2>1, <2>2, TriesType
  <2> QED
    BY <1>7, <2>1, <2>3 DEF SendDone, PacketsOK
<1>8. CASE SendFails(h)
  <2>1. late' \in 0 .. Late /\ sock[h].at \in {"asking", "writing"}
    BY <1>8, GivesUpLate DEF SendFails
  <2>2. PICK over \in BOOLEAN : TrySend(h, over)
    BY <1>8 DEF SendFails
  <2>3. RadioOK' /\ smutex' \in Handles \cup {Nobody}
    BY <2>1, <2>2, TriesType
  <2> QED
    BY <1>8, <2>1, <2>3 DEF SendFails, PacketsOK
<1>9. CASE Recv(h)
  BY <1>9 DEF Recv, Lock, PacketsOK, RadioOK
<1>10. CASE TakePacket(h)
  <2>1. sock[h].id \in Ids /\ Mine(h) # <<>>
    BY <1>10, InUse DEF TakePacket, Taking, Polled, At
  <2>2. Tail(Mine(h)) \in Seq({p \in Lines : p.kind = "IPD"})
    BY <2>1, HeadPacket
  <2>3. packets' = [packets EXCEPT ![sock[h].id] = Tail(Mine(h))]
    BY <1>10, <2>1 DEF TakePacket, Mine, PacketsOK
  <2>4. PacketsOK'
    BY <2>2, <2>3 DEF PacketsOK
  <2> QED
    BY <1>10, <2>4 DEF TakePacket, RadioOK
<1>11. CASE TakePart(h)
  <2>1. sock[h].id \in Ids /\ Mine(h) # <<>> /\ sock[h].room \in Nat
    BY <1>11, InUse DEF TakePart, Taking, Polled, At
  <2> DEFINE p == Head(Mine(h))
             q == [p EXCEPT !.from = p.from + sock[h].room]
  <2>2. p \in Lines /\ p.kind = "IPD"
    BY <2>1, HeadPacket
  <2>3. q \in Lines /\ q.kind = "IPD"
    <3>1. p.from \in Nat /\ p.to \in Nat /\ p.from + sock[h].room <= p.to
      BY <1>11, <2>1, <2>2 DEF TakePart, Size, Lines
    <3>2. p.from + sock[h].room \in Nat
      BY <2>1, <3>1
    <3> QED
      BY <2>2, <3>1, <3>2 DEF Lines
  <2>4. packets' = [packets EXCEPT ![sock[h].id] = [Mine(h) EXCEPT ![1] = q]]
    BY <1>11, <2>1 DEF TakePart, Mine, PacketsOK
  <2>5. [Mine(h) EXCEPT ![1] = q] \in Seq({r \in Lines : r.kind = "IPD"})
    <3> HIDE DEF q
    <3>1. Mine(h) \in Seq({r \in Lines : r.kind = "IPD"})
      BY <2>1 DEF Mine, PacketsOK
    <3>2. 1 \in 1 .. Len(Mine(h))
      BY <2>1, <3>1
    <3> QED
      BY <2>3, <3>1, <3>2, ExceptSeq
  <2>6. PacketsOK'
    <3> HIDE DEF q
    <3> QED
      BY <2>4, <2>5 DEF PacketsOK
  <2> QED
    BY <1>11, <2>6 DEF TakePart, Unlock, RadioOK
<1>12. CASE RecvSome(h)
  BY <1>12 DEF RecvSome, Unlock, PacketsOK, RadioOK
<1>13. CASE \E last \in BOOLEAN : RecvNone(h, last)
  BY <1>13 DEF RecvNone, Unlock, PacketsOK, RadioOK
<1>14. CASE CloseTry(h)
  <2>1. sock[h].id \in Ids /\ sock[h].link \in Links \cup {NoLink}
    BY <1>14, InUse DEF CloseTry, At
  <2>2. RadioOK'
    BY <1>14, <2>1, TellType DEF CloseTry
  <2> QED
    BY <1>14, <2>2 DEF CloseTry, Lock, PacketsOK
<1>15. CASE CloseFails(h)
  <2>1. late' \in 0 .. Late
    BY <1>15, GivesUpLate DEF CloseFails
  <2> QED
    BY <1>15, <2>1 DEF CloseFails, Unlock, PacketsOK, RadioOK
<1> QED
  BY <1>1, <1>2, <1>3, <1>4, <1>5, <1>6, <1>7, <1>8, <1>9, <1>10, <1>11, <1>12,
     <1>13, <1>14, <1>15, <1>16 DEF Step

(* Finding an id changes nothing else. *)
LEMMA FindStep ==
  ASSUME SockOK, RestOK, NEW h \in Handles, FindId(h)
  PROVE  /\ SockOK' /\ RestOK'
         /\ \E i \in Ids \ ids : found' = [found EXCEPT ![h] = i]
<1>1. PICK i \in Ids \ ids : found' = [found EXCEPT ![h] = i]
  BY DEF FindId, Free
<1>2. found' \in [Handles -> Ids \cup {NoId}]
  BY <1>1 DEF RestOK
<1>3. SockOK'
  BY DEF FindId, SockOK, At
<1>4. RestOK'
  BY <1>2 DEF FindId, RestOK, PacketsOK, RadioOK, line, world
<1> QED
  BY <1>1, <1>3, <1>4

(* A call that has found an id has no socket yet. *)
Finding == \A h \in Handles : found[h] # NoId => sock[h].at = "none"

(* Giving out an id and taking it back. *)
LEMMA OpenStep ==
  ASSUME SockOK, RestOK, Finding, NEW h \in Handles, SocketOpen(h)
  PROVE  /\ SockOK' /\ RestOK'
         /\ found[h] \in Ids /\ ids' = ids \cup {found[h]}
         /\ found' = [found EXCEPT ![h] = NoId]
         /\ sock[h].at = "none" /\ sock'[h].at = "rest" /\ sock'[h].id = found[h]
         /\ \A g \in Handles \ {h} : sock'[g] = sock[g]
<1> DEFINE i == found[h]
           s == [sock[h] EXCEPT !.at = "rest", !.id = i]
<1>1. i \in Ids
  BY DEF SocketOpen, RestOK
<1>2. sock[h] \in Sockets /\ sock[h].at = "none"
  BY DEF SockOK, Finding, SocketOpen
<1>3. sock' = [sock EXCEPT ![h] = s]
  BY DEF SocketOpen
<1>4. ids' = ids \cup {i} /\ found' = [found EXCEPT ![h] = NoId]
  BY DEF SocketOpen
<1>5. RestOK'
  BY <1>1, <1>4 DEF SocketOpen, RestOK, PacketsOK, RadioOK, line, world
<1> HIDE DEF i
<1>6. s \in Sockets
  BY <1>1, <1>2, Fields DEF Places
<1>7. s.at = "rest" /\ s.id = i
  BY <1>2 DEF Sockets
<1>8. SockOK'
  BY <1>1, <1>3, <1>6, <1>7 DEF SockOK, At
<1>9. sock'[h] = s /\ \A g \in Handles \ {h} : sock'[g] = sock[g]
  BY <1>3 DEF SockOK
<1> QED
  BY <1>1, <1>2, <1>4, <1>5, <1>7, <1>8, <1>9 DEF i

Leaves(h) == CloseGone(h) \/ CloseDone(h) \/ CloseGivesUp(h)

LEMMA LeaveStep ==
  ASSUME SockOK, RestOK, NEW h \in Handles, Leaves(h)
  PROVE  /\ SockOK' /\ RestOK' /\ found' = found
         /\ ids' = ids \ {sock[h].id}
         /\ sock[h].at # "none" /\ sock'[h].at = "none"
         /\ \A g \in Handles \ {h} : sock'[g] = sock[g]
<1>1. sock' = [sock EXCEPT ![h] = NoSocket] /\ ids' = ids \ {sock[h].id}
  BY DEF Leaves, CloseGone, CloseDone, CloseGivesUp, Release
<1>6. found' = found
  BY DEF Leaves, CloseGone, CloseDone, CloseGivesUp
<1>2. sock[h].at # "none"
  BY DEF Leaves, CloseGone, CloseDone, CloseGivesUp, Answered, At
<1>3. SockOK'
  BY <1>1, Dropped
<1>4. RestOK'
  <2> USE DEF RestOK, line, world
  <2>1. CASE CloseGone(h)
    <3>1. PacketsOK'
      BY <2>1, ClearType DEF CloseGone, Release
    <3> QED
      BY <2>1, <3>1 DEF CloseGone, Release, RadioOK
  <2>2. CASE CloseDone(h)
    <3>1. PacketsOK'
      BY <2>2, ClearType DEF CloseDone, Release
    <3>2. rx' \in Seq(Lines)
      BY <2>2, AnsweredLine DEF CloseDone
    <3> QED
      BY <2>2, <3>1, <3>2 DEF CloseDone, Release, Unlock, RadioOK
  <2>3. CASE CloseGivesUp(h)
    BY <2>3 DEF CloseGivesUp, PacketsOK, RadioOK
  <2> QED
    BY <2>1, <2>2, <2>3 DEF Leaves
<1>5. sock'[h].at = "none" /\ \A g \in Handles \ {h} : sock'[g] = sock[g]
  BY <1>1, NoSocketType DEF SockOK
<1> QED
  BY <1>1, <1>2, <1>3, <1>4, <1>5, <1>6

-----------------------------------------------------------------------------
(* The radio and the peers change the line and the world only. *)
LEMMA LineTypes ==
  ASSUME NEW i \in Ids
  PROVE  /\ Report("CONNECT", i) \in Lines /\ Report("CLOSED", i) \in Lines
         /\ Reply("OK") \in Lines /\ Reply("PROMPT") \in Lines
         /\ Reply("SEND_OK") \in Lines
<1>1. ASSUME NEW k \in {"CONNECT", "CLOSED"} PROVE Report(k, i) \in Lines
  <2> DEFINE p == Report(k, i)
  <2>1. p.kind = k /\ p.id = i /\ p.from = 0 /\ p.to = 0
    BY DEF Report, Line
  <2>2. p \in [kind : Kinds, id : Ids \cup {NoId}, link : Links \cup {NoLink},
               from : Nat, to : Nat]
    BY DEF Report, Line, Kinds
  <2> QED
    BY <2>1, <2>2 DEF Lines
<1>2. ASSUME NEW k \in {"OK", "PROMPT", "SEND_OK"} PROVE Reply(k) \in Lines
  <2>1. Reply(k).kind = k /\ Reply(k).from = 0 /\ Reply(k).to = 0
    BY DEF Reply, Line
  <2>2. Reply(k) \in [kind : Kinds, id : Ids \cup {NoId}, link : Links \cup {NoLink},
                      from : Nat, to : Nat]
    BY DEF Reply, Line, Kinds
  <2> QED
    BY <1>2, <2>1, <2>2 DEF Lines
<1> QED
  BY <1>1, <1>2

LEMMA IdleType == ASSUME radio' = Idle PROVE RadioOK'
  BY DEF RadioOK, Idle, Command, Commands

LEMMA RadioStep ==
  ASSUME SockOK, RestOK, Radio
  PROVE  SockOK' /\ RestOK' /\ UNCHANGED <<ids, found, sock>>
<1> USE DEF world, driver
<1>1. UNCHANGED <<driver, attempts, said, late>>
  BY DEF Radio, RadioConnects, RadioCloses, RadioPrompts, RadioSends, RadioRefuses,
         PeerSends, PeerCloses
<1>2. SockOK'
  BY <1>1 DEF SockOK, At
<1>3. PacketsOK'
  BY <1>1 DEF RestOK, PacketsOK
<1>4. CASE RadioConnects \/ RadioCloses \/ RadioSends \/ RadioPrompts \/ RadioRefuses
  <2>1. radio.op # "idle" /\ radio.id \in Ids /\ radio.link \in Links \cup {NoLink}
    <3>1. radio.op \in {"connect", "close", "send", "sending"}
      BY <1>4 DEF RadioConnects, RadioCloses, RadioSends, RadioPrompts, RadioRefuses
    <3>2. radio \in Commands /\ (radio = Idle \/ radio.id \in Ids)
      BY DEF RestOK, RadioOK
    <3>3. radio # Idle
      BY <3>1 DEF Idle, Command
    <3> QED
      BY <3>1, <3>2, <3>3 DEF Commands
  <2>2. rx' \in Seq(Lines)
    <3>1. ASSUME NEW l \in Lines PROVE Append(rx, l) \in Seq(Lines)
      BY AppendProperties DEF RestOK
    <3>2. ASSUME NEW k \in Lines, NEW l \in Lines PROVE rx \o <<k, l>> \in Seq(Lines)
      BY ConcatProperties DEF RestOK
    <3>3. CASE RadioConnects \/ RadioCloses
      <4>1. /\ Report("CONNECT", radio.id) \in Lines /\ Report("CLOSED", radio.id) \in Lines
            /\ Reply("OK") \in Lines
        BY <2>1, LineTypes
      <4> QED
        BY <3>2, <3>3, <4>1 DEF RadioConnects, RadioCloses
    <3>4. CASE RadioSends \/ RadioPrompts \/ RadioRefuses
      BY <2>1, <3>1, <3>4, LineTypes DEF RadioSends, RadioPrompts, RadioRefuses, RestOK
    <3> QED
      BY <1>4, <3>3, <3>4
  <2>3. RadioOK'
    <3>1. CASE RadioPrompts
      BY <2>1, <3>1, OpType DEF RadioPrompts, RestOK
    <3>2. CASE ~RadioPrompts
      BY <1>4, <3>2, IdleType DEF RadioConnects, RadioCloses, RadioSends, RadioRefuses
    <3> QED
      BY <3>1, <3>2
  <2>4. conn' \in [Ids -> Links \cup {NoLink}]
    BY <1>4, <2>1 DEF RadioConnects, RadioCloses, RadioSends, RadioPrompts, RadioRefuses, RestOK
  <2>5. sent' \in [Links -> Nat]
    BY <1>4 DEF RadioConnects, RadioCloses, RadioSends, RadioPrompts, RadioRefuses, RestOK
  <2>6. heard' \in [Links -> Nat]
    <3>1. CASE RadioSends
      <4>1. conn[radio.id] \in Links /\ heard \in [Links -> Nat]
        BY <2>1, <3>1 DEF RadioSends, RestOK
      <4>2. heard' = [heard EXCEPT ![conn[radio.id]] = heard[conn[radio.id]] + 1]
        BY <3>1 DEF RadioSends
      <4> QED
        BY <4>1, <4>2
    <3>2. CASE ~RadioSends
      BY <1>4, <3>2 DEF RadioConnects, RadioCloses, RadioPrompts, RadioRefuses, RestOK
    <3> QED
      BY <3>1, <3>2
  <2> QED
    BY <1>1, <1>2, <1>3, <2>2, <2>3, <2>4, <2>5, <2>6 DEF RestOK
<1>5. ASSUME NEW i \in Ids, PeerSends(i) PROVE RestOK'
  <2>1. conn[i] \in Links /\ sent[conn[i]] \in Nat
    BY <1>5 DEF PeerSends, RestOK
  <2>2. PICK n \in 1 .. Left :
          /\ sent' = [sent EXCEPT ![conn[i]] = @ + n]
          /\ rx' = Append(rx, Line("IPD", i, conn[i], sent[conn[i]], sent[conn[i]] + n))
    BY <1>5 DEF PeerSends
  <2>3. sent[conn[i]] + n \in Nat /\ sent[conn[i]] <= sent[conn[i]] + n
    BY <2>1
  <2>4. Line("IPD", i, conn[i], sent[conn[i]], sent[conn[i]] + n) \in Lines
    BY <2>1, <2>3 DEF Line, Lines, Kinds
  <2>5. rx' \in Seq(Lines)
    BY <2>2, <2>4, AppendProperties DEF RestOK
  <2>6. sent' \in [Links -> Nat]
    BY <2>1, <2>2, <2>3 DEF RestOK
  <2> QED
    BY <1>1, <1>3, <1>5, <2>5, <2>6 DEF PeerSends, RestOK, RadioOK
<1>6. ASSUME NEW i \in Ids, PeerCloses(i) PROVE RestOK'
  <2>1. rx' \in Seq(Lines)
    BY <1>6, LineTypes, AppendProperties DEF PeerCloses, RestOK
  <2> QED
    BY <1>1, <1>3, <1>6, <2>1 DEF PeerCloses, RestOK, RadioOK
<1> QED
  BY <1>1, <1>2, <1>4, <1>5, <1>6 DEF Radio

-----------------------------------------------------------------------------
TypeInv == SockOK /\ RestOK /\ Finding

(* Only one thread opens sockets: the id it has found is still free. *)
Reserved ==
    /\ \A g, h \in Handles : found[g] # NoId /\ found[h] # NoId => g = h
    /\ \A h \in Handles : found[h] # NoId => found[h] \notin ids

IInv == SockOK /\ RestOK /\ Finding /\ Reserved /\ OneSocketPerId

LEMMA StepIds ==
  ASSUME NEW h \in Handles, Step(h)
  PROVE  ids' = ids /\ found' = found
BY DEF Step, ReadLine, ReadBadly, Connect, ConnectDone, ConnectFails, Send, Prompted,
   SendDone, SendFails, Recv, TakePacket, TakePart, RecvSome, RecvNone, CloseTry,
   CloseFails

LEMMA NextSteps ==
  ASSUME Next
  PROVE  \/ \E h \in Handles : Step(h) \/ FindId(h) \/ SocketOpen(h) \/ Leaves(h)
         \/ Radio
BY DEF Next, Opens, Sending, Receives, Closes, Step, Leaves

(* However many threads open sockets. *)
LEMMA TypeInductive == TypeInv /\ [Next]_vars => TypeInv'
<1> SUFFICES ASSUME TypeInv, [Next]_vars PROVE TypeInv'
  OBVIOUS
<1> USE DEF TypeInv
<1>1. ASSUME NEW h \in Handles, Step(h) PROVE TypeInv'
  BY <1>1, StepSock, StepRest, StepIds DEF Finding, KeepsIds
<1>2. ASSUME NEW h \in Handles, FindId(h) PROVE TypeInv'
  <2>1. PICK i \in Ids : found' = [found EXCEPT ![h] = i]
    BY <1>2, FindStep
  <2>2. sock' = sock /\ sock[h].at = "none"
    BY <1>2 DEF FindId, At
  <2>3. Finding'
    BY <2>1, <2>2 DEF Finding, RestOK
  <2> QED
    BY <1>2, <2>3, FindStep
<1>3. ASSUME NEW h \in Handles, SocketOpen(h) PROVE TypeInv'
  BY <1>3, OpenStep DEF Finding, RestOK
<1>4. ASSUME NEW h \in Handles, Leaves(h) PROVE TypeInv'
  BY <1>4, LeaveStep DEF Finding
<1>5. CASE Radio
  BY <1>5, RadioStep DEF Finding
<1>6. CASE UNCHANGED vars
  BY <1>6 DEF SockOK, RestOK, PacketsOK, RadioOK, Finding, At, vars, driver, line, world
<1> QED
  BY <1>1, <1>2, <1>3, <1>4, <1>5, <1>6, NextSteps

(* A step of a call that keeps the ids and the places of the sockets. *)
LEMMA KeepsOne ==
  ASSUME SockOK, OneSocketPerId, ids' = ids, KeepsIds
  PROVE  OneSocketPerId'
  BY DEF OneSocketPerId, KeepsIds, At

LEMMA OpensOne ==
  ASSUME IInv, NEW h \in Handles, SocketOpen(h)
  PROVE  OneSocketPerId' /\ Reserved'
<1> DEFINE i == found[h]
<1>1. /\ i \in Ids \ ids /\ ids' = ids \cup {i}
      /\ found' = [found EXCEPT ![h] = NoId]
      /\ sock[h].at = "none" /\ sock'[h].at # "none"
      /\ sock'[h].id = i
      /\ \A g \in Handles \ {h} : sock'[g] = sock[g]
  BY OpenStep DEF IInv, Reserved, SocketOpen
<1>2. \A g \in Handles : sock[g].at # "none" => sock[g].id \in ids /\ sock[g].id # i
  BY <1>1 DEF IInv, OneSocketPerId, At
<1>3. ids' = {sock'[g].id : g \in {k \in Handles : sock'[k].at # "none"}}
  BY <1>1, <1>2 DEF IInv, OneSocketPerId, At
<1>4. ASSUME NEW f \in Handles, NEW g \in Handles, f # g,
             sock'[f].at # "none", sock'[g].at # "none"
      PROVE  sock'[f].id # sock'[g].id
  BY <1>1, <1>2, <1>4 DEF IInv, OneSocketPerId, At
<1>5. Reserved'
  <2>1. \A g \in Handles : found'[g] = NoId
    BY <1>1 DEF IInv, Reserved, RestOK, SocketOpen
  <2> QED
    BY <2>1 DEF Reserved
<1> QED
  BY <1>3, <1>4, <1>5 DEF OneSocketPerId, At

LEMMA LeavesOne ==
  ASSUME IInv, NEW h \in Handles, Leaves(h)
  PROVE  OneSocketPerId' /\ Reserved'
<1>1. /\ ids' = ids \ {sock[h].id} /\ found' = found
      /\ sock[h].at # "none" /\ sock'[h].at = "none"
      /\ \A g \in Handles \ {h} : sock'[g] = sock[g]
  BY LeaveStep DEF IInv
<1>2. \A g \in Handles \ {h} : sock[g].at # "none" => sock[g].id # sock[h].id
  BY <1>1 DEF IInv, OneSocketPerId, At
<1>3. ids' = {sock'[g].id : g \in {k \in Handles : sock'[k].at # "none"}}
  BY <1>1, <1>2 DEF IInv, OneSocketPerId, At
<1>4. ASSUME NEW f \in Handles, NEW g \in Handles, f # g,
             sock'[f].at # "none", sock'[g].at # "none"
      PROVE  sock'[f].id # sock'[g].id
  BY <1>1, <1>4 DEF IInv, OneSocketPerId, At
<1>5. Reserved'
  BY <1>1 DEF IInv, Reserved
<1> QED
  BY <1>3, <1>4, <1>5 DEF OneSocketPerId, At

LEMMA InitOne == Init => IInv
<1> SUFFICES ASSUME Init PROVE IInv
  OBVIOUS
<1>1. SockOK /\ RestOK
  BY InitType, Parts
<1>2. \A h \in Handles : sock[h].at = "none" /\ found[h] = NoId
  BY NoSocketType DEF Init
<1>3. OneSocketPerId
  BY <1>2 DEF Init, OneSocketPerId, At
<1> QED
  BY <1>1, <1>2, <1>3 DEF IInv, Finding, Reserved

LEMMA Inductive == OneOpener /\ IInv /\ [Next]_vars => IInv'
<1> SUFFICES ASSUME OneOpener, IInv, [Next]_vars PROVE IInv'
  OBVIOUS
<1>1. TypeInv'
  BY TypeInductive DEF IInv, TypeInv
<1>2. ASSUME NEW h \in Handles, Step(h) PROVE OneSocketPerId' /\ Reserved'
  BY <1>2, StepSock, StepIds, KeepsOne DEF IInv, Reserved
<1>3. ASSUME NEW h \in Handles, FindId(h) PROVE OneSocketPerId' /\ Reserved'
  <2>1. PICK i \in Ids \ ids : found' = [found EXCEPT ![h] = i]
    BY <1>3, FindStep DEF IInv
  <2>2. \A g \in Handles : found[g] = NoId
    BY <1>3 DEF FindId
  <2>3. UNCHANGED <<ids, sock>>
    BY <1>3 DEF FindId
  <2>4. Reserved'
    BY <2>1, <2>2, <2>3 DEF IInv, RestOK, Reserved
  <2> QED
    BY <2>3, <2>4 DEF IInv, OneSocketPerId, At
<1>4. ASSUME NEW h \in Handles, SocketOpen(h) PROVE OneSocketPerId' /\ Reserved'
  BY <1>4, OpensOne
<1>5. ASSUME NEW h \in Handles, Leaves(h) PROVE OneSocketPerId' /\ Reserved'
  BY <1>5, LeavesOne
<1>6. ASSUME UNCHANGED <<ids, found, sock>> PROVE OneSocketPerId' /\ Reserved'
  <2>1. OneSocketPerId'
    BY <1>6 DEF IInv, OneSocketPerId, At
  <2>2. Reserved'
    BY <1>6 DEF IInv, Reserved
  <2> QED
    BY <2>1, <2>2
<1>7. Radio \/ UNCHANGED vars => UNCHANGED <<ids, found, sock>>
  BY RadioStep DEF IInv, vars, driver
<1> QED
  BY <1>1, <1>2, <1>3, <1>4, <1>5, <1>6, <1>7, NextSteps DEF IInv, TypeInv

LEMMA Invariant == OneOpener => (Spec => []IInv)
<1> SUFFICES ASSUME OneOpener PROVE Spec => []IInv
  OBVIOUS
<1>1. IInv /\ [Next]_vars => IInv'
  BY Inductive
<1> QED
  BY InitOne, <1>1, PTL DEF Spec

(* Type correctness, whoever opens sockets: lines, commands and packets    *)
(* stay well formed, and a socket has an id exactly while it is open.      *)
THEOREM TypeCorrect == Spec => []TypeOK
<1>1. Init => TypeInv
  BY InitOne DEF IInv, TypeInv
<1>2. TypeInv => TypeOK
  BY Parts DEF TypeInv
<1> QED
  BY <1>1, <1>2, TypeInductive, PTL DEF Spec

(* When one thread opens all sockets, no order of openings, failures and   *)
(* late answers gives an id to two sockets or loses the id of an open one. *)
THEOREM IdsExclusive == OneOpener => (Spec => []OneSocketPerId)
<1> SUFFICES ASSUME OneOpener PROVE Spec => []OneSocketPerId
  OBVIOUS
<1>1. IInv => OneSocketPerId
  BY DEF IInv
<1> QED
  BY <1>1, Invariant, PTL

-----------------------------------------------------------------------------
(* The inductive invariant of the connections.  Sockets that are open, the *)
(* lines about an id, and the replies, which are about no id.              *)
Used(h) == sock[h].at # "none"
About(j, kind, i) == rx[j].kind = kind /\ rx[j].id = i
Answers == {"OK", "PROMPT", "SEND_OK"}
Silent(i) == \A j \in Pos : rx[j].id # i

(* A call has the lock exactly while it talks to the radio or reads. *)
Held == {"connecting", "asking", "writing", "polling", "taken", "closing"}
LockHeld == \A h \in Handles : smutex = h <=> sock[h].at \in Held

(* What a socket has asked for and got, whatever the radio does. *)
Asked(h) ==
    /\ sock[h].link # NoLink => sock[h].link = sock[h].asked
    /\ sock[h].at = "connecting" => sock[h].link = NoLink /\ sock[h].asked # NoLink
    /\ sock[h].at \in {"asking", "writing", "polling", "taken"} => sock[h].link # NoLink
    /\ sock[h].asked <= attempts
    /\ sock[h].at = "none" => sock[h].asked = NoLink
    /\ sock[h].link = NoLink =>
         sock[h].acked = 0 /\ sock[h].got = <<>> /\ ~sock[h].ended

(* Two sockets never ask for the same connection. *)
AskedApart ==
    \A g, h \in Handles : sock[h].asked # NoLink /\ sock[g].asked = sock[h].asked => g = h

(* On a connection that nobody has asked for nothing was sent or said. *)
Later == \A l \in Links : l > attempts => sent[l] = 0 /\ heard[l] = 0 /\ said[l] = 0

(* The radio works for the call that has the lock. *)
Works ==
    radio.op # "idle" =>
      /\ smutex \in Handles /\ radio.id = sock[smutex].id
      /\ radio.op = "connect" =>
           sock[smutex].at = "connecting" /\ radio.link = sock[smutex].asked
      /\ radio.op = "close" => sock[smutex].at = "closing"
      /\ radio.op \in {"send", "data"} => sock[smutex].at = "asking"
      /\ radio.op = "sending" => sock[smutex].at = "writing"

(* There is at most one answer on the line, to the call that waits. *)
Awaited ==
    /\ \A j \in Pos : rx[j].kind \in Answers => smutex \in Handles /\ rx[j].id = NoId
    /\ \A j \in Pos : rx[j].kind = "OK" =>
         sock[smutex].at \in {"connecting", "closing"} /\ radio.op = "idle"
    /\ \A j \in Pos : rx[j].kind = "PROMPT" => sock[smutex].at = "asking" /\ radio.op = "data"
    /\ \A j \in Pos : rx[j].kind = "SEND_OK" => sock[smutex].at = "writing" /\ radio.op = "idle"
    /\ \A j, k \in Pos : rx[j].kind \in Answers /\ rx[k].kind \in Answers => j = k

(* An id nobody has: nothing of an earlier connection is left anywhere. *)
Clean(i) ==
    /\ conn[i] = NoLink /\ i \notin idBits /\ i \notin idBitsClose
    /\ packets[i] = <<>> /\ Silent(i)

(* The id of a socket: the connection of the radio and the driver's bits. *)
Ours(h) ==
    LET i == sock[h].id IN
    /\ conn[i] # NoLink =>
         conn[i] = sock[h].asked /\ (i \in idBits \/ sock[h].at = "connecting")
    /\ conn[i] = NoLink /\ i \in idBits => Reported(i)
    /\ i \in idBits => sock[h].at = "connecting" \/ sock[h].link # NoLink
    /\ i \in idBitsClose =>
         i \notin idBits /\ conn[i] = NoLink /\ Silent(i) /\ sock[h].asked # NoLink
    /\ sock[h].link # NoLink => i \in idBits \/ i \in idBitsClose
    /\ sock[h].link = NoLink => packets[i] = <<>>
    /\ sock[h].at = "closing" => sock[h].tries = 0
    /\ sock[h].at = "closing" /\ radio.op # "close" => conn[i] = NoLink
    /\ sock[h].at = "again" => i \notin idBits
    /\ sock[h].at # "giveup"

(* The order of the lines about it. *)
InOrder(h) ==
    LET i == sock[h].id IN
    /\ \A j \in Pos : rx[j].id = i => i \in idBits \/ sock[h].at = "connecting"
    /\ \A j \in Pos : About(j, "CLOSED", i) => conn[i] = NoLink
    /\ \A j, k \in Pos : About(j, "CLOSED", i) /\ rx[k].id = i => k <= j
    /\ \A j \in Pos : About(j, "CONNECT", i) =>
         i \notin idBits /\ sock[h].at = "connecting" /\ (conn[i] = NoLink => Reported(i))
    /\ \A j, k \in Pos : About(j, "CONNECT", i) /\ rx[k].id = i => j <= k
    /\ sock[h].at = "closing" =>
         \A j, k \in Pos : rx[j].kind = "OK" /\ rx[k].id = i => k <= j

(* While it connects: before the answer there is only CONNECT, and without *)
(* an answer there is no connection.                                       *)
Joining(h) ==
    LET i == sock[h].id IN
    sock[h].at = "connecting" =>
      /\ radio.op = "connect" => Silent(i) /\ i \notin idBitsClose
      /\ \A j \in Pos : rx[j].kind = "OK" =>
           i \in idBits \/ \E k \in Pos : k < j /\ About(k, "CONNECT", i)
      /\ \A j, k \in Pos : rx[j].kind = "OK" /\ rx[k].id = i /\ k < j => rx[k].kind = "CONNECT"
      /\ \/ \E j \in Pos : rx[j].kind = "OK"
         \/ /\ conn[i] = NoLink /\ i \notin idBits
            /\ \A k \in Pos : rx[k].id = i => rx[k].kind = "CLOSED"

(* Chunks of a send: each reaches the peer once, SEND OK is on the line    *)
(* for the one that has reached it and was not yet told so, and the others *)
(* the call still has to send were said.                                   *)
Counted(h) ==
    LET l == sock[h].asked IN
    l # NoLink =>
      /\ heard[l] <= said[l]
      /\ \/ heard[l] = sock[h].acked
         \/ sock[h].at = "writing" /\ heard[l] = sock[h].acked + 1
      /\ sock[h].at \in {"asking", "writing"} =>
           sock[h].chunks > 0 /\ sock[h].acked + sock[h].chunks <= said[l]
      /\ sock[h].at = "writing" =>
           (heard[l] = sock[h].acked + 1 <=> \E j \in Pos : rx[j].kind = "SEND_OK")

(* A socket that was told the end has nothing left to come. *)
Ended(h) ==
    LET i == sock[h].id IN
    sock[h].ended => conn[i] = NoLink /\ i \notin idBits /\ packets[i] = <<>>

(* All of it for a socket that is open. *)
Fine(h) ==
    /\ Ours(h) /\ InOrder(h) /\ Joining(h)
    /\ Counted(h) /\ Received(h) /\ Ended(h)

(* While no call is late, the state is quiet. *)
Quiet ==
    /\ Works /\ Awaited /\ Later
    /\ \A i \in Ids \ ids : Clean(i)
    /\ \A h \in Handles : Used(h) => Fine(h)

Shared == LockHeld /\ (\A h \in Handles : Asked(h)) /\ AskedApart
InSync == late = 0 => Quiet

-----------------------------------------------------------------------------
(* What a step of a call changes of the sockets. *)
Others(h) == \A g \in Handles \ {h} : sock'[g] = sock[g]
Same(h) ==
    /\ sock'[h].id = sock[h].id /\ sock'[h].link = sock[h].link
    /\ sock'[h].asked = sock[h].asked /\ sock'[h].got = sock[h].got
    /\ sock'[h].ended = sock[h].ended /\ sock'[h].acked = sock[h].acked
Moves(h, from, to) == sock[h].at = from /\ sock'[h].at = to /\ Others(h)

LEMMA SockFields ==
  ASSUME SockOK, NEW h \in Handles, NEW w \in Places
  PROVE  /\ sock' = [sock EXCEPT ![h].at = w]
              => /\ Others(h) /\ Same(h) /\ sock'[h].at = w
                 /\ sock'[h].tries = sock[h].tries /\ sock'[h].chunks = sock[h].chunks
         /\ \A n : sock' = [sock EXCEPT ![h].at = w, ![h].room = n]
              => Others(h) /\ Same(h) /\ sock'[h].at = w
         /\ \A n : sock' = [sock EXCEPT ![h].at = w, ![h].tries = n]
              => /\ Others(h) /\ Same(h) /\ sock'[h].at = w
                 /\ sock'[h].tries = n /\ sock'[h].chunks = sock[h].chunks
         /\ \A n, c : sock' = [sock EXCEPT ![h].at = w, ![h].tries = n, ![h].chunks = c]
              => /\ Others(h) /\ Same(h) /\ sock'[h].at = w
                 /\ sock'[h].tries = n /\ sock'[h].chunks = c
         /\ \A n : sock' = [sock EXCEPT ![h].tries = n, ![h].at = w]
              => Others(h) /\ Same(h) /\ sock'[h].at = w /\ sock'[h].tries = n
<1> USE DEF SockOK, Sockets, Others, Same
<1>1. sock' = [sock EXCEPT ![h].at = w]
        => /\ Others(h) /\ Same(h) /\ sock'[h].at = w
           /\ sock'[h].tries = sock[h].tries /\ sock'[h].chunks = sock[h].chunks
  OBVIOUS
<1>2. \A n : sock' = [sock EXCEPT ![h].at = w, ![h].room = n]
        => Others(h) /\ Same(h) /\ sock'[h].at = w
  OBVIOUS
<1>3. \A n : sock' = [sock EXCEPT ![h].at = w, ![h].tries = n]
        => /\ Others(h) /\ Same(h) /\ sock'[h].at = w
           /\ sock'[h].tries = n /\ sock'[h].chunks = sock[h].chunks
  OBVIOUS
<1>4. \A n, c : sock' = [sock EXCEPT ![h].at = w, ![h].tries = n, ![h].chunks = c]
        => /\ Others(h) /\ Same(h) /\ sock'[h].at = w
           /\ sock'[h].tries = n /\ sock'[h].chunks = c
  OBVIOUS
<1>5. \A n : sock' = [sock EXCEPT ![h].tries = n, ![h].at = w]
        => Others(h) /\ Same(h) /\ sock'[h].at = w /\ sock'[h].tries = n
  OBVIOUS
<1> QED
  BY <1>1, <1>2, <1>3, <1>4, <1>5

LEMMA RestMoves ==
  ASSUME SockOK, NEW h \in Handles
  PROVE  /\ Recv(h) => Moves(h, "rest", "polling") /\ Same(h)
         /\ RecvSome(h) => Moves(h, "taken", "rest") /\ Same(h)
         /\ Prompted(h) => /\ Moves(h, "asking", "writing") /\ Same(h)
                           /\ sock'[h].chunks = sock[h].chunks
         /\ ConnectFails(h) => Moves(h, "connecting", "rest") /\ Same(h)
<1>1. Recv(h) => Moves(h, "rest", "polling") /\ Same(h)
  BY SockFields DEF Recv, At, Moves, Places
<1>2. RecvSome(h) => Moves(h, "taken", "rest") /\ Same(h)
  BY SockFields DEF RecvSome, At, Moves, Places, Goes
<1>3. Prompted(h) => /\ Moves(h, "asking", "writing") /\ Same(h)
                     /\ sock'[h].chunks = sock[h].chunks
  BY SockFields DEF Prompted, Answered, At, Moves, Places, Goes
<1>4. ConnectFails(h) => Moves(h, "connecting", "rest") /\ Same(h)
  BY SockFields DEF ConnectFails, GivesUp, At, Moves, Places, Goes
<1> QED
  BY <1>1, <1>2, <1>3, <1>4

LEMMA SendMoves ==
  ASSUME SockOK, NEW h \in Handles, Send(h)
  PROVE  /\ Same(h) /\ Moves(h, "rest", "asking")
         /\ \E n \in 1 .. Left :
              /\ sock'[h].chunks = n
              /\ said' = [said EXCEPT ![sock[h].link] = @ + n]
<1>1. PICK n \in 1 .. Left :
        /\ sock' = [sock EXCEPT ![h].at = "asking", ![h].tries = 0, ![h].chunks = n]
        /\ said' = [said EXCEPT ![sock[h].link] = @ + n]
  BY DEF Send
<1>2. Others(h) /\ Same(h) /\ sock'[h].at = "asking" /\ sock'[h].chunks = n
  BY <1>1 DEF SockOK, Sockets, Others, Same
<1>3. sock[h].at = "rest"
  BY DEF Send, At
<1>4. \E m \in 1 .. Left : /\ sock'[h].chunks = m
                           /\ said' = [said EXCEPT ![sock[h].link] = @ + m]
  BY <1>1, <1>2, Zenon
<1> QED
  BY <1>2, <1>3, <1>4 DEF Moves

(* After a chunk the call goes on or is over. *)
SendDoneMoves(h, over) ==
    /\ TrySend(h, over) /\ Moves(h, "writing", IF over THEN "rest" ELSE "asking")
    /\ sock'[h].id = sock[h].id /\ sock'[h].link = sock[h].link
    /\ sock'[h].asked = sock[h].asked
    /\ sock'[h].got = sock[h].got /\ sock'[h].ended = sock[h].ended
    /\ sock'[h].acked = sock[h].acked + 1
    /\ ~over => sock[h].chunks > 1 /\ sock'[h].chunks = sock[h].chunks - 1

LEMMA SendDoneOver ==
  ASSUME SockOK, NEW h \in Handles, SendDone(h)
  PROVE  \E over \in BOOLEAN : SendDoneMoves(h, over)
<1> DEFINE over == sock[h].chunks <= 1 \/ Gone(sock[h].id)
           w == IF over THEN "rest" ELSE "asking"
           m == sock[h].acked + 1
           n == IF over THEN 0 ELSE sock[h].chunks - 1
<1>1. /\ sock' = [sock EXCEPT ![h].at = w, ![h].tries = 0, ![h].acked = m, ![h].chunks = n]
      /\ TrySend(h, over) /\ sock[h].at = "writing"
  BY DEF SendDone, Answered, At
<1>2. sock[h].chunks \in Nat
  BY <1>1, InUse
<1> HIDE DEF w, m, n
<1>3. /\ Others(h) /\ sock'[h].at = w /\ sock'[h].acked = m /\ sock'[h].chunks = n
      /\ sock'[h].id = sock[h].id /\ sock'[h].link = sock[h].link
      /\ sock'[h].asked = sock[h].asked
      /\ sock'[h].got = sock[h].got /\ sock'[h].ended = sock[h].ended
  BY <1>1 DEF SockOK, Sockets, Others
<1>4. SendDoneMoves(h, over)
  BY <1>1, <1>2, <1>3 DEF SendDoneMoves, Moves, w, m, n
<1> HIDE DEF over
<1>5. over \in BOOLEAN
  BY DEF over
<1> QED
  BY <1>4, <1>5

(* After a failure it tries once more or is over. *)
SendFailsMoves(h, over) ==
    /\ TrySend(h, over) /\ Same(h) /\ Others(h) /\ sock[h].at \in {"asking", "writing"}
    /\ sock'[h].at = IF over THEN "rest" ELSE "asking"
    /\ sock'[h].chunks = sock[h].chunks

LEMMA SendFailsOver ==
  ASSUME SockOK, NEW h \in Handles, SendFails(h)
  PROVE  \E over \in BOOLEAN : SendFailsMoves(h, over)
<1> DEFINE over == sock[h].tries = 1 \/ Gone(sock[h].id)
           w == IF over THEN "rest" ELSE "asking"
<1>1. /\ sock' = [sock EXCEPT ![h].at = w, ![h].tries = 1]
      /\ TrySend(h, over) /\ sock[h].at \in {"asking", "writing"}
  BY DEF SendFails, GivesUp, At
<1>2. w \in Places
  BY DEF Places
<1> HIDE DEF w
<1>3. Others(h) /\ Same(h) /\ sock'[h].at = w /\ sock'[h].chunks = sock[h].chunks
  BY <1>1, <1>2, SockFields
<1>4. SendFailsMoves(h, over)
  BY <1>1, <1>3 DEF SendFailsMoves, w
<1> HIDE DEF over
<1>5. over \in BOOLEAN
  BY DEF over
<1> QED
  BY <1>4, <1>5

LEMMA CloseMoves ==
  ASSUME SockOK, NEW h \in Handles
  PROVE  /\ CloseTry(h) => /\ Same(h) /\ Others(h) /\ sock'[h].at = "closing"
                           /\ \/ sock[h].at = "rest" /\ sock'[h].tries = 0
                              \/ sock[h].at = "again"
         /\ CloseFails(h) => /\ Same(h) /\ Others(h) /\ sock[h].at = "closing"
                             /\ sock'[h].at = IF sock[h].tries = 0 THEN "again" ELSE "giveup"
<1>1. ASSUME CloseTry(h)
      PROVE  /\ Same(h) /\ Others(h) /\ sock'[h].at = "closing"
             /\ \/ sock[h].at = "rest" /\ sock'[h].tries = 0
                \/ sock[h].at = "again"
  <2> DEFINE n == IF At(h, "rest") THEN 0 ELSE 1
  <2>1. sock' = [sock EXCEPT ![h].tries = n, ![h].at = "closing"]
    BY <1>1 DEF CloseTry
  <2> HIDE DEF n
  <2>2. Others(h) /\ Same(h) /\ sock'[h].at = "closing" /\ sock'[h].tries = n
    BY <2>1, SockFields DEF Places
  <2> QED
    BY <1>1, <2>2 DEF n, CloseTry, At
<1>2. ASSUME CloseFails(h)
      PROVE  /\ Same(h) /\ Others(h) /\ sock[h].at = "closing"
             /\ sock'[h].at = IF sock[h].tries = 0 THEN "again" ELSE "giveup"
  <2> DEFINE w == IF sock[h].tries = 0 THEN "again" ELSE "giveup"
  <2>1. sock' = [sock EXCEPT ![h].at = w] /\ w \in Places /\ sock[h].at = "closing"
    BY <1>2 DEF CloseFails, Goes, Places, GivesUp, At
  <2> HIDE DEF w
  <2>2. Others(h) /\ Same(h) /\ sock'[h].at = w
    BY <2>1, SockFields
  <2> QED
    BY <2>1, <2>2 DEF w
<1> QED
  BY <1>1, <1>2

(* The steps that change more than the place. *)
LEMMA FieldMoves ==
  ASSUME SockOK, NEW h \in Handles
  PROVE  /\ Connect(h) =>
              /\ Moves(h, "rest", "connecting") /\ sock'[h].asked = attempts + 1
              /\ sock'[h].id = sock[h].id /\ sock'[h].link = sock[h].link
              /\ sock'[h].got = sock[h].got /\ sock'[h].ended = sock[h].ended
              /\ sock'[h].acked = sock[h].acked
         /\ ConnectDone(h) =>
              /\ Moves(h, "connecting", "rest") /\ sock'[h].link = sock[h].asked
              /\ sock'[h].id = sock[h].id /\ sock'[h].asked = sock[h].asked
              /\ sock'[h].got = sock[h].got /\ sock'[h].ended = sock[h].ended
              /\ sock'[h].acked = sock[h].acked
         /\ \A last \in BOOLEAN : RecvNone(h, last) =>
              /\ Moves(h, "polling", "rest") /\ sock'[h].link = sock[h].link
              /\ sock'[h].id = sock[h].id /\ sock'[h].asked = sock[h].asked
              /\ sock'[h].got = sock[h].got /\ sock'[h].acked = sock[h].acked
              /\ sock'[h].ended = (sock[h].ended \/ (last /\ Gone(sock[h].id)))
<1> USE DEF SockOK, Sockets, Others, Moves, At
<1>1. Connect(h) =>
        /\ Moves(h, "rest", "connecting") /\ sock'[h].asked = attempts + 1
        /\ sock'[h].id = sock[h].id /\ sock'[h].link = sock[h].link
        /\ sock'[h].got = sock[h].got /\ sock'[h].ended = sock[h].ended
        /\ sock'[h].acked = sock[h].acked
  BY DEF Connect
<1>2. ConnectDone(h) =>
        /\ Moves(h, "connecting", "rest") /\ sock'[h].link = sock[h].asked
        /\ sock'[h].id = sock[h].id /\ sock'[h].asked = sock[h].asked
        /\ sock'[h].got = sock[h].got /\ sock'[h].ended = sock[h].ended
        /\ sock'[h].acked = sock[h].acked
  BY DEF ConnectDone, Answered
<1>4. \A last \in BOOLEAN : RecvNone(h, last) =>
        /\ Moves(h, "polling", "rest") /\ sock'[h].link = sock[h].link
        /\ sock'[h].id = sock[h].id /\ sock'[h].asked = sock[h].asked
        /\ sock'[h].got = sock[h].got /\ sock'[h].acked = sock[h].acked
        /\ sock'[h].ended = (sock[h].ended \/ (last /\ Gone(sock[h].id)))
  BY DEF RecvNone, Polled
<1> QED
  BY <1>1, <1>2, <1>4

LEMMA TakeMoves ==
  ASSUME SockOK, NEW h \in Handles
  PROVE  /\ TakePacket(h) =>
              /\ Others(h) /\ sock[h].at \in {"polling", "taken"} /\ sock'[h].at = "taken"
              /\ sock'[h].id = sock[h].id /\ sock'[h].link = sock[h].link
              /\ sock'[h].asked = sock[h].asked /\ sock'[h].ended = sock[h].ended
              /\ sock'[h].acked = sock[h].acked
              /\ sock'[h].got = sock[h].got \o Piece(Head(Mine(h)), Size(Head(Mine(h))))
         /\ TakePart(h) =>
              /\ Others(h) /\ sock[h].at \in {"polling", "taken"} /\ sock'[h].at = "rest"
              /\ sock'[h].id = sock[h].id /\ sock'[h].link = sock[h].link
              /\ sock'[h].asked = sock[h].asked /\ sock'[h].ended = sock[h].ended
              /\ sock'[h].acked = sock[h].acked
              /\ sock'[h].got = sock[h].got \o Piece(Head(Mine(h)), sock[h].room)
<1> USE DEF SockOK, Sockets, Others, At
<1>1. ASSUME NEW q, NEW n, NEW w, sock' = [sock EXCEPT ![h].at = w, ![h].room = n, ![h].got = q]
      PROVE  /\ Others(h) /\ sock'[h].at = w
             /\ sock'[h].id = sock[h].id /\ sock'[h].link = sock[h].link
             /\ sock'[h].asked = sock[h].asked /\ sock'[h].ended = sock[h].ended
             /\ sock'[h].acked = sock[h].acked /\ sock'[h].got = q
  BY <1>1
<1>2. ASSUME NEW q, NEW w, sock' = [sock EXCEPT ![h].at = w, ![h].got = q]
      PROVE  /\ Others(h) /\ sock'[h].at = w
             /\ sock'[h].id = sock[h].id /\ sock'[h].link = sock[h].link
             /\ sock'[h].asked = sock[h].asked /\ sock'[h].ended = sock[h].ended
             /\ sock'[h].acked = sock[h].acked /\ sock'[h].got = q
  BY <1>2
<1>3. ASSUME TakePacket(h)
      PROVE  \E n : sock' = [sock EXCEPT ![h].at = "taken", ![h].room = n,
                 ![h].got = sock[h].got \o Piece(Head(Mine(h)), Size(Head(Mine(h))))]
  BY <1>3 DEF TakePacket
<1>4. ASSUME TakePart(h)
      PROVE  sock' = [sock EXCEPT ![h].at = "rest",
                 ![h].got = sock[h].got \o Piece(Head(Mine(h)), sock[h].room)]
  BY <1>4 DEF TakePart
<1>5. TakePacket(h) \/ TakePart(h) => sock[h].at \in {"polling", "taken"}
  BY DEF TakePacket, TakePart, Taking, Polled
<1>6. ASSUME TakePacket(h)
      PROVE  /\ Others(h) /\ sock'[h].at = "taken"
             /\ sock'[h].id = sock[h].id /\ sock'[h].link = sock[h].link
             /\ sock'[h].asked = sock[h].asked /\ sock'[h].ended = sock[h].ended
             /\ sock'[h].acked = sock[h].acked
             /\ sock'[h].got = sock[h].got \o Piece(Head(Mine(h)), Size(Head(Mine(h))))
  <2> DEFINE q == sock[h].got \o Piece(Head(Mine(h)), Size(Head(Mine(h))))
  <2>1. PICK n : sock' = [sock EXCEPT ![h].at = "taken", ![h].room = n, ![h].got = q]
    BY <1>3, <1>6
  <2> HIDE DEF q
  <2>2. /\ Others(h) /\ sock'[h].at = "taken"
        /\ sock'[h].id = sock[h].id /\ sock'[h].link = sock[h].link
        /\ sock'[h].asked = sock[h].asked /\ sock'[h].ended = sock[h].ended
        /\ sock'[h].acked = sock[h].acked /\ sock'[h].got = q
    BY <1>1, <2>1, Zenon
  <2> QED
    BY <2>2 DEF q
<1>7. ASSUME TakePart(h)
      PROVE  /\ Others(h) /\ sock'[h].at = "rest"
             /\ sock'[h].id = sock[h].id /\ sock'[h].link = sock[h].link
             /\ sock'[h].asked = sock[h].asked /\ sock'[h].ended = sock[h].ended
             /\ sock'[h].acked = sock[h].acked
             /\ sock'[h].got = sock[h].got \o Piece(Head(Mine(h)), sock[h].room)
  <2> DEFINE q == sock[h].got \o Piece(Head(Mine(h)), sock[h].room)
  <2>1. sock' = [sock EXCEPT ![h].at = "rest", ![h].got = q]
    BY <1>4, <1>7
  <2> HIDE DEF q
  <2>2. /\ Others(h) /\ sock'[h].at = "rest"
        /\ sock'[h].id = sock[h].id /\ sock'[h].link = sock[h].link
        /\ sock'[h].asked = sock[h].asked /\ sock'[h].ended = sock[h].ended
        /\ sock'[h].acked = sock[h].acked /\ sock'[h].got = q
    BY <1>2, <2>1, Zenon
  <2> QED
    BY <2>2 DEF q
<1> QED
  BY <1>5, <1>6, <1>7

-----------------------------------------------------------------------------
LEMMA LockMoves ==
  ASSUME LockHeld, NEW h \in Handles, Others(h), smutex \in {h, Nobody},
         smutex' = IF sock'[h].at \in Held THEN h ELSE Nobody
  PROVE  LockHeld'
  BY NobodyAssumption DEF LockHeld, Others

LEMMA LockStays ==
  ASSUME LockHeld, NEW h \in Handles, Others(h), smutex' = smutex,
         sock[h].at \notin Held, sock'[h].at \notin Held
  PROVE  LockHeld'
  BY DEF LockHeld, Others

(* A step that leaves the connection of the socket and what was received.  *)
LEMMA AskedSame ==
  ASSUME SockOK, \A g \in Handles : Asked(g), AskedApart, NEW h \in Handles,
         Others(h), attempts' = attempts, sock[h].at # "none", sock'[h].at # "none",
         sock'[h].link = sock[h].link, sock'[h].asked = sock[h].asked,
         sock'[h].at # "connecting",
         sock'[h].at \in {"asking", "writing", "polling", "taken"} => sock[h].link # NoLink,
         sock[h].link = NoLink =>
           /\ sock'[h].acked = sock[h].acked /\ sock'[h].got = sock[h].got
           /\ sock'[h].ended = sock[h].ended
  PROVE  (\A g \in Handles : Asked(g)') /\ AskedApart'
<1>1. Asked(h)'
  BY DEF Asked
<1>2. ASSUME NEW g \in Handles \ {h} PROVE Asked(g)'
  BY DEF Asked, Others
<1>3. AskedApart'
  BY DEF AskedApart, Others
<1> QED
  BY <1>1, <1>2, <1>3

LEMMA AskedNone ==
  ASSUME \A g \in Handles : Asked(g), AskedApart, NEW h \in Handles,
         Others(h), attempts' = attempts, attempts \in Nat,
         sock'[h].asked = NoLink, sock'[h].link = NoLink, sock'[h].at \in {"none", "rest"},
         sock'[h].acked = 0, sock'[h].got = <<>>, ~sock'[h].ended
  PROVE  (\A g \in Handles : Asked(g)') /\ AskedApart'
<1>1. Asked(h)'
  <2>1. NoLink <= attempts
    BY DEF NoLink
  <2> QED
    BY <2>1 DEF Asked
<1>2. ASSUME NEW g \in Handles \ {h} PROVE Asked(g)'
  BY DEF Asked, Others
<1>3. AskedApart'
  BY DEF AskedApart, Others
<1> QED
  BY <1>1, <1>2, <1>3

LEMMA SharedStep ==
  ASSUME SockOK, RestOK, Shared, NEW h \in Handles, Step(h)
  PROVE  Shared'
<1> USE NobodyAssumption DEF Shared
<1>1. CASE ReadLine(h) \/ ReadBadly(h)
  BY <1>1 DEF ReadLine, ReadBadly, world, LockHeld, Asked, AskedApart
<1>2. CASE Connect(h)
  <2>1. /\ Moves(h, "rest", "connecting") /\ sock'[h].asked = attempts + 1
        /\ sock'[h].id = sock[h].id /\ sock'[h].link = sock[h].link
        /\ sock'[h].got = sock[h].got /\ sock'[h].ended = sock[h].ended
        /\ sock'[h].acked = sock[h].acked
    BY <1>2, FieldMoves
  <2>2. sock[h].asked = NoLink /\ attempts' = attempts + 1 /\ attempts \in Nat
    BY <1>2 DEF Connect, RestOK
  <2>3. \A g \in Handles : sock[g].asked \in Nat
    BY DEF SockOK, Sockets, Links, NoLink
  <2>4. LockHeld'
    BY <1>2, <2>1, LockMoves DEF Connect, Lock, Moves, Held
  <2>5. Asked(h)'
    BY <2>1, <2>2 DEF Asked, Moves, NoLink
  <2>6. ASSUME NEW g \in Handles \ {h} PROVE Asked(g)'
    BY <2>1, <2>2, <2>3 DEF Asked, Moves, Others
  <2>7. AskedApart'
    BY <2>1, <2>2, <2>3 DEF Asked, AskedApart, Moves, Others
  <2> QED
    BY <2>4, <2>5, <2>6, <2>7
<1>3. CASE ConnectDone(h)
  <2>1. /\ Moves(h, "connecting", "rest") /\ sock'[h].link = sock[h].asked
        /\ sock'[h].id = sock[h].id /\ sock'[h].asked = sock[h].asked
        /\ sock'[h].got = sock[h].got /\ sock'[h].ended = sock[h].ended
        /\ sock'[h].acked = sock[h].acked
    BY <1>3, FieldMoves
  <2>2. attempts' = attempts
    BY <1>3 DEF ConnectDone, world
  <2>3. LockHeld'
    BY <1>3, <2>1, LockMoves DEF ConnectDone, Unlock, Moves, Held
  <2>4. Asked(h)'
    BY <2>1, <2>2 DEF Asked, Moves
  <2>5. ASSUME NEW g \in Handles \ {h} PROVE Asked(g)'
    BY <2>1, <2>2 DEF Asked, Moves, Others
  <2>6. AskedApart'
    BY <2>1 DEF AskedApart, Moves, Others
  <2> QED
    BY <2>3, <2>4, <2>5, <2>6
<1>4. CASE ConnectFails(h)
  <2>1. Moves(h, "connecting", "rest") /\ Same(h) /\ attempts' = attempts
    BY <1>4, RestMoves DEF ConnectFails, world
  <2>2. LockHeld'
    BY <1>4, <2>1, LockMoves DEF ConnectFails, Unlock, Moves, Held
  <2> QED
    BY <2>1, <2>2, AskedSame DEF Moves, Same
<1>5. CASE Send(h)
  <2>1. Same(h) /\ Moves(h, "rest", "asking") /\ attempts' = attempts
    BY <1>5, SendMoves DEF Send
  <2>2. LockHeld'
    BY <1>5, <2>1, LockMoves DEF Send, TrySend, Moves, Held
  <2>3. sock[h].link # NoLink
    BY <1>5 DEF Send
  <2> QED
    BY <2>1, <2>2, <2>3, AskedSame DEF Same, Moves
<1>6. CASE Prompted(h)
  <2>1. Moves(h, "asking", "writing") /\ Same(h) /\ attempts' = attempts
    BY <1>6, RestMoves DEF Prompted, world
  <2>2. LockHeld'
    BY <1>6, <2>1, LockMoves DEF Prompted, Answered, Busy, Moves, Held
  <2> QED
    BY <2>1, <2>2, AskedSame DEF Moves, Same, Asked
<1>7. CASE SendDone(h)
  <2>1. PICK over \in BOOLEAN : SendDoneMoves(h, over)
    BY <1>7, SendDoneOver
  <2>2. /\ Others(h) /\ sock[h].at = "writing" /\ attempts' = attempts
        /\ sock'[h].at = IF over THEN "rest" ELSE "asking"
        /\ sock'[h].link = sock[h].link /\ sock'[h].asked = sock[h].asked
        /\ smutex' = IF over THEN Nobody ELSE h
    BY <1>7, <2>1 DEF SendDoneMoves, Moves, TrySend, SendDone, world
  <2>3. smutex = h /\ sock[h].link # NoLink
    BY <2>2 DEF LockHeld, Held, Asked
  <2>4. LockHeld'
    BY <2>2, <2>3, LockMoves DEF Held
  <2> QED
    BY <2>2, <2>3, <2>4, AskedSame
<1>8. CASE SendFails(h)
  <2>1. PICK over \in BOOLEAN : SendFailsMoves(h, over)
    BY <1>8, SendFailsOver
  <2>2. /\ Others(h) /\ Same(h) /\ sock[h].at \in {"asking", "writing"}
        /\ sock'[h].at = IF over THEN "rest" ELSE "asking"
        /\ attempts' = attempts /\ smutex' = IF over THEN Nobody ELSE h
    BY <1>8, <2>1 DEF SendFailsMoves, TrySend, SendFails, world
  <2>3. smutex = h /\ sock[h].link # NoLink
    BY <2>2 DEF LockHeld, Held, Asked
  <2>4. LockHeld'
    BY <2>2, <2>3, LockMoves DEF Held
  <2> QED
    BY <2>2, <2>3, <2>4, AskedSame DEF Same
<1>9. CASE Recv(h)
  <2>1. Moves(h, "rest", "polling") /\ Same(h) /\ attempts' = attempts
    BY <1>9, RestMoves DEF Recv, world
  <2>2. LockHeld'
    BY <1>9, <2>1, LockMoves DEF Recv, Lock, Moves, Held
  <2>3. sock[h].link # NoLink
    BY <1>9 DEF Recv
  <2> QED
    BY <2>1, <2>2, <2>3, AskedSame DEF Moves, Same
<1>10. CASE TakePacket(h)
  <2>1. /\ Others(h) /\ sock[h].at \in {"polling", "taken"} /\ sock'[h].at = "taken"
        /\ sock'[h].link = sock[h].link /\ sock'[h].asked = sock[h].asked
        /\ attempts' = attempts
    BY <1>10, TakeMoves DEF TakePacket, world
  <2>2. LockHeld'
    BY <1>10, <2>1, LockMoves DEF TakePacket, Taking, Held
  <2>3. sock[h].link # NoLink
    BY <2>1 DEF Asked
  <2> QED
    BY <2>1, <2>2, <2>3, AskedSame
<1>11. CASE TakePart(h)
  <2>1. /\ Others(h) /\ sock[h].at \in {"polling", "taken"} /\ sock'[h].at = "rest"
        /\ sock'[h].link = sock[h].link /\ sock'[h].asked = sock[h].asked
        /\ attempts' = attempts
    BY <1>11, TakeMoves DEF TakePart, world
  <2>2. LockHeld'
    BY <1>11, <2>1, LockMoves DEF TakePart, Unlock, Held
  <2>3. sock[h].link # NoLink
    BY <2>1 DEF Asked
  <2> QED
    BY <2>1, <2>2, <2>3, AskedSame
<1>12. CASE RecvSome(h)
  <2>1. Moves(h, "taken", "rest") /\ Same(h) /\ attempts' = attempts
    BY <1>12, RestMoves DEF RecvSome, world
  <2>2. LockHeld'
    BY <1>12, <2>1, LockMoves DEF RecvSome, Unlock, Moves, Held
  <2> QED
    BY <2>1, <2>2, AskedSame DEF Moves, Same
<1>13. CASE \E last \in BOOLEAN : RecvNone(h, last)
  <2>1. /\ Moves(h, "polling", "rest") /\ sock'[h].link = sock[h].link
        /\ sock'[h].asked = sock[h].asked /\ attempts' = attempts
    BY <1>13, FieldMoves DEF RecvNone, world
  <2>2. LockHeld'
    BY <1>13, <2>1, LockMoves DEF RecvNone, Unlock, Moves, Held
  <2>3. sock[h].link # NoLink
    BY <2>1 DEF Moves, Asked
  <2> QED
    BY <2>1, <2>2, <2>3, AskedSame DEF Moves
<1>14. CASE CloseTry(h)
  <2>1. /\ Same(h) /\ Others(h) /\ sock'[h].at = "closing" /\ attempts' = attempts
        /\ sock[h].at \in {"rest", "again"}
    BY <1>14, CloseMoves DEF CloseTry, world
  <2>2. LockHeld'
    BY <1>14, <2>1, LockMoves DEF CloseTry, Lock, Held
  <2> QED
    BY <2>1, <2>2, AskedSame DEF Same
<1>15. CASE CloseFails(h)
  <2>1. /\ Same(h) /\ Others(h) /\ sock[h].at = "closing" /\ attempts' = attempts
        /\ sock'[h].at \in {"again", "giveup"}
    BY <1>15, CloseMoves DEF CloseFails, world
  <2>2. LockHeld'
    BY <1>15, <2>1, LockMoves DEF CloseFails, Unlock, Held
  <2> QED
    BY <2>1, <2>2, AskedSame DEF Same
<1> QED
  BY <1>1, <1>2, <1>3, <1>4, <1>5, <1>6, <1>7, <1>8, <1>9, <1>10, <1>11, <1>12,
     <1>13, <1>14, <1>15 DEF Step

LEMMA SharedNext == IInv /\ Shared /\ [Next]_vars => Shared'
<1> SUFFICES ASSUME IInv, Shared, [Next]_vars PROVE Shared'
  OBVIOUS
<1> USE DEF Shared
<1>1. ASSUME NEW h \in Handles, Step(h) PROVE Shared'
  BY <1>1, SharedStep DEF IInv
<1>2. ASSUME NEW h \in Handles, SocketOpen(h) PROVE Shared'
  <2>1. /\ sock[h].at = "none" /\ sock'[h].at = "rest" /\ Others(h)
        /\ sock'[h].asked = sock[h].asked /\ sock'[h].link = sock[h].link
        /\ sock'[h].acked = sock[h].acked /\ sock'[h].got = sock[h].got
        /\ sock'[h].ended = sock[h].ended /\ attempts' = attempts /\ smutex' = smutex
    BY <1>2 DEF SocketOpen, Finding, Others, IInv, SockOK, Sockets, world
  <2>2. LockHeld'
    BY <2>1, LockStays DEF Held
  <2>3. /\ sock'[h].asked = NoLink /\ sock'[h].link = NoLink /\ sock'[h].acked = 0
        /\ sock'[h].got = <<>> /\ ~sock'[h].ended
    BY <2>1 DEF Asked
  <2>4. attempts \in Nat
    BY DEF IInv, RestOK
  <2> QED
    BY <2>1, <2>2, <2>3, <2>4, AskedNone
<1>3. ASSUME NEW h \in Handles, Leaves(h) PROVE Shared'
  <2>1. /\ sock'[h] = NoSocket /\ Others(h) /\ attempts' = attempts
    BY <1>3 DEF Leaves, CloseGone, CloseDone, CloseGivesUp, Release, Others, IInv, SockOK, world
  <2>2. LockHeld'
    <3>1. CASE CloseGone(h)
      BY <2>1, <3>1, LockStays DEF CloseGone, At, Held, NoSocket
    <3>2. CASE CloseDone(h)
      BY <2>1, <3>2, LockMoves DEF CloseDone, Unlock, Held, NoSocket
    <3>3. CASE CloseGivesUp(h)
      BY <2>1, <3>3, LockStays DEF CloseGivesUp, At, Held, NoSocket
    <3> QED
      BY <1>3, <3>1, <3>2, <3>3 DEF Leaves
  <2>3. /\ sock'[h].asked = NoLink /\ sock'[h].link = NoLink /\ sock'[h].acked = 0
        /\ sock'[h].got = <<>> /\ ~sock'[h].ended /\ sock'[h].at = "none"
    BY <2>1 DEF NoSocket
  <2>4. attempts \in Nat
    BY DEF IInv, RestOK
  <2> QED
    BY <2>1, <2>2, <2>3, <2>4, AskedNone
<1>4. CASE Radio
  BY <1>4 DEF Radio, RadioConnects, RadioCloses, RadioPrompts, RadioSends, RadioRefuses,
     PeerSends, PeerCloses, world, driver, LockHeld, Asked, AskedApart
<1>5. CASE UNCHANGED vars
  BY <1>5 DEF vars, driver, world, LockHeld, Asked, AskedApart
<1>6. ASSUME NEW h \in Handles, FindId(h) PROVE Shared'
  BY <1>6 DEF FindId, world, LockHeld, Asked, AskedApart
<1> QED
  BY <1>1, <1>2, <1>3, <1>4, <1>5, <1>6, NextSteps

LEMMA SharedInit == Init => Shared
  BY NobodyAssumption, CountAssumption
  DEF Init, Shared, LockHeld, Asked, AskedApart, NoSocket, Held, NoLink

-----------------------------------------------------------------------------
(* What a step keeps for a socket g: the radio's connection, the driver's  *)
(* bits and packets, and the lines about its id and the answers of kind K,  *)
(* which may have come d places nearer to the head.                        *)
Calm == {"rest", "asking", "writing", "polling", "taken"}
Stays(g) ==
    /\ sock'[g].id = sock[g].id /\ sock'[g].link = sock[g].link
    /\ sock'[g].asked = sock[g].asked
    /\ \/ sock'[g].at = sock[g].at /\ sock'[g].tries = sock[g].tries
       \/ sock[g].at \in Calm /\ sock'[g].at \in Calm
Bits(i) ==
    /\ conn'[i] = conn[i]
    /\ i \in idBits' <=> i \in idBits
    /\ i \in idBitsClose' <=> i \in idBitsClose
World(i) == Bits(i) /\ packets'[i] = packets[i]
SameLines(K, i, d) ==
    /\ \A j \in Pos' : rx'[j].id = i \/ rx'[j].kind \in K
         => j + d \in Pos /\ rx'[j] = rx[j + d]
    /\ \A j \in Pos : rx[j].id = i \/ rx[j].kind \in K
         => j - d \in Pos' /\ rx'[j - d] = rx[j]
SameRadio(g) ==
    sock[g].at \in {"connecting", "closing"} => radio'.op = radio.op

LEMMA PosNat == Pos \subseteq Nat \ {0}
  BY DEF Pos

LEMMA OursKept ==
  ASSUME NEW g \in Handles, NEW d \in {0, 1}, NEW K, Ours(g),
         sock[g].link = NoLink => packets'[sock[g].id] = packets[sock[g].id],
         Stays(g), Bits(sock[g].id), SameLines(K, sock[g].id, d), SameRadio(g)
  PROVE  Ours(g)'
<1> DEFINE i == sock[g].id
<1>1. sock'[g].id = i
  BY DEF Stays
<1>2. Silent(i) => \A j \in Pos' : rx'[j].id # i
  BY DEF Silent, SameLines
<1>3. Reported(i) => \E j \in Pos' : rx'[j].kind = "CLOSED" /\ rx'[j].id = i
  BY DEF Reported, SameLines, Pos
<1> USE DEF Ours, Stays, Bits, SameRadio, Calm
<1>4. /\ conn'[i] # NoLink =>
           conn'[i] = sock'[g].asked /\ (i \in idBits' \/ sock'[g].at = "connecting")
      /\ i \in idBits' => sock'[g].at = "connecting" \/ sock'[g].link # NoLink
      /\ sock'[g].link # NoLink => i \in idBits' \/ i \in idBitsClose'
      /\ sock'[g].link = NoLink => packets'[i] = <<>>
  OBVIOUS
<1>5. /\ sock'[g].at = "closing" => sock'[g].tries = 0
      /\ sock'[g].at = "closing" /\ radio'.op # "close" => conn'[i] = NoLink
      /\ sock'[g].at = "again" => i \notin idBits'
      /\ sock'[g].at # "giveup"
  OBVIOUS
<1>6. i \in idBitsClose' => i \notin idBits' /\ conn'[i] = NoLink /\ sock'[g].asked # NoLink
                           /\ \A j \in Pos' : rx'[j].id # i
  BY <1>2
<1>7. conn'[i] = NoLink /\ i \in idBits' =>
        \E j \in Pos' : rx'[j].kind = "CLOSED" /\ rx'[j].id = i
  BY <1>3
<1> HIDE DEF i
<1> QED
  BY <1>1, <1>4, <1>5, <1>6, <1>7 DEF Silent, Reported, Pos

LEMMA InOrderKept ==
  ASSUME NEW g \in Handles, NEW d \in {0, 1}, NEW K, InOrder(g),
         sock[g].at = "closing" => "OK" \in K,
         Stays(g), Bits(sock[g].id), SameLines(K, sock[g].id, d)
  PROVE  InOrder(g)'
<1> DEFINE i == sock[g].id
<1>1. sock'[g].id = i
  BY DEF Stays
<1>2. Reported(i) => \E j \in Pos' : rx'[j].kind = "CLOSED" /\ rx'[j].id = i
  BY DEF Reported, SameLines, Pos
<1>3. ASSUME NEW j \in Pos', rx'[j].id = i
      PROVE  /\ j + d \in Pos /\ rx'[j] = rx[j + d]
             /\ i \in idBits' \/ sock'[g].at = "connecting"
  BY <1>3 DEF SameLines, InOrder, Bits, Stays, Calm
<1>4. ASSUME NEW j \in Pos', (rx'[j].kind = "CLOSED" /\ rx'[j].id = i) PROVE conn'[i] = NoLink
  BY <1>3, <1>4 DEF InOrder, Bits, About
<1>5. ASSUME NEW j \in Pos', (rx'[j].kind = "CONNECT" /\ rx'[j].id = i)
      PROVE  i \notin idBits' /\ sock'[g].at = "connecting" /\ (conn'[i] = NoLink =>
               \E k \in Pos' : rx'[k].kind = "CLOSED" /\ rx'[k].id = i)
  BY <1>2, <1>3, <1>5 DEF InOrder, Bits, About, Stays, Calm
<1>6. ASSUME NEW j \in Pos', NEW k \in Pos', rx'[k].id = i
      PROVE  /\ (rx'[j].kind = "CLOSED" /\ rx'[j].id = i) => k <= j
             /\ (rx'[j].kind = "CONNECT" /\ rx'[j].id = i) => j <= k
  <2>1. j \in Nat /\ k \in Nat
    BY DEF Pos
  <2>2. k + d \in Pos /\ rx'[k] = rx[k + d]
    BY <1>3, <1>6
  <2>3. rx'[j].id = i => j + d \in Pos /\ rx'[j] = rx[j + d]
    BY <1>3
  <2> QED
    BY <1>6, <2>1, <2>2, <2>3 DEF InOrder, About
<1>7. ASSUME NEW j \in Pos', NEW k \in Pos', sock'[g].at = "closing", rx'[j].kind = "OK",
             rx'[k].id = i
      PROVE  k <= j
  <2>1. j \in Nat /\ k \in Nat
    BY DEF Pos
  <2>2. k + d \in Pos /\ rx'[k] = rx[k + d]
    BY <1>3, <1>7
  <2>3. sock[g].at = "closing"
    BY <1>7 DEF Stays, Calm
  <2>4. j + d \in Pos /\ rx'[j] = rx[j + d]
    BY <1>7, <2>3 DEF SameLines
  <2> QED
    BY <1>7, <2>1, <2>2, <2>3, <2>4 DEF InOrder
<1> QED
  BY <1>1, <1>3, <1>4, <1>5, <1>6, <1>7 DEF InOrder, About, Reported, Pos

LEMMA JoiningKept ==
  ASSUME NEW g \in Handles, NEW d \in {0, 1}, NEW K, Joining(g),
         sock[g].at = "connecting" => "OK" \in K,
         Stays(g), Bits(sock[g].id), SameLines(K, sock[g].id, d), SameRadio(g)
  PROVE  Joining(g)'
<1> SUFFICES ASSUME sock'[g].at = "connecting" PROVE Joining(g)'
  BY DEF Joining
<1> DEFINE i == sock[g].id
<1>1. sock'[g].id = i /\ sock[g].at = "connecting"
  BY DEF Stays, Calm
<1>2. ASSUME NEW j \in Pos', rx'[j].id = i \/ rx'[j].kind = "OK"
      PROVE  j + d \in Pos /\ rx'[j] = rx[j + d]
  BY <1>1, <1>2 DEF SameLines
<1>3. ASSUME NEW j \in Pos, rx[j].id = i \/ rx[j].kind = "OK"
      PROVE  j - d \in Pos' /\ rx'[j - d] = rx[j]
  BY <1>1, <1>3 DEF SameLines
<1>4. radio'.op = "connect" => (\A j \in Pos' : rx'[j].id # i) /\ i \notin idBitsClose'
  BY <1>1, <1>2 DEF Joining, SameRadio, Silent, Bits
<1>5. ASSUME NEW j \in Pos', rx'[j].kind = "OK"
      PROVE  i \in idBits' \/ \E k \in Pos' : k < j /\ (rx'[k].kind = "CONNECT" /\ rx'[k].id = i)
  <2>1. j + d \in Pos /\ rx[j + d].kind = "OK"
    BY <1>2, <1>5
  <2>2. CASE i \in idBits
    BY <2>2 DEF Bits
  <2>3. ASSUME NEW k \in Pos, k < j + d, About(k, "CONNECT", i)
        PROVE  \E m \in Pos' : m < j /\ (rx'[m].kind = "CONNECT" /\ rx'[m].id = i)
    <3>1. k - d \in Pos' /\ rx'[k - d] = rx[k]
      BY <1>3, <2>3 DEF About
    <3>2. k - d < j
      BY <2>3 DEF Pos
    <3> QED
      BY <2>3, <3>1, <3>2 DEF About
  <2> QED
    BY <1>1, <2>1, <2>2, <2>3 DEF Joining
<1>6. ASSUME NEW j \in Pos', NEW k \in Pos', rx'[j].kind = "OK", rx'[k].id = i, k < j
      PROVE  rx'[k].kind = "CONNECT"
  <2>1. j + d \in Pos /\ rx'[j] = rx[j + d] /\ k + d \in Pos /\ rx'[k] = rx[k + d]
    BY <1>2, <1>6
  <2>2. k + d < j + d
    BY <1>6 DEF Pos
  <2> QED
    BY <1>1, <1>6, <2>1, <2>2 DEF Joining
<1>7. \/ \E j \in Pos' : rx'[j].kind = "OK"
      \/ /\ conn'[i] = NoLink /\ i \notin idBits'
         /\ \A k \in Pos' : rx'[k].id = i => rx'[k].kind = "CLOSED"
  BY <1>1, <1>2, <1>3 DEF Joining, Bits
<1> HIDE DEF i
<1> QED
  BY <1>1, <1>4, <1>5, <1>6, <1>7 DEF Joining, Silent, About

-----------------------------------------------------------------------------
LEMMA CountedKept ==
  ASSUME NEW g \in Handles, NEW d \in {0, 1}, NEW K, Counted(g),
         sock[g].at = "writing" => "SEND_OK" \in K,
         sock'[g].asked = sock[g].asked, sock'[g].acked = sock[g].acked,
         \/ sock'[g].at = sock[g].at /\ sock'[g].chunks = sock[g].chunks
         \/ sock[g].at # "writing" /\ sock'[g].at \notin {"asking", "writing"},
         sock[g].asked # NoLink => /\ heard'[sock[g].asked] = heard[sock[g].asked]
                                   /\ said'[sock[g].asked] = said[sock[g].asked],
         SameLines(K, sock[g].id, d)
  PROVE  Counted(g)'
<1>1. (\E j \in Pos : rx[j].kind = "SEND_OK") /\ sock[g].at = "writing"
        => \E j \in Pos' : rx'[j].kind = "SEND_OK"
  BY DEF SameLines
<1>2. (\A j \in Pos : rx[j].kind # "SEND_OK") /\ sock[g].at = "writing"
        => \A j \in Pos' : rx'[j].kind # "SEND_OK"
  BY DEF SameLines
<1> QED
  BY <1>1, <1>2 DEF Counted

LEMMA EndedKept ==
  ASSUME NEW g \in Handles, Ended(g), World(sock[g].id),
         sock'[g].id = sock[g].id, sock'[g].ended = sock[g].ended
  PROVE  Ended(g)'
  BY DEF Ended, World, Bits

(* The same for the data on the line alone. *)
SameData(i, d) ==
    /\ \A j \in Pos' : rx'[j].kind = "IPD" /\ rx'[j].id = i => j + d \in Pos /\ rx'[j] = rx[j + d]
    /\ \A j \in Pos : rx[j].kind = "IPD" /\ rx[j].id = i => j - d \in Pos' /\ rx'[j - d] = rx[j]

LEMMA DataKept ==
  ASSUME NEW g \in Handles, NEW d \in {0, 1}, Received(g),
         sock'[g].asked = sock[g].asked, sock'[g].got = sock[g].got,
         sock'[g].id = sock[g].id, packets'[sock[g].id] = packets[sock[g].id],
         sock[g].asked # NoLink => sent'[sock[g].asked] = sent[sock[g].asked],
         SameData(sock[g].id, d)
  PROVE  Received(g)'
<1> SUFFICES ASSUME sock[g].asked # NoLink PROVE Received(g)'
  BY DEF Received
<1> DEFINE i == sock[g].id
           l == sock[g].asked
           q == packets[i]
           n == Len(sock[g].got)
           b == Kept(g)
           D == Data(i)
           E == {j \in Pos' : rx'[j].kind = "IPD" /\ rx'[j].id = i}
<1>1. sock'[g].id = i /\ sock'[g].asked = l /\ packets'[i] = q /\ sent'[l] = sent[l]
      /\ Len(sock'[g].got) = n /\ Kept(g)' = b /\ sock'[g].got = sock[g].got
  BY DEF Kept
<1>2. Data(i)' = E
  BY <1>1 DEF Data, About
<1>3. ASSUME NEW j \in E PROVE j + d \in D /\ rx'[j] = rx[j + d] /\ j \in Nat
  BY DEF SameData, Data, About, Pos
<1>4. ASSUME NEW j \in D PROVE j - d \in E /\ rx'[j - d] = rx[j]
  BY DEF SameData, Data, About
<1>5. /\ \A k \in 1 .. n : sock[g].got[k] = <<l, k>>
      /\ \A k \in 1 .. Len(q) : /\ q[k].link = l /\ q[k].from < q[k].to
                                /\ q[k].from = IF k = 1 THEN n ELSE q[k-1].to
      /\ \A j \in D : /\ rx[j].link = l /\ rx[j].from < rx[j].to
                      /\ b <= rx[j].from /\ rx[j].to <= sent[l]
      /\ \A j, k \in D : j < k => rx[j].to <= rx[k].from
      /\ b <= sent[l]
      /\ \A x \in b .. sent[l] - 1 : \E j \in D : rx[j].from <= x /\ x < rx[j].to
  BY DEF Received
<1> HIDE DEF D, E, b, n, q, l
<1>6. \A j \in E : /\ rx'[j].link = l /\ rx'[j].from < rx'[j].to
                   /\ b <= rx'[j].from /\ rx'[j].to <= sent[l]
  BY <1>3, <1>5
<1>7. ASSUME NEW j \in E, NEW k \in E, j < k PROVE rx'[j].to <= rx'[k].from
  <2>1. j + d < k + d
    BY <1>3, <1>7
  <2> QED
    BY <1>3, <1>5, <2>1
<1>8. \A x \in b .. sent[l] - 1 : \E j \in E : rx'[j].from <= x /\ x < rx'[j].to
  BY <1>4, <1>5
<1> QED
  <2>1. Received(g)' <=>
          \/ sock'[g].asked = NoLink
          \/ /\ \A k \in 1 .. Len(sock'[g].got) : sock'[g].got[k] = <<sock'[g].asked, k>>
             /\ \A k \in 1 .. Len(packets'[sock'[g].id]) :
                  /\ packets'[sock'[g].id][k].link = sock'[g].asked
                  /\ packets'[sock'[g].id][k].from < packets'[sock'[g].id][k].to
                  /\ packets'[sock'[g].id][k].from = IF k = 1 THEN Len(sock'[g].got)
                        ELSE packets'[sock'[g].id][k-1].to
             /\ \A j \in Data(i)' :
                  /\ rx'[j].link = sock'[g].asked /\ rx'[j].from < rx'[j].to
                  /\ Kept(g)' <= rx'[j].from /\ rx'[j].to <= sent'[sock'[g].asked]
             /\ \A j, k \in Data(i)' : j < k => rx'[j].to <= rx'[k].from
             /\ Kept(g)' <= sent'[sock'[g].asked]
             /\ \A x \in Kept(g)' .. sent'[sock'[g].asked] - 1 :
                  \E j \in Data(i)' : rx'[j].from <= x /\ x < rx'[j].to
    BY <1>1 DEF Received
  <2> QED
    BY <1>1, <1>2, <1>5, <1>6, <1>7, <1>8, <2>1

LEMMA ReceivedKept ==
  ASSUME NEW g \in Handles, NEW d \in {0, 1}, NEW K, Received(g),
         sock'[g].asked = sock[g].asked, sock'[g].got = sock[g].got,
         sock'[g].id = sock[g].id, packets'[sock[g].id] = packets[sock[g].id],
         sock[g].asked # NoLink => sent'[sock[g].asked] = sent[sock[g].asked],
         SameLines(K, sock[g].id, d)
  PROVE  Received(g)'
  BY DataKept DEF SameLines, SameData

(* A step that neither reads nor writes the counts of the socket. *)
LEMMA CountedSame ==
  ASSUME NEW g \in Handles, Counted(g),
         sock'[g].asked = sock[g].asked, sock'[g].acked = sock[g].acked,
         \/ sock'[g].at = sock[g].at /\ sock'[g].chunks = sock[g].chunks
         \/ sock[g].at # "writing" /\ sock'[g].at \notin {"asking", "writing"},
         sock[g].asked # NoLink => /\ heard'[sock[g].asked] = heard[sock[g].asked]
                                   /\ said'[sock[g].asked] = said[sock[g].asked],
         sock[g].at = "writing" =>
           ((\E j \in Pos' : rx'[j].kind = "SEND_OK") <=> \E j \in Pos : rx[j].kind = "SEND_OK")
  PROVE  Counted(g)'
  BY DEF Counted

-----------------------------------------------------------------------------
(* The places of the stream after a line was read or added. *)
LEMMA TailPos ==
  ASSUME rx \in Seq(Lines), rx # <<>>, rx' = Tail(rx)
  PROVE  /\ 1 \in Pos /\ rx[1] = Head(rx) /\ Head(rx) \in Lines
         /\ \A j \in Pos' : j + 1 \in Pos /\ rx'[j] = rx[j + 1]
         /\ \A j \in Pos : j # 1 => j - 1 \in Pos' /\ rx'[j - 1] = rx[j]
  BY DEF Pos

LEMMA AppendPos ==
  ASSUME rx \in Seq(Lines), NEW l \in Lines, rx' = Append(rx, l)
  PROVE  /\ Len(rx) \in Nat
         /\ \A j \in Pos : j \in Pos' /\ rx'[j] = rx[j] /\ j <= Len(rx)
         /\ Len(rx) + 1 \in Pos' /\ rx'[Len(rx) + 1] = l
         /\ \A j \in Pos' : j \in Pos \/ j = Len(rx) + 1
  BY DEF Pos

LEMMA ConcatPos ==
  ASSUME rx \in Seq(Lines), NEW k \in Lines, NEW l \in Lines, rx' = rx \o <<k, l>>
  PROVE  /\ Len(rx) \in Nat
         /\ \A j \in Pos : j \in Pos' /\ rx'[j] = rx[j] /\ j <= Len(rx)
         /\ Len(rx) + 1 \in Pos' /\ rx'[Len(rx) + 1] = k
         /\ Len(rx) + 2 \in Pos' /\ rx'[Len(rx) + 2] = l
         /\ \A j \in Pos' : j \in Pos \/ j = Len(rx) + 1 \/ j = Len(rx) + 2
<1>1. <<k, l>> \in Seq(Lines) /\ Len(<<k, l>>) = 2 /\ <<k, l>>[1] = k /\ <<k, l>>[2] = l
  OBVIOUS
<1> DEFINE two == <<k, l>>
<1> HIDE DEF two
<1>2. Len(rx') = Len(rx) + 2 /\ \A j \in 1 .. Len(rx) + 2 :
        rx'[j] = IF j <= Len(rx) THEN rx[j] ELSE two[j - Len(rx)]
  BY <1>1, ConcatProperties DEF two
<1>3. Len(rx) \in Nat /\ two[1] = k /\ two[2] = l
  BY <1>1, LenProperties DEF two
<1>4. Pos = 1 .. Len(rx) /\ Pos' = 1 .. Len(rx) + 2
  BY <1>2 DEF Pos
<1>5. \A j \in Pos : j \in Pos' /\ rx'[j] = rx[j] /\ j <= Len(rx)
  BY ONLY <1>2, <1>3, <1>4
<1>6. /\ Len(rx) + 1 \in Pos' /\ rx'[Len(rx) + 1] = k
      /\ Len(rx) + 2 \in Pos' /\ rx'[Len(rx) + 2] = l
  BY ONLY <1>2, <1>3, <1>4
<1>7. \A j \in Pos' : j \in Pos \/ j = Len(rx) + 1 \/ j = Len(rx) + 2
  BY ONLY <1>2, <1>3, <1>4
<1> QED
  BY <1>3, <1>5, <1>6, <1>7

LEMMA LinesKept ==
  ASSUME rx' = rx, NEW K, NEW i
  PROVE  SameLines(K, i, 0)
  BY DEF SameLines, Pos

LEMMA LineRead ==
  ASSUME rx \in Seq(Lines), rx # <<>>, rx' = Tail(rx), NEW K, NEW i,
         Head(rx).id # i, Head(rx).kind \notin K
  PROVE  SameLines(K, i, 1)
  BY TailPos DEF SameLines

LEMMA LineAdded ==
  ASSUME rx \in Seq(Lines), NEW l \in Lines, rx' = Append(rx, l), NEW K, NEW i,
         l.id # i, l.kind \notin K
  PROVE  SameLines(K, i, 0)
<1>1. \A j \in Pos : j + 0 = j /\ j - 0 = j
  BY DEF Pos
<1>2. \A j \in Pos' : j + 0 = j
  BY DEF Pos
<1> QED
  BY <1>1, <1>2, AppendPos DEF SameLines

LEMMA LinesAdded ==
  ASSUME rx \in Seq(Lines), NEW k \in Lines, NEW l \in Lines, rx' = rx \o <<k, l>>,
         NEW K, NEW i, k.id # i, l.id # i, k.kind \notin K, l.kind \notin K
  PROVE  SameLines(K, i, 0)
<1>1. \A j \in Pos : j + 0 = j /\ j - 0 = j
  BY DEF Pos
<1>2. \A j \in Pos' : j + 0 = j
  BY DEF Pos
<1> QED
  BY <1>1, <1>2, ConcatPos DEF SameLines

-----------------------------------------------------------------------------
(* All of the invariant, as long as no call is late. *)
Synced == IInv /\ Shared /\ Quiet

(* What the invariant says of a socket in use. *)
LEMMA UsedFacts ==
  ASSUME Synced, NEW h \in Handles, Used(h)
  PROVE  /\ sock[h] \in Sockets /\ sock[h].id \in Ids /\ sock[h].id \in ids
         /\ Fine(h) /\ Asked(h)
         /\ \A g \in Handles \ {h} : Used(g) => sock[g].id # sock[h].id
  BY InUse DEF Synced, IInv, OneSocketPerId, Used, At, Quiet, Shared, SockOK

LEMMA Owner ==
  ASSUME Synced, NEW i \in ids
  PROVE  \E h \in Handles : Used(h) /\ sock[h].id = i
  BY DEF Synced, IInv, OneSocketPerId, Used, At

(* While nobody has the lock, the radio is idle and no answer is due. *)
LEMMA NobodyTalks ==
  ASSUME Synced, smutex = Nobody
  PROVE  /\ radio.op = "idle" /\ radio = Idle
         /\ \A j \in Pos : rx[j].kind \notin Answers
         /\ \A h \in Handles : sock[h].at \notin Held
  BY NobodyAssumption DEF Synced, IInv, RestOK, RadioOK, Shared, LockHeld, Quiet, Works, Awaited

(* A call that has the lock has it to itself. *)
LEMMA OneTalks ==
  ASSUME Synced, NEW h \in Handles, sock[h].at \in Held
  PROVE  smutex = h /\ \A g \in Handles \ {h} : sock[g].at \notin Held
  BY DEF Synced, Shared, LockHeld

LEMMA CleanKept ==
  ASSUME NEW i, Clean(i), World(i),
         \A j \in Pos' : rx'[j].id = i => \E k \in Pos : rx[k].id = i
  PROVE  Clean(i)'
  BY DEF Clean, World, Bits, Silent

(* A step of h, as the other sockets see it. *)
LEMMA OthersFine ==
  ASSUME Synced, NEW h \in Handles, Others(h), NEW g \in Handles \ {h}, Used(g),
         World(sock[g].id), NEW d \in {0, 1}, NEW K, SameLines(K, sock[g].id, d),
         K = Answers \/ sock[g].at \notin Held, SameRadio(g),
         \A l \in Links : l # sock[h].asked =>
           sent'[l] = sent[l] /\ heard'[l] = heard[l] /\ said'[l] = said[l]
  PROVE  Fine(g)'
<1>1. Fine(g) /\ sock'[g] = sock[g]
  BY UsedFacts DEF Others
<1>2. sock[g].asked # NoLink => sock[g].asked \in Links /\ sock[g].asked # sock[h].asked
  BY UsedFacts DEF Synced, Shared, AskedApart, Sockets
<1>3. Stays(g)
  BY <1>1 DEF Stays
<1>4. /\ sock[g].at = "closing" => "OK" \in K
      /\ sock[g].at = "connecting" => "OK" \in K
      /\ sock[g].at = "writing" => "SEND_OK" \in K
  BY DEF Answers, Held
<1>5. Ours(g)' /\ InOrder(g)' /\ Joining(g)'
  BY <1>1, <1>3, <1>4, OursKept, InOrderKept, JoiningKept DEF Fine, World
<1>6. Counted(g)' /\ Ended(g)'
  BY <1>1, <1>2, <1>4, CountedKept, EndedKept DEF Fine
<1>7. Received(g)'
  BY <1>1, <1>2, ReceivedKept DEF Fine, World
<1> QED
  BY <1>5, <1>6, <1>7 DEF Fine

(* A step of h that leaves the stream, or takes an answer from it. *)
LEMMA CallQuiet ==
  ASSUME Synced, NEW h \in Handles, Used(h), sock'[h].at # "none", Others(h), ids' = ids,
         smutex \in {h, Nobody}, Works', Awaited', Fine(h)',
         \A i \in Ids : i # sock[h].id => World(i),
         \/ rx' = rx
         \/ rx # <<>> /\ rx' = Tail(rx) /\ Head(rx).kind \in Answers,
         UNCHANGED <<sent, heard>>,
         \A l \in Links : l > attempts' => l > attempts /\ said'[l] = said[l],
         \A l \in Links : l # sock[h].asked => said'[l] = said[l]
  PROVE  Quiet'
<1>1. \A g \in Handles \ {h} : Used(g) => sock[g].id \in Ids /\ sock[g].id # sock[h].id
  BY UsedFacts
<1>2. \A g \in Handles \ {h} : sock[g].at \notin Held
  BY NobodyAssumption DEF Synced, Shared, LockHeld
<1>3. rx \in Seq(Lines)
  BY DEF Synced, IInv, RestOK
<1>4. \E d \in {0, 1} : \A i \in Ids : SameLines({}, i, d)
  <2>1. CASE rx' = rx
    BY <2>1, LinesKept
  <2>2. CASE rx # <<>> /\ rx' = Tail(rx) /\ Head(rx).kind \in Answers
    <3>1. Head(rx).id = NoId
      BY <1>3, <2>2, TailPos DEF Synced, Quiet, Awaited
    <3> QED
      BY <1>3, <2>2, <3>1, Numbers, LineRead
  <2> QED
    BY <2>1, <2>2
<1>5. ASSUME NEW g \in Handles \ {h}, Used(g) PROVE Fine(g)'
  <2>1. SameRadio(g)
    BY <1>2 DEF SameRadio, Held
  <2>2. PICK d \in {0, 1} : SameLines({}, sock[g].id, d)
    BY <1>1, <1>4, <1>5
  <2>3. World(sock[g].id)
    BY <1>1, <1>5
  <2> QED
    BY <1>2, <1>5, <2>1, <2>2, <2>3, OthersFine
<1>6. ASSUME NEW i \in Ids \ ids PROVE Clean(i)'
  <2>1. i # sock[h].id /\ Clean(i)
    BY UsedFacts DEF Synced, Quiet
  <2>2. \A j \in Pos' : rx'[j].id = i => \E k \in Pos : rx[k].id = i
    BY <1>4 DEF SameLines
  <2> QED
    BY <2>1, <2>2, CleanKept
<1>7. Later'
  BY DEF Later, Synced, Quiet
<1> QED
  BY <1>5, <1>6, <1>7 DEF Quiet, Used, Others

-----------------------------------------------------------------------------
(* A call that goes from one calm place to another and leaves the stream,  *)
(* the bits and the packets.                                               *)
LEMMA CalmKept ==
  ASSUME Synced, NEW h \in Handles, sock[h].at \in Calm, sock'[h].at \in Calm,
         sock'[h].id = sock[h].id, sock'[h].link = sock[h].link,
         sock'[h].asked = sock[h].asked, rx' = rx, Bits(sock[h].id),
         sock[h].link = NoLink => packets'[sock[h].id] = packets[sock[h].id]
  PROVE  Used(h) /\ Ours(h)' /\ InOrder(h)' /\ Joining(h)'
<1>1. Used(h)
  BY DEF Used, Calm
<1>2. Fine(h)
  BY <1>1, UsedFacts
<1>3. SameLines({}, sock[h].id, 0)
  BY LinesKept
<1>4. Stays(h) /\ SameRadio(h)
  BY DEF Stays, SameRadio, Calm
<1>5. sock[h].at \notin {"connecting", "closing"}
  BY DEF Calm
<1> QED
  BY <1>1, <1>2, <1>3, <1>4, <1>5, OursKept, InOrderKept, JoiningKept DEF Fine

(* The command for a chunk goes to an idle radio. *)
LEMMA TriesQuiet ==
  ASSUME NEW h \in Handles, NEW over \in BOOLEAN, TrySend(h, over), radio = Idle,
         sock'[h].id = sock[h].id, sock'[h].at = IF over THEN "rest" ELSE "asking"
  PROVE  Works'
<1>1. CASE over
  BY <1>1 DEF TrySend, Works, Idle, Command
<1>2. CASE ~over
  <2>1. radio' = Command("send", sock[h].id, sock[h].link) /\ smutex' = h
    BY <1>2 DEF TrySend, Tell, Idle, Command
  <2> QED
    BY <1>2, <2>1 DEF Works, Command
<1> QED
  BY <1>1, <1>2

LEMMA SendQuiet ==
  ASSUME Synced, late = 0, NEW h \in Handles, Send(h)
  PROVE  Quiet'
<1>1. Same(h) /\ Others(h) /\ sock[h].at = "rest" /\ sock'[h].at = "asking"
  BY SendMoves DEF Synced, IInv, Moves
<1>2. PICK n \in 1 .. Left : /\ sock'[h].chunks = n
                             /\ said' = [said EXCEPT ![sock[h].link] = @ + n]
  BY SendMoves DEF Synced, IInv
<1>3. UNCHANGED <<ids, idBits, idBitsClose, packets, rx, conn, attempts, sent, heard>>
  BY DEF Send
<1>4. /\ radio = Idle /\ \A j \in Pos : rx[j].kind \notin Answers
      /\ smutex = Nobody
  BY NobodyTalks DEF Send
<1>5. World(sock[h].id) /\ \A i \in Ids : World(i)
  BY <1>3 DEF World, Bits
<1>6. Used(h) /\ Ours(h)' /\ InOrder(h)' /\ Joining(h)'
  BY <1>1, <1>3, <1>5, CalmKept DEF Same, Calm, World
<1>7. Fine(h) /\ Asked(h) /\ sock[h].link \in Links /\ sock[h].asked = sock[h].link
  BY <1>6, UsedFacts DEF Asked, Send, Sockets
<1>8. said' = [said EXCEPT ![sock[h].link] = said[sock[h].link] + n] /\ n \in Nat /\ n > 0
  BY <1>2
<1>9. Counted(h)'
  <2>1. /\ sock[h].acked = heard[sock[h].link] /\ heard[sock[h].link] <= said[sock[h].link]
        /\ sock[h].acked \in Nat
    BY <1>1, <1>6, <1>7, UsedFacts, Numbers DEF Fine, Counted, Sockets
  <2>2. heard[sock[h].link] \in Nat /\ said[sock[h].link] \in Nat
        /\ said'[sock[h].link] = said[sock[h].link] + n
    BY <1>7, <1>8 DEF Synced, IInv, RestOK
  <2>3. /\ sock'[h].asked = sock[h].link /\ sock'[h].acked = sock[h].acked
        /\ heard' = heard
    BY <1>1, <1>3, <1>7 DEF Same
  <2> QED
    BY <1>1, <1>2, <1>8, <2>1, <2>2, <2>3 DEF Counted
<1>10. Received(h)' /\ Ended(h)'
  BY <1>1, <1>3, <1>5, <1>7, ReceivedKept, EndedKept, LinesKept DEF Fine, Same
<1>11. Works'
  BY <1>1, <1>4, TriesQuiet DEF Send, Same
<1>12. Awaited'
  BY <1>3, <1>4 DEF Awaited, Pos, Answers
<1>13. \A l \in Links : /\ l > attempts' => l > attempts /\ said'[l] = said[l]
                        /\ l # sock[h].asked => said'[l] = said[l]
  BY <1>3, <1>7, <1>8 DEF Synced, IInv, RestOK, Asked, Links
<1> QED
  BY <1>1, <1>3, <1>4, <1>5, <1>6, <1>9, <1>10, <1>11, <1>12, <1>13, CallQuiet DEF Fine

LEMMA SendFailsQuiet ==
  ASSUME Synced, late' = 0, NEW h \in Handles, SendFails(h)
  PROVE  Quiet'
<1>1. PICK over \in BOOLEAN : SendFailsMoves(h, over)
  BY SendFailsOver DEF Synced, IInv
<1>2. /\ TrySend(h, over) /\ Same(h) /\ Others(h) /\ sock[h].at \in {"asking", "writing"}
      /\ sock'[h].at = IF over THEN "rest" ELSE "asking"
      /\ sock'[h].chunks = sock[h].chunks
  BY <1>1 DEF SendFailsMoves
<1>3. UNCHANGED <<ids, idBits, idBitsClose, packets, rx, world>>
  BY DEF SendFails
<1>4. radio = Idle /\ rx = <<>> /\ late \in Nat
  BY DEF SendFails, GivesUp, Synced, IInv, RestOK
<1>5. World(sock[h].id) /\ \A i \in Ids : World(i)
  BY <1>3 DEF World, Bits, world
<1>6. Used(h) /\ Ours(h)' /\ InOrder(h)' /\ Joining(h)'
  BY <1>2, <1>3, <1>5, CalmKept DEF Same, Calm, World
<1>7. Fine(h) /\ Asked(h) /\ smutex = h /\ sock[h].asked # NoLink /\ sock[h].acked \in Nat
  BY <1>2, <1>6, UsedFacts, OneTalks DEF Asked, Sockets, Held
<1>8. Counted(h)'
  <2>1. ~ \E j \in Pos : rx[j].kind = "SEND_OK"
    BY <1>4 DEF Pos
  <2>2. heard[sock[h].asked] = sock[h].acked
    BY <1>7, <2>1 DEF Fine, Counted
  <2>3. /\ sock'[h].at # "writing" /\ sock'[h].asked = sock[h].asked
        /\ sock'[h].acked = sock[h].acked
        /\ said' = said /\ heard' = heard
    BY <1>2, <1>3 DEF Same, world
  <2> QED
    BY <1>2, <1>7, <2>2, <2>3 DEF Fine, Counted
<1>9. Received(h)' /\ Ended(h)'
  BY <1>2, <1>3, <1>5, <1>7, ReceivedKept, EndedKept, LinesKept DEF Fine, Same, world
<1>10. Works'
  BY <1>2, <1>4, TriesQuiet DEF Same
<1>11. Awaited'
  BY <1>3, <1>4 DEF Awaited, Pos
<1>12. UNCHANGED <<sent, heard, said, attempts>>
  BY <1>3 DEF world
<1>13. sock'[h].at # "none"
  BY <1>2
<1> QED
  BY <1>2, <1>3, <1>5, <1>6, <1>7, <1>8, <1>9, <1>10, <1>11, <1>12, <1>13, CallQuiet DEF Fine

-----------------------------------------------------------------------------
(* Receiving. *)
LEMMA RecvQuiet ==
  ASSUME Synced, late = 0, NEW h \in Handles, Recv(h) \/ RecvSome(h)
  PROVE  Quiet'
<1>1. /\ Same(h) /\ Others(h)
      /\ \/ sock[h].at = "rest" /\ sock'[h].at = "polling" /\ smutex = Nobody
         \/ sock[h].at = "taken" /\ sock'[h].at = "rest" /\ smutex = h
  BY RestMoves DEF Synced, IInv, Moves, Recv, RecvSome, Lock, Unlock
<1>2. UNCHANGED <<ids, idBits, idBitsClose, packets, rx, radio, world>>
  BY DEF Recv, RecvSome, line
<1>3. World(sock[h].id) /\ \A i \in Ids : World(i)
  BY <1>2 DEF World, Bits, world
<1>4. Used(h) /\ Ours(h)' /\ InOrder(h)' /\ Joining(h)'
  BY <1>1, <1>2, <1>3, CalmKept DEF Same, Calm, World
<1>5. Fine(h)
  BY <1>4, UsedFacts
<1>6. Counted(h)' /\ Received(h)' /\ Ended(h)'
  <2>1. SameLines({"SEND_OK"}, sock[h].id, 0)
    BY <1>2, LinesKept
  <2>2. Counted(h)'
    BY <1>1, <1>2, <1>5, <2>1, CountedKept DEF Fine, Same, world
  <2> QED
    BY <1>1, <1>2, <1>3, <1>5, <2>1, <2>2, ReceivedKept, EndedKept DEF Fine, Same, world
<1>7. radio.op = "idle" /\ \A j \in Pos : rx[j].kind \notin Answers
  BY <1>1, NobodyTalks DEF Synced, Quiet, Works, Awaited, IInv, RestOK, RadioOK, Commands, Answers
<1>8. Works' /\ Awaited'
  BY <1>2, <1>7 DEF Works, Awaited, Pos, Answers
<1>9. UNCHANGED <<sent, heard, said, attempts>>
  BY <1>2 DEF world
<1> QED
  BY <1>1, <1>2, <1>3, <1>4, <1>6, <1>8, <1>9, CallQuiet DEF Fine

LEMMA RecvNoneQuiet ==
  ASSUME Synced, late = 0, NEW h \in Handles, NEW last \in BOOLEAN, RecvNone(h, last)
  PROVE  Quiet'
<1>1. /\ Moves(h, "polling", "rest") /\ sock'[h].link = sock[h].link
      /\ sock'[h].id = sock[h].id /\ sock'[h].asked = sock[h].asked
      /\ sock'[h].got = sock[h].got /\ sock'[h].acked = sock[h].acked
      /\ sock'[h].ended = (sock[h].ended \/ (last /\ Gone(sock[h].id)))
  BY FieldMoves DEF Synced, IInv
<1>2. UNCHANGED <<ids, idBits, idBitsClose, packets, rx, radio, world>>
  BY DEF RecvNone, line
<1>3. World(sock[h].id) /\ \A i \in Ids : World(i)
  BY <1>2 DEF World, Bits, world
<1>4. Used(h) /\ Ours(h)' /\ InOrder(h)' /\ Joining(h)'
  BY <1>1, <1>2, <1>3, CalmKept DEF Moves, Calm, World
<1>5. Fine(h) /\ Asked(h) /\ smutex = h /\ rx = <<>> /\ Mine(h) = <<>>
  BY <1>1, <1>4, UsedFacts DEF RecvNone, Polled, Unlock
<1>6. Counted(h)' /\ Received(h)'
  <2>1. SameLines({}, sock[h].id, 0)
    BY <1>2, LinesKept
  <2> QED
    BY <1>1, <1>2, <1>5, <2>1, CountedKept, ReceivedKept DEF Fine, Moves, world
<1>7. Ended(h)'
  <2>1. CASE sock[h].ended
    BY <1>1, <1>2, <1>5, <2>1 DEF Fine, Ended, world
  <2>2. CASE Gone(sock[h].id)
    <3>1. sock[h].id \notin idBits
      BY <1>5, <2>2 DEF Gone, Fine, Ours
    <3>2. conn[sock[h].id] = NoLink
      BY <1>1, <1>5, <3>1 DEF Fine, Ours, Moves
    <3> QED
      BY <1>1, <1>2, <1>5, <3>1, <3>2 DEF Ended, Mine, world
  <2>3. CASE ~sock[h].ended /\ ~Gone(sock[h].id)
    BY <1>1, <2>3 DEF Ended
  <2> QED
    BY <2>1, <2>2, <2>3
<1>8. radio.op = "idle" /\ \A j \in Pos : rx[j].kind \notin Answers
  BY <1>1, <1>5 DEF Moves, Synced, Quiet, Works, IInv, RestOK, RadioOK, Commands, Pos
<1>9. Works' /\ Awaited'
  BY <1>2, <1>8 DEF Works, Awaited, Pos, Answers
<1>10. UNCHANGED <<sent, heard, said, attempts>>
  BY <1>2 DEF world
<1>11. sock'[h].at # "none" /\ Others(h)
  BY <1>1 DEF Moves
<1> QED
  BY <1>2, <1>3, <1>4, <1>5, <1>6, <1>7, <1>9, <1>10, <1>11, CallQuiet DEF Fine

(* Numbered bytes after numbered bytes. *)
LEMMA NumberedConcat ==
  ASSUME NEW T, NEW s \in Seq(T), NEW t \in Seq(T), NEW l,
         \A k \in 1 .. Len(s) : s[k] = <<l, k>>,
         \A k \in 1 .. Len(t) : t[k] = <<l, Len(s) + k>>
  PROVE  /\ Len(s \o t) = Len(s) + Len(t)
         /\ \A k \in 1 .. Len(s) + Len(t) : (s \o t)[k] = <<l, k>>
<1> DEFINE u == s \o t
           n == Len(s)
           m == Len(t)
<1>1. n \in Nat /\ m \in Nat
  BY LenProperties
<1>2. /\ u \in Seq(T) /\ Len(u) = n + m
      /\ \A k \in 1 .. n + m : u[k] = IF k <= n THEN s[k] ELSE t[k - n]
  BY ConcatProperties
<1> HIDE DEF u, n, m
<1>3. ASSUME NEW k \in 1 .. n + m PROVE u[k] = <<l, k>>
  <2>1. CASE k <= n
    <3>1. u[k] = s[k] /\ k \in 1 .. n
      BY <1>1, <1>2, <2>1
    <3> QED
      BY <3>1 DEF n
  <2>2. CASE k > n
    <3>1. u[k] = t[k - n] /\ k - n \in 1 .. m
      BY <1>1, <1>2, <2>2
    <3>2. t[k - n] = <<l, n + (k - n)>>
      BY <3>1 DEF n, m
    <3>3. n + (k - n) = k
      BY <1>1
    <3> QED
      BY <3>1, <3>2, <3>3
  <2> QED
    BY <1>1, <2>1, <2>2
<1> QED
  BY <1>2, <1>3 DEF u, n, m

(* A packet, or a part of it, goes to the buffer. *)
LEMMA PieceFacts ==
  ASSUME NEW s \in Seq(Bytes), NEW l \in Links,
         \A k \in 1 .. Len(s) : s[k] = <<l, k>>, NEW p \in Lines, p.link = l,
         p.from = Len(s), NEW n \in Nat
  PROVE  /\ Len(s \o Piece(p, n)) = Len(s) + n
         /\ \A k \in 1 .. Len(s) + n : (s \o Piece(p, n))[k] = <<l, k>>
<1> DEFINE t == Piece(p, n)
<1>1. t \in Seq(Bytes) /\ Len(t) = n
  <2>1. \A k \in 1 .. n : <<p.link, p.from + k>> \in Bytes
    BY DEF Lines, Bytes
  <2>2. t \in [1 .. n -> Bytes]
    BY <2>1 DEF Piece
  <2> QED
    BY <2>2, SeqDef, LenProperties
<1>2. \A k \in 1 .. n : t[k] = <<l, Len(s) + k>>
  BY DEF Piece
<1> HIDE DEF t
<1>3. /\ Len(s \o t) = Len(s) + Len(t)
      /\ \A k \in 1 .. Len(s) + Len(t) : (s \o t)[k] = <<l, k>>
  <2> DEFINE T == Bytes
  <2>1. s \in Seq(T) /\ t \in Seq(T) /\ \A k \in 1 .. Len(t) : t[k] = <<l, Len(s) + k>>
    BY <1>1, <1>2
  <2> HIDE DEF T
  <2> QED
    BY <2>1, NumberedConcat
<1> QED
  BY <1>1, <1>3 DEF t

-----------------------------------------------------------------------------
LEMMA TailFacts ==
  ASSUME NEW T, NEW s \in Seq(T), s # <<>>
  PROVE  /\ Len(Tail(s)) = Len(s) - 1 /\ \A k \in 1 .. Len(Tail(s)) : Tail(s)[k] = s[k + 1]
         /\ Tail(s) = <<>> <=> Len(s) = 1
<1>1. /\ Tail(s) \in Seq(T) /\ Len(Tail(s)) = Len(s) - 1
      /\ \A k \in 1 .. Len(Tail(s)) : Tail(s)[k] = s[k + 1]
  BY HeadTailProperties
<1>2. Tail(s) = <<>> <=> Len(Tail(s)) = 0
  BY <1>1, EmptySeq
<1> QED
  BY <1>1, <1>2, LenProperties

(* The list of packets of a socket in use. *)
LEMMA MineFacts ==
  ASSUME Synced, NEW h \in Handles, Used(h), Mine(h) # <<>>
  PROVE  /\ Mine(h) \in Seq({p \in Lines : p.kind = "IPD"}) /\ Mine(h) = packets[sock[h].id]
         /\ Head(Mine(h)) = Mine(h)[1] /\ Len(Mine(h)) \in Nat \ {0}
         /\ 1 \in 1 .. Len(Mine(h)) /\ Head(Mine(h)) \in Lines
         /\ \A k \in 1 .. Len(Mine(h)) : Mine(h)[k] \in Lines
<1>1. Mine(h) \in Seq({p \in Lines : p.kind = "IPD"})
  BY UsedFacts DEF Mine, Synced, IInv, RestOK, PacketsOK
<1> QED
  BY <1>1 DEF Mine

(* The first packet is the one that continues what was received. *)
LEMMA NextPacket ==
  ASSUME Synced, NEW h \in Handles, Used(h), Mine(h) # <<>>
  PROVE  /\ sock[h].asked \in Links /\ Received(h) /\ Head(Mine(h)) \in Lines
         /\ Head(Mine(h)).link = sock[h].asked /\ Head(Mine(h)).from = Len(sock[h].got)
         /\ sock[h].got \in Seq(Bytes)
         /\ \A k \in 1 .. Len(sock[h].got) : sock[h].got[k] = <<sock[h].asked, k>>
<1>1. Fine(h) /\ Asked(h) /\ sock[h] \in Sockets /\ sock[h].id \in Ids
  BY UsedFacts
<1>2. sock[h].link # NoLink
  BY <1>1 DEF Fine, Ours, Mine
<1>3. sock[h].asked # NoLink
  BY <1>1, <1>2 DEF Asked
<1>4. sock[h].asked \in Links /\ sock[h].got \in Seq(Bytes)
  BY <1>1, <1>3 DEF Sockets
<1>5. Received(h)
  BY <1>1 DEF Fine
<1>6. /\ 1 \in 1 .. Len(packets[sock[h].id]) /\ Head(Mine(h)) = packets[sock[h].id][1]
      /\ Head(Mine(h)) \in Lines
  <2>1. /\ Mine(h) = packets[sock[h].id] /\ Head(Mine(h)) = Mine(h)[1]
        /\ 1 \in 1 .. Len(Mine(h)) /\ Head(Mine(h)) \in Lines
    BY MineFacts
  <2> QED
    BY <2>1
<1>7. packets[sock[h].id][1].link = sock[h].asked
      /\ packets[sock[h].id][1].from = Len(sock[h].got)
  BY <1>3, <1>5, <1>6 DEF Received
<1>8. \A k \in 1 .. Len(sock[h].got) : sock[h].got[k] = <<sock[h].asked, k>>
  BY <1>3, <1>5 DEF Received
<1> QED
  BY <1>4, <1>5, <1>6, <1>7, <1>8

(* Moving bytes from the list to the buffer. *)
LEMMA ReceivedMoved ==
  ASSUME NEW h \in Handles, Received(h), sock[h].asked # NoLink,
         sock'[h].asked = sock[h].asked, sock'[h].id = sock[h].id,
         rx' = rx, sent' = sent, Kept(h)' = Kept(h),
         \A k \in 1 .. Len(sock'[h].got) : sock'[h].got[k] = <<sock[h].asked, k>>,
         \A k \in 1 .. Len(packets'[sock[h].id]) :
           /\ packets'[sock[h].id][k].link = sock[h].asked
           /\ packets'[sock[h].id][k].from < packets'[sock[h].id][k].to
           /\ packets'[sock[h].id][k].from =
                IF k = 1 THEN Len(sock'[h].got) ELSE packets'[sock[h].id][k-1].to
  PROVE  Received(h)'
<1> DEFINE i == sock[h].id
           l == sock[h].asked
           b == Kept(h)
           D == Data(i)
           s == sent[l]
<1>1. Data(i)' = D
  BY DEF Data, About, Pos
<1>2. sent'[l] = s
  OBVIOUS
<1>3. /\ \A j \in D : /\ rx[j].link = l /\ rx[j].from < rx[j].to
                      /\ b <= rx[j].from /\ rx[j].to <= s
      /\ \A j, k \in D : j < k => rx[j].to <= rx[k].from
      /\ b <= s
      /\ \A x \in b .. s - 1 : \E j \in D : rx[j].from <= x /\ x < rx[j].to
  BY DEF Received
<1>4. sock'[h].asked = l /\ sock'[h].id = i /\ Kept(h)' = b
  OBVIOUS
<1> HIDE DEF b, D, s
<1>5. Received(h)' <=>
          \/ sock'[h].asked = NoLink
          \/ /\ \A k \in 1 .. Len(sock'[h].got) : sock'[h].got[k] = <<sock'[h].asked, k>>
             /\ \A k \in 1 .. Len(packets'[sock'[h].id]) :
                  /\ packets'[sock'[h].id][k].link = sock'[h].asked
                  /\ packets'[sock'[h].id][k].from < packets'[sock'[h].id][k].to
                  /\ packets'[sock'[h].id][k].from = IF k = 1 THEN Len(sock'[h].got)
                        ELSE packets'[sock'[h].id][k-1].to
             /\ \A j \in Data(i)' :
                  /\ rx'[j].link = sock'[h].asked /\ rx'[j].from < rx'[j].to
                  /\ Kept(h)' <= rx'[j].from /\ rx'[j].to <= sent'[sock'[h].asked]
             /\ \A j, k \in Data(i)' : j < k => rx'[j].to <= rx'[k].from
             /\ Kept(h)' <= sent'[sock'[h].asked]
             /\ \A x \in Kept(h)' .. sent'[sock'[h].asked] - 1 :
                  \E j \in Data(i)' : rx'[j].from <= x /\ x < rx'[j].to
  BY <1>4 DEF Received
<1> QED
  BY <1>1, <1>2, <1>3, <1>4, <1>5

LEMMA PacketMoved ==
  ASSUME Synced, NEW h \in Handles, Used(h), Mine(h) # <<>>,
         sock'[h].asked = sock[h].asked, sock'[h].id = sock[h].id, rx' = rx, sent' = sent,
         sock'[h].got = sock[h].got \o Piece(Head(Mine(h)), Size(Head(Mine(h)))),
         packets'[sock[h].id] = Tail(Mine(h))
  PROVE  Received(h)'
<1> DEFINE q == Mine(h)
           r == Tail(Mine(h))
           n == Len(sock[h].got)
           l == sock[h].asked
<1>1. /\ l \in Links /\ Received(h) /\ Head(q) \in Lines
      /\ Head(q).link = l /\ Head(q).from = n
      /\ sock[h].got \in Seq(Bytes)
      /\ \A k \in 1 .. n : sock[h].got[k] = <<l, k>>
  BY NextPacket
<1>2. /\ q \in Seq({p \in Lines : p.kind = "IPD"}) /\ q = packets[sock[h].id]
      /\ Head(q) = q[1] /\ Len(q) \in Nat \ {0} /\ \A k \in 1 .. Len(q) : q[k] \in Lines
  BY MineFacts
<1>3. Head(q).to \in Nat /\ Head(q).from <= Head(q).to /\ n \in Nat
      /\ Size(Head(q)) \in Nat /\ n + Size(Head(q)) = Head(q).to
  BY <1>1 DEF Lines, Size
<1>4. Len(sock'[h].got) = q[1].to /\ \A k \in 1 .. Len(sock'[h].got) : sock'[h].got[k] = <<l, k>>
  <2> DEFINE m == Size(Head(q))
             p == Head(q)
             s == sock[h].got
  <2>1. p \in Lines /\ p.link = l /\ p.from = Len(s) /\ m \in Nat
        /\ s \in Seq(Bytes) /\ \A k \in 1 .. Len(s) : s[k] = <<l, k>>
    BY <1>1, <1>3
  <2>2. sock'[h].got = s \o Piece(p, m)
    OBVIOUS
  <2> HIDE DEF m, p, s
  <2>3. Len(s \o Piece(p, m)) = Len(s) + m
        /\ \A k \in 1 .. Len(s) + m : (s \o Piece(p, m))[k] = <<l, k>>
    BY <1>1, <2>1, PieceFacts
  <2>4. Len(sock'[h].got) = Len(s) + m /\ \A k \in 1 .. Len(s) + m : sock'[h].got[k] = <<l, k>>
    BY <2>2, <2>3
  <2> QED
    BY <1>2, <1>3, <2>4 DEF m, p, s
<1>5. /\ Len(r) = Len(q) - 1 /\ \A k \in 1 .. Len(r) : r[k] = q[k + 1]
      /\ r = <<>> <=> Len(q) = 1
  BY <1>2, TailFacts
<1>6. l # NoLink
  BY <1>1, Numbers
<1>7. \A k \in 1 .. Len(q) : /\ q[k].link = l /\ q[k].from < q[k].to
                             /\ q[k].from = IF k = 1 THEN n ELSE q[k-1].to
  BY <1>1, <1>2, <1>6 DEF Received
<1> HIDE DEF q, r, n, l
<1>8. ASSUME NEW k \in 1 .. Len(r)
      PROVE  /\ r[k].link = l /\ r[k].from < r[k].to
             /\ r[k].from = IF k = 1 THEN q[1].to ELSE r[k-1].to
  <2>1. k + 1 \in 1 .. Len(q) /\ k + 1 # 1 /\ (k + 1) - 1 = k /\ r[k] = q[k + 1]
    BY <1>2, <1>5
  <2>2. q[k + 1].from = q[k].to
    BY <1>7, <2>1
  <2>3. k # 1 => k - 1 \in 1 .. Len(r) /\ r[k - 1] = q[k]
    <3>1. k # 1 => k - 1 \in 1 .. Len(r) /\ (k - 1) + 1 = k
      BY <1>2, <1>5
    <3> QED
      BY <1>5, <3>1
  <2> QED
    BY <1>7, <2>1, <2>2, <2>3
<1>9. Kept(h) = q[Len(q)].to
  BY <1>2 DEF Kept
<1>10. Kept(h)' = q[Len(q)].to
  <2>1. packets'[sock'[h].id] = r
    BY DEF r
  <2>2. CASE r = <<>>
    BY <1>4, <1>5, <2>1, <2>2 DEF Kept
  <2>3. CASE r # <<>>
    <3>1. Len(r) \in 1 .. Len(r) /\ Len(r) + 1 = Len(q)
      BY <1>2, <1>5, <2>3
    <3>2. r[Len(r)] = q[Len(q)]
      BY <1>5, <3>1
    <3> QED
      BY <2>1, <2>3, <3>2 DEF Kept
  <2> QED
    BY <2>2, <2>3
<1> QED
  BY <1>1, <1>4, <1>6, <1>8, <1>9, <1>10, ReceivedMoved DEF l, r

-----------------------------------------------------------------------------
LEMMA LineNat ==
  ASSUME NEW p \in Lines
  PROVE  p.from \in Nat /\ p.to \in Nat
  BY DEF Lines

LEMMA PartMoved ==
  ASSUME Synced, NEW h \in Handles, Used(h), Mine(h) # <<>>, NEW n \in Nat,
         n < Size(Head(Mine(h))),
         sock'[h].asked = sock[h].asked, sock'[h].id = sock[h].id, rx' = rx, sent' = sent,
         sock'[h].got = sock[h].got \o Piece(Head(Mine(h)), n),
         packets'[sock[h].id] = [Mine(h) EXCEPT ![1].from = @ + n]
  PROVE  Received(h)'
<1> DEFINE q == Mine(h)
           r == [q EXCEPT ![1].from = @ + n]
           m == Len(sock[h].got)
           l == sock[h].asked
<1>1. /\ l \in Links /\ Received(h) /\ Head(q) \in Lines
      /\ Head(q).link = l /\ Head(q).from = m
      /\ sock[h].got \in Seq(Bytes)
      /\ \A k \in 1 .. m : sock[h].got[k] = <<l, k>>
  BY NextPacket
<1>2. /\ q \in Seq({p \in Lines : p.kind = "IPD"}) /\ q = packets[sock[h].id]
      /\ Head(q) = q[1] /\ Len(q) \in Nat \ {0} /\ \A k \in 1 .. Len(q) : q[k] \in Lines
      /\ 1 \in 1 .. Len(q)
  BY MineFacts
<1>3. Head(q).to \in Nat /\ m \in Nat /\ m + n < Head(q).to
  BY <1>1 DEF Lines, Size
<1>4. Len(sock'[h].got) = m + n /\ \A k \in 1 .. m + n : sock'[h].got[k] = <<l, k>>
  <2> DEFINE p == Head(q)
             s == sock[h].got
             g == sock'[h].got
             a == sock[h].asked
  <2>1. /\ p \in Lines /\ p.link = a /\ p.from = Len(s) /\ a \in Links
        /\ s \in Seq(Bytes) /\ \A k \in 1 .. Len(s) : s[k] = <<a, k>>
    <3>1. p \in Lines
      BY <1>1
    <3>2. p.link = a
      BY <1>1
    <3>3. p.from = Len(s)
      BY <1>1
    <3>4. a \in Links
      BY <1>1
    <3>5. s \in Seq(Bytes)
      BY <1>1
    <3>6. \A k \in 1 .. Len(s) : s[k] = <<a, k>>
      BY <1>1
    <3> QED
      BY <3>1, <3>2, <3>3, <3>4, <3>5, <3>6
  <2>2. g = s \o Piece(p, n) /\ m = Len(s) /\ l = a
    OBVIOUS
  <2> HIDE DEF p, s, g, a, m, l
  <2>3. Len(s \o Piece(p, n)) = Len(s) + n
        /\ \A k \in 1 .. Len(s) + n : (s \o Piece(p, n))[k] = <<a, k>>
    <3> HIDE DEF q, r
    <3> QED
      BY ONLY <2>1, n \in Nat, PieceFacts
  <2>4. Len(g) = m + n /\ \A k \in 1 .. m + n : g[k] = <<l, k>>
    BY <2>2, <2>3
  <2> QED
    BY <2>4 DEF g
<1>5. /\ Len(r) = Len(q) /\ \A k \in 1 .. Len(q) : k # 1 => r[k] = q[k]
      /\ r[1] = [q[1] EXCEPT !.from = q[1].from + n] /\ r # <<>>
  <2> HIDE DEF q
  <2>1. q \in [1 .. Len(q) -> {p \in Lines : p.kind = "IPD"}]
    BY <1>2, LenProperties
  <2>2. r = [k \in 1 .. Len(q) |-> IF k = 1 THEN [q[1] EXCEPT !.from = q[1].from + n] ELSE q[k]]
    BY <1>2, <2>1
  <2>3. /\ DOMAIN r = 1 .. Len(q) /\ \A k \in 1 .. Len(q) : k # 1 => r[k] = q[k]
        /\ r[1] = [q[1] EXCEPT !.from = q[1].from + n]
    BY <1>2, <2>2
  <2>4. q[1] \in Lines /\ [q[1] EXCEPT !.from = q[1].from + n] \in
          [kind : Kinds, id : Ids \cup {NoId}, link : Links \cup {NoLink}, from : Nat, to : Nat]
    <3>1. q[1] \in Lines /\ q[1].from \in Nat /\ q[1].from + n \in Nat
      <4>1. q[1] \in Lines
        BY <1>2
      <4> QED
        BY <4>1, LineNat
    <3> DEFINE e == q[1]
               f == q[1].from + n
    <3>2. e \in Lines /\ f \in Nat
      BY <3>1
    <3> HIDE DEF e, f
    <3>3. [e EXCEPT !.from = f] \in
            [kind : Kinds, id : Ids \cup {NoId}, link : Links \cup {NoLink}, from : Nat, to : Nat]
      BY <3>2 DEF Lines
    <3>4. q[1] \in Lines
      BY <3>1
    <3> QED
      BY <3>3, <3>4 DEF e, f
  <2>5. r \in Seq([kind : Kinds, id : Ids \cup {NoId}, link : Links \cup {NoLink},
                   from : Nat, to : Nat])
    <3> DEFINE R == [kind : Kinds, id : Ids \cup {NoId}, link : Links \cup {NoLink},
                     from : Nat, to : Nat]
    <3>1. \A k \in 1 .. Len(q) : q[k] \in R
      BY <1>2 DEF Lines
    <3> DEFINE f == [q[1] EXCEPT !.from = q[1].from + n]
    <3>2. f \in R
      BY <2>4
    <3> HIDE DEF R, r, f
    <3>3. r = [k \in 1 .. Len(q) |-> IF k = 1 THEN f ELSE q[k]]
      BY <2>2 DEF f
    <3>4. r \in [1 .. Len(q) -> R]
      BY <3>1, <3>2, <3>3
    <3>5. r \in Seq(R)
      BY <1>2, <3>4, SeqDef
    <3> QED
      BY <3>5 DEF R
  <2>6. Len(r) = Len(q)
    BY <1>2, <2>3, <2>5, LenProperties
  <2> HIDE DEF r
  <2> QED
    BY <1>2, <2>3, <2>5, <2>6, EmptySeq
<1>6. l # NoLink
  BY <1>1, Numbers
<1>7. \A k \in 1 .. Len(q) : /\ q[k].link = l /\ q[k].from < q[k].to
                             /\ q[k].from = IF k = 1 THEN m ELSE q[k-1].to
  BY <1>1, <1>2, <1>6 DEF Received
<1>8. r[1].link = l /\ r[1].from = m + n /\ r[1].to = q[1].to
  <2>1. q[1] \in Lines /\ q[1].link = l /\ q[1].from = m
    BY <1>1, <1>2
  <2> DEFINE e == q[1]
             f == q[1].from + n
  <2>2. f = m + n /\ e \in Lines /\ r[1] = [e EXCEPT !.from = f] /\ e.link = l
    BY <1>5, <2>1
  <2> HIDE DEF e, f
  <2>3. r[1].link = e.link /\ r[1].from = f /\ r[1].to = e.to
    BY <2>2 DEF Lines
  <2> QED
    BY <2>2, <2>3 DEF e
<1>9. packets'[sock'[h].id] = r
  OBVIOUS
<1> HIDE DEF q, r, m, l
<1>10. ASSUME NEW k \in 1 .. Len(r)
       PROVE  /\ r[k].link = l /\ r[k].from < r[k].to
              /\ r[k].from = IF k = 1 THEN m + n ELSE r[k-1].to
  <2>1. CASE k = 1
    BY <1>2, <1>3, <1>8, <2>1
  <2>2. CASE k # 1
    <3>1. k \in 1 .. Len(q) /\ r[k] = q[k] /\ k - 1 \in 1 .. Len(q)
      BY <1>2, <1>5, <2>2
    <3>2. r[k - 1].to = q[k - 1].to
      BY <1>5, <1>8, <3>1
    <3> QED
      BY <1>7, <2>2, <3>1, <3>2
  <2> QED
    BY <2>1, <2>2
<1>11. Kept(h) = q[Len(q)].to
  BY <1>2 DEF Kept
<1>12. Kept(h)' = q[Len(q)].to
  <2>1. Len(q) \in 1 .. Len(q)
    BY <1>2
  <2>2. r[Len(q)].to = q[Len(q)].to
    BY <1>5, <1>8, <2>1
  <2> QED
    BY <1>5, <1>9, <2>2 DEF Kept
<1> QED
  <2>1. /\ Received(h) /\ sock[h].asked # NoLink
        /\ sock'[h].asked = sock[h].asked /\ sock'[h].id = sock[h].id
        /\ rx' = rx /\ sent' = sent /\ Kept(h)' = Kept(h)
    BY <1>1, <1>6, <1>11, <1>12 DEF l
  <2>2. \A k \in 1 .. Len(sock'[h].got) : sock'[h].got[k] = <<sock[h].asked, k>>
    BY <1>4 DEF l
  <2>3. packets'[sock[h].id] = r
    BY <1>9
  <2>4. \A k \in 1 .. Len(packets'[sock[h].id]) :
          /\ packets'[sock[h].id][k].link = sock[h].asked
          /\ packets'[sock[h].id][k].from < packets'[sock[h].id][k].to
          /\ packets'[sock[h].id][k].from =
                IF k = 1 THEN Len(sock'[h].got) ELSE packets'[sock[h].id][k-1].to
    BY <1>4, <1>10, <2>3 DEF l
  <2> QED
    BY <2>1, <2>2, <2>4, ReceivedMoved

LEMMA TakeQuiet ==
  ASSUME Synced, late = 0, NEW h \in Handles, TakePacket(h) \/ TakePart(h)
  PROVE  Quiet'
<1>1. /\ Others(h) /\ sock[h].at \in {"polling", "taken"} /\ sock'[h].at \in {"taken", "rest"}
      /\ sock'[h].id = sock[h].id /\ sock'[h].link = sock[h].link
      /\ sock'[h].asked = sock[h].asked /\ sock'[h].ended = sock[h].ended
      /\ sock'[h].acked = sock[h].acked
  BY TakeMoves DEF Synced, IInv
<1>2. UNCHANGED <<ids, idBits, idBitsClose, rx, radio, world>> /\ Mine(h) # <<>>
  BY DEF TakePacket, TakePart, line
<1>3. Used(h) /\ sock[h].link # NoLink /\ smutex = h
  BY <1>1, UsedFacts, OneTalks DEF Used, Asked, Held
<1>4. /\ Fine(h) /\ sock[h].id \in Ids /\ packets \in [Ids -> Seq({p \in Lines : p.kind = "IPD"})]
      /\ Mine(h) = packets[sock[h].id] /\ sock[h].room \in Nat
  BY <1>3, UsedFacts DEF Mine, Synced, IInv, RestOK, PacketsOK, Sockets
<1>5. \A i \in Ids : Bits(i) /\ (i # sock[h].id => World(i))
  BY <1>2, <1>4 DEF World, Bits, world, TakePacket, TakePart
<1>6. Ours(h)' /\ InOrder(h)' /\ Joining(h)'
  BY <1>1, <1>2, <1>3, <1>4, <1>5, CalmKept DEF Calm
<1>7. Received(h)'
  <2>1. CASE TakePacket(h)
    <3>1. packets'[sock[h].id] = Tail(Mine(h))
      BY <1>4, <2>1 DEF TakePacket
    <3>2. sock'[h].got = sock[h].got \o Piece(Head(Mine(h)), Size(Head(Mine(h))))
      BY <2>1, TakeMoves DEF Synced, IInv
    <3> QED
      BY <1>1, <1>2, <1>3, <3>1, <3>2, PacketMoved DEF world
  <2>2. CASE TakePart(h)
    <3>1. packets'[sock[h].id] = [Mine(h) EXCEPT ![1].from = @ + sock[h].room]
      BY <1>4, <2>2 DEF TakePart
    <3>2. sock'[h].got = sock[h].got \o Piece(Head(Mine(h)), sock[h].room)
      BY <2>2, TakeMoves DEF Synced, IInv
    <3>3. sock[h].room < Size(Head(Mine(h)))
      <4>1. Head(Mine(h)) \in Lines /\ Size(Head(Mine(h))) > sock[h].room
        BY <1>2, <1>3, <2>2, MineFacts DEF TakePart
      <4> QED
        BY <1>4, <4>1 DEF Size, Lines
    <3> QED
      BY <1>1, <1>2, <1>3, <1>4, <3>1, <3>2, <3>3, PartMoved DEF world
  <2> QED
    BY <2>1, <2>2
<1>8. Counted(h)'
  <2>1. SameLines({}, sock[h].id, 0)
    BY <1>2, LinesKept
  <2> QED
    BY <1>1, <1>2, <1>4, <2>1, CountedKept DEF Fine, world
<1>9. Ended(h)'
  BY <1>1, <1>2, <1>4 DEF Fine, Ended, Mine, world
<1>10. radio.op = "idle" /\ \A j \in Pos : rx[j].kind \notin Answers
  BY <1>1, <1>3 DEF Synced, Quiet, Works, Awaited, IInv, RestOK, RadioOK, Commands, Answers
<1>11. Works' /\ Awaited'
  BY <1>2, <1>10 DEF Works, Awaited, Pos, Answers
<1>12. UNCHANGED <<sent, heard, said, attempts>>
  BY <1>2 DEF world
<1>13. sock'[h].at # "none"
  BY <1>1
<1> QED
  BY <1>1, <1>2, <1>3, <1>5, <1>6, <1>7, <1>8, <1>9, <1>11, <1>12, <1>13, CallQuiet DEF Fine

-----------------------------------------------------------------------------
(* A socket that has not asked for a connection. *)
LEMMA FreshFacts ==
  ASSUME Synced, NEW h \in Handles, sock[h].at = "rest", sock[h].asked = NoLink
  PROVE  /\ Used(h) /\ Clean(sock[h].id) /\ sock[h].link = NoLink
         /\ sock[h].got = <<>> /\ sock[h].acked = 0 /\ sock[h].ended = FALSE
<1>1. Used(h) /\ Fine(h) /\ Asked(h) /\ sock[h].link = NoLink /\ sock[h] \in Sockets
  BY UsedFacts DEF Used, Asked
<1>2. sock[h].got = <<>> /\ sock[h].acked = 0 /\ ~sock[h].ended /\ sock[h].ended \in BOOLEAN
  BY <1>1 DEF Asked, Sockets
<1>3. Clean(sock[h].id)
  BY <1>1 DEF Fine, Ours, InOrder, Clean, Silent
<1> QED
  BY <1>1, <1>2, <1>3

LEMMA FreshReceived ==
  ASSUME NEW h \in Handles, sock'[h].got = <<>>, packets'[sock'[h].id] = <<>>, Silent(sock[h].id)',
         sock'[h].asked # NoLink => sent'[sock'[h].asked] = 0
  PROVE  Received(h)'
<1>1. Kept(h)' = 0
  BY DEF Kept
<1>2. \A j \in Pos' : rx'[j].id # sock'[h].id
  BY DEF Silent
<1>3. Data(sock[h].id)' = {}
  BY <1>2 DEF Data, About
<1>4. 0 .. (0 - 1) = {}
  OBVIOUS
<1> QED
  BY <1>1, <1>2, <1>4 DEF Received, Data, About, Kept

LEMMA ConnectQuiet ==
  ASSUME Synced, late = 0, NEW h \in Handles, Connect(h)
  PROVE  Quiet'
<1>1. /\ Moves(h, "rest", "connecting") /\ sock'[h].asked = attempts + 1
      /\ sock'[h].id = sock[h].id /\ sock'[h].link = sock[h].link
      /\ sock'[h].got = sock[h].got /\ sock'[h].ended = sock[h].ended
      /\ sock'[h].acked = sock[h].acked
  BY FieldMoves DEF Synced, IInv
<1>2. /\ UNCHANGED <<ids, idBits, idBitsClose, packets, rx, conn, sent, said, heard>>
      /\ attempts' = attempts + 1 /\ smutex = Nobody /\ smutex' = h /\ sock[h].asked = NoLink
      /\ Tell(Command("connect", sock[h].id, attempts')) /\ attempts < Attempts
  BY DEF Connect, Lock
<1>3. /\ Used(h) /\ Clean(sock[h].id) /\ sock[h].link = NoLink
      /\ sock[h].got = <<>> /\ sock[h].acked = 0 /\ sock[h].ended = FALSE
  BY <1>1, <1>2, FreshFacts DEF Moves
<1>4. radio = Idle /\ \A j \in Pos : rx[j].kind \notin Answers
  BY <1>2, NobodyTalks
<1>5. radio' = Command("connect", sock[h].id, attempts + 1)
  BY <1>2, <1>4 DEF Tell, Idle, Command
<1>6. \A i \in Ids : World(i)
  BY <1>2 DEF World, Bits
<1>7. attempts \in Nat /\ attempts + 1 \in Links /\ attempts + 1 # NoLink /\ Later
  BY <1>2, CountAssumption DEF Synced, IInv, RestOK, Quiet, Links, NoLink
<1>8. sent[attempts + 1] = 0 /\ heard[attempts + 1] = 0 /\ said[attempts + 1] = 0
  BY <1>7 DEF Later
<1>9. Pos' = Pos
  BY <1>2 DEF Pos
<1>10. Silent(sock[h].id) /\ Silent(sock[h].id)'
  BY <1>1, <1>2, <1>3 DEF Clean, Silent, Pos
<1>11. Ours(h)' /\ InOrder(h)' /\ Joining(h)'
  <2>1. Ours(h)'
    BY <1>1, <1>2, <1>3 DEF Moves, Ours, Clean
  <2>2. InOrder(h)'
    BY <1>1, <1>2, <1>3, <1>9 DEF Moves, InOrder, Clean, Silent, About
  <2>3. Joining(h)'
    BY <1>1, <1>2, <1>3, <1>4, <1>9 DEF Moves, Joining, Clean, Silent, Answers
  <2> QED
    BY <2>1, <2>2, <2>3
<1>12. Counted(h)' /\ Ended(h)'
  BY <1>1, <1>2, <1>3, <1>8 DEF Counted, Ended, Moves
<1>13. Received(h)'
  BY <1>1, <1>2, <1>3, <1>8, <1>10, FreshReceived DEF Clean
<1>14. Works'
  BY <1>1, <1>2, <1>5 DEF Works, Command, Moves
<1>15. Awaited'
  BY <1>2, <1>4, <1>9 DEF Awaited, Answers
<1>16. \A l \in Links : l > attempts' => l > attempts /\ said'[l] = said[l]
  BY <1>2, <1>7 DEF Links
<1>17. sock'[h].at # "none" /\ Others(h)
  BY <1>1 DEF Moves
<1> QED
  BY <1>2, <1>3, <1>6, <1>11, <1>12, <1>13, <1>14, <1>15, <1>16, <1>17, CallQuiet DEF Fine

-----------------------------------------------------------------------------
(* The answer a call waited for is the only one, and about no id. *)
LEMMA AnswerTaken ==
  ASSUME Synced, NEW h \in Handles, NEW w \in {"connecting", "asking", "writing", "closing"},
         Answered(h, w)
  PROVE  /\ sock[h].at = w /\ smutex = h /\ Used(h) /\ Fine(h) /\ Asked(h)
         /\ sock[h].id \in Ids /\ rx # <<>> /\ rx' = Tail(rx)
         /\ 1 \in Pos /\ rx[1].kind = Waits[w] /\ Head(rx).kind \in Answers /\ rx[1].id = NoId
         /\ \A j \in Pos' : j + 1 \in Pos /\ rx'[j] = rx[j + 1]
         /\ \A j \in Pos' : rx'[j].kind \notin Answers
         /\ \A i \in Ids : SameLines({}, i, 1)
<1>1. sock[h].at = w /\ smutex = h /\ rx # <<>> /\ rx' = Tail(rx) /\ Head(rx).kind = Waits[w]
  BY DEF Answered, At, Busy, Wanted
<1>2. Used(h) /\ Fine(h) /\ Asked(h) /\ sock[h].id \in Ids
  BY <1>1, UsedFacts DEF Used
<1>3. rx \in Seq(Lines)
  BY DEF Synced, IInv, RestOK
<1>4. /\ 1 \in Pos /\ rx[1] = Head(rx)
      /\ \A j \in Pos' : j + 1 \in Pos /\ rx'[j] = rx[j + 1]
  BY <1>1, <1>3, TailPos
<1>5. Waits[w] \in Answers
  BY DEF Waits, Answers
<1>6. rx[1].id = NoId
  BY <1>1, <1>4, <1>5 DEF Synced, Quiet, Awaited
<1>7. ASSUME NEW j \in Pos' PROVE rx'[j].kind \notin Answers
  <2>1. j + 1 \in Pos /\ rx'[j] = rx[j + 1] /\ j + 1 # 1
    BY <1>4 DEF Pos
  <2>2. \A k \in Pos : rx[1].kind \in Answers /\ rx[k].kind \in Answers => k = 1
    BY <1>4 DEF Synced, Quiet, Awaited
  <2> QED
    BY <1>1, <1>4, <1>5, <2>1, <2>2
<1>8. ASSUME NEW i \in Ids PROVE SameLines({}, i, 1)
  BY <1>1, <1>3, <1>4, <1>6, Numbers, LineRead
<1> QED
  BY <1>1, <1>2, <1>4, <1>5, <1>6, <1>7, <1>8

LEMMA ConnectDoneQuiet ==
  ASSUME Synced, late = 0, NEW h \in Handles, ConnectDone(h)
  PROVE  Quiet'
<1> DEFINE i == sock[h].id
<1>1. Answered(h, "connecting")
  BY DEF ConnectDone
<1>2. /\ sock[h].at = "connecting" /\ smutex = h /\ Used(h) /\ Fine(h) /\ Asked(h)
      /\ sock[h].id \in Ids /\ rx # <<>> /\ rx' = Tail(rx)
      /\ 1 \in Pos /\ rx[1].kind = "OK" /\ Head(rx).kind \in Answers /\ rx[1].id = NoId
      /\ \A j \in Pos' : j + 1 \in Pos /\ rx'[j] = rx[j + 1]
      /\ \A j \in Pos' : rx'[j].kind \notin Answers
      /\ SameLines({}, sock[h].id, 1)
  BY <1>1, AnswerTaken DEF Waits
<1>3. /\ Moves(h, "connecting", "rest") /\ sock'[h].link = sock[h].asked
      /\ sock'[h].id = sock[h].id /\ sock'[h].asked = sock[h].asked
      /\ sock'[h].got = sock[h].got /\ sock'[h].ended = sock[h].ended
      /\ sock'[h].acked = sock[h].acked
  BY FieldMoves DEF Synced, IInv
<1>4. UNCHANGED <<ids, idBits, idBitsClose, radio, conn, attempts, sent, said, heard>>
      /\ packets' = [packets EXCEPT ![i] = <<>>] /\ smutex' = Nobody
  BY DEF ConnectDone, Clear, Unlock, world
<1>5. sock[h].link = NoLink /\ sock[h].asked # NoLink /\ packets[i] = <<>> /\ ~sock[h].ended
      /\ Ours(h) /\ InOrder(h) /\ Joining(h)
  BY <1>2 DEF Asked, Fine, Ours
<1>6. radio.op = "idle"
  BY <1>2 DEF Synced, Quiet, Awaited
<1>7. packets \in [Ids -> Seq({p \in Lines : p.kind = "IPD"})]
  BY DEF Synced, IInv, RestOK, PacketsOK
<1>8. packets'[i] = <<>> /\ \A k \in Ids : World(k)
  BY <1>2, <1>4, <1>5, <1>7 DEF World, Bits
<1>9. i \in idBits
  <2>1. \A k \in Pos : k < 1 => FALSE
    BY DEF Pos
  <2> QED
    BY <1>2, <1>5, <2>1 DEF Joining
<1>10. i \notin idBitsClose
  BY <1>5, <1>9 DEF Ours
<1>11. Reported(i) => \E j \in Pos' : rx'[j].kind = "CLOSED" /\ rx'[j].id = i
  <2>1. SameLines({}, i, 1)
    BY <1>2
  <2> HIDE DEF i
  <2> QED
    BY ONLY <2>1 DEF Reported, SameLines, Pos
<1>12. Ours(h)'
  <2>1. i \in idBits' /\ i \notin idBitsClose' /\ sock'[h].at = "rest" /\ conn'[i] = conn[i]
    BY <1>3, <1>4, <1>9, <1>10 DEF Moves
  <2>2. conn[i] # NoLink => conn[i] = sock[h].asked
    BY <1>5 DEF Ours
  <2>3. conn[i] = NoLink => \E j \in Pos' : rx'[j].kind = "CLOSED" /\ rx'[j].id = i
    BY <1>5, <1>9, <1>11 DEF Ours
  <2> QED
    BY <1>3, <1>5, <2>1, <2>2, <2>3 DEF Ours, Reported, Pos
<1>13. InOrder(h)'
  <2>1. ASSUME NEW j \in Pos', rx'[j].id = i
        PROVE  /\ rx'[j].kind # "CONNECT"
               /\ rx'[j].kind = "CLOSED" => conn'[i] = NoLink
               /\ rx'[j].kind = "CLOSED" => \A k \in Pos' : rx'[k].id = i => k <= j
    <3>1. j + 1 \in Pos /\ rx'[j] = rx[j + 1] /\ j \in Nat
      BY <1>2 DEF Pos
    <3>2. rx'[j].kind # "CONNECT" /\ (rx'[j].kind = "CLOSED" => conn'[i] = NoLink)
      BY <1>4, <1>5, <1>9, <2>1, <3>1 DEF InOrder, About
    <3>3. ASSUME rx'[j].kind = "CLOSED", NEW k \in Pos', rx'[k].id = i PROVE k <= j
      <4>1. k + 1 \in Pos /\ rx'[k] = rx[k + 1] /\ k \in Nat
        BY <1>2 DEF Pos
      <4>2. k + 1 <= j + 1
        BY <1>5, <2>1, <3>1, <3>3, <4>1 DEF InOrder, About
      <4> QED
        BY <3>1, <4>1, <4>2
    <3> QED
      BY <3>2, <3>3
  <2>2. i \in idBits' /\ sock'[h].at = "rest"
    BY <1>3, <1>4, <1>9 DEF Moves
  <2> QED
    BY <1>3, <2>1, <2>2 DEF InOrder, About
<1>14. Joining(h)' /\ Counted(h)' /\ Ended(h)'
  BY <1>2, <1>3, <1>4, <1>5, CountedSame DEF Joining, Ended, Fine, Moves
<1>15. Received(h)'
  BY <1>2, <1>3, <1>4, <1>5, <1>8, ReceivedKept DEF Fine
<1>16. Works' /\ Awaited'
  BY <1>2, <1>4, <1>6 DEF Works, Awaited, Answers
<1>17. sock'[h].at # "none" /\ Others(h)
  BY <1>3 DEF Moves
<1> HIDE DEF i
<1> QED
  BY <1>2, <1>4, <1>8, <1>12, <1>13, <1>14, <1>15, <1>16, <1>17, CallQuiet DEF Fine

LEMMA ConnectFailsQuiet ==
  ASSUME Synced, late' = 0, NEW h \in Handles, ConnectFails(h)
  PROVE  Quiet'
<1>1. Moves(h, "connecting", "rest") /\ Same(h)
  BY RestMoves DEF Synced, IInv
<1>2. UNCHANGED <<ids, idBits, idBitsClose, rx, radio, conn, attempts, sent, said, heard>>
      /\ packets' = [packets EXCEPT ![sock[h].id] = <<>>] /\ smutex = h /\ smutex' = Nobody
  BY DEF ConnectFails, Clear, Unlock, world, line
<1>3. radio = Idle /\ rx = <<>> /\ late \in Nat
  BY DEF ConnectFails, GivesUp, Synced, IInv, RestOK
<1>4. Used(h) /\ Fine(h) /\ Asked(h) /\ sock[h].id \in Ids
  BY <1>1, UsedFacts DEF Used, Moves
<1>5. Pos = {} /\ Pos' = {}
  BY <1>2, <1>3 DEF Pos
<1>6. /\ sock[h].link = NoLink /\ sock[h].asked # NoLink /\ packets[sock[h].id] = <<>>
      /\ ~sock[h].ended /\ conn[sock[h].id] = NoLink /\ sock[h].id \notin idBits
  BY <1>1, <1>4, <1>5 DEF Fine, Asked, Ours, Joining, Moves
<1>7. packets \in [Ids -> Seq({p \in Lines : p.kind = "IPD"})]
  BY DEF Synced, IInv, RestOK, PacketsOK
<1>8. packets'[sock[h].id] = <<>> /\ \A k \in Ids : World(k)
  BY <1>2, <1>4, <1>6, <1>7 DEF World, Bits
<1>9. Ours(h)' /\ InOrder(h)' /\ Joining(h)'
  <2>1. sock'[h].at = "rest" /\ sock'[h].link = NoLink /\ sock'[h].id = sock[h].id
        /\ sock'[h].asked # NoLink
    BY <1>1, <1>6 DEF Moves, Same
  <2>2. Ours(h)'
    BY <1>2, <1>5, <1>6, <1>8, <2>1 DEF Ours, Silent
  <2> QED
    BY <1>5, <2>1, <2>2 DEF InOrder, Joining
<1>10. Counted(h)' /\ Ended(h)'
  BY <1>1, <1>2, <1>4, <1>6, CountedSame DEF Ended, Fine, Moves, Same
<1>11. Received(h)'
  BY <1>1, <1>2, <1>4, <1>6, <1>8, ReceivedKept, LinesKept DEF Fine, Same
<1>12. Works' /\ Awaited'
  BY <1>2, <1>3, <1>5 DEF Works, Awaited, Idle, Command
<1>13. sock'[h].at # "none" /\ Others(h)
  BY <1>1 DEF Moves
<1> QED
  BY <1>2, <1>4, <1>8, <1>9, <1>10, <1>11, <1>12, <1>13, CallQuiet DEF Fine

-----------------------------------------------------------------------------
(* A send goes on and ends. *)
LEMMA WroteKept ==
  ASSUME Synced, NEW h \in Handles, NEW w \in {"asking", "writing"}, Answered(h, w),
         sock'[h].at \in {"asking", "writing", "rest"}, sock'[h].id = sock[h].id,
         sock'[h].link = sock[h].link, sock'[h].asked = sock[h].asked,
         sock'[h].got = sock[h].got, sock'[h].ended = sock[h].ended,
         UNCHANGED <<idBits, idBitsClose, packets, conn, sent>>
  PROVE  Ours(h)' /\ InOrder(h)' /\ Joining(h)' /\ Received(h)' /\ Ended(h)'
<1>1. Fine(h) /\ SameLines({}, sock[h].id, 1) /\ sock[h].at = w
  BY AnswerTaken
<1>2. World(sock[h].id)
  BY DEF World, Bits
<1>3. Stays(h) /\ SameRadio(h)
  BY <1>1 DEF Stays, Calm, SameRadio
<1>4. sock[h].at # "closing" /\ sock[h].at # "connecting"
  BY <1>1
<1>5. Ours(h)' /\ InOrder(h)' /\ Joining(h)'
  BY <1>1, <1>2, <1>3, <1>4, OursKept, InOrderKept, JoiningKept DEF Fine, World
<1> QED
  BY <1>1, <1>2, <1>5, ReceivedKept, EndedKept DEF Fine

LEMMA PromptedQuiet ==
  ASSUME Synced, late = 0, NEW h \in Handles, Prompted(h)
  PROVE  Quiet'
<1>1. Answered(h, "asking")
  BY DEF Prompted
<1>2. /\ sock[h].at = "asking" /\ smutex = h /\ Used(h) /\ Fine(h) /\ Asked(h)
      /\ rx # <<>> /\ rx' = Tail(rx)
      /\ 1 \in Pos /\ rx[1].kind = "PROMPT" /\ Head(rx).kind \in Answers
      /\ \A j \in Pos' : rx'[j].kind \notin Answers
  BY <1>1, AnswerTaken DEF Waits
<1>3. Moves(h, "asking", "writing") /\ Same(h) /\ sock'[h].chunks = sock[h].chunks
  BY RestMoves DEF Synced, IInv
<1>4. UNCHANGED <<ids, idBits, idBitsClose, packets, smutex, conn, attempts, sent, said, heard>>
  BY DEF Prompted, world
<1>5. radio.op = "data" /\ radio.id = sock[h].id
  BY <1>2 DEF Synced, Quiet, Awaited, Works
<1>6. radio'.op = "sending" /\ radio'.id = sock[h].id
  <2>1. radio \in Commands /\ radio' = [radio EXCEPT !.op = "sending"]
    BY <1>5 DEF Prompted, Synced, IInv, RestOK, RadioOK
  <2> QED
    BY <1>5, <2>1 DEF Commands
<1>7. \A i \in Ids : World(i)
  BY <1>4 DEF World, Bits
<1>8. Ours(h)' /\ InOrder(h)' /\ Joining(h)' /\ Received(h)' /\ Ended(h)'
  BY <1>1, <1>3, <1>4, WroteKept DEF Moves, Same
<1>9. Counted(h)'
  <2>1. ~ \E j \in Pos' : rx'[j].kind = "SEND_OK"
    BY <1>2 DEF Answers
  <2>2. /\ sock'[h].asked = sock[h].asked /\ sock'[h].acked = sock[h].acked
        /\ sock'[h].at = "writing" /\ said' = said /\ heard' = heard
    BY <1>3, <1>4 DEF Moves, Same
  <2>3. sock[h].asked # NoLink =>
          /\ heard[sock[h].asked] <= said[sock[h].asked]
          /\ heard[sock[h].asked] = sock[h].acked
          /\ sock[h].chunks > 0 /\ sock[h].acked + sock[h].chunks <= said[sock[h].asked]
    BY <1>2 DEF Counted, Fine
  <2>4. sock[h].acked \in Nat
    BY <1>2, UsedFacts DEF Sockets
  <2>5. sock[h].acked # sock[h].acked + 1
    BY <2>4
  <2> QED
    BY <1>3, <2>1, <2>2, <2>3, <2>5 DEF Counted
<1>10. Works'
  BY <1>2, <1>3, <1>4, <1>6 DEF Works, Moves, Same
<1>11. Awaited'
  BY <1>2 DEF Awaited, Answers
<1>12. sock'[h].at # "none" /\ Others(h)
  BY <1>3 DEF Moves
<1> QED
  BY <1>2, <1>4, <1>7, <1>8, <1>9, <1>10, <1>11, <1>12, CallQuiet DEF Fine

LEMMA SendDoneQuiet ==
  ASSUME Synced, late = 0, NEW h \in Handles, SendDone(h)
  PROVE  Quiet'
<1>1. Answered(h, "writing")
  BY DEF SendDone
<1>2. /\ sock[h].at = "writing" /\ smutex = h /\ Used(h) /\ Fine(h) /\ Asked(h)
      /\ rx # <<>> /\ rx' = Tail(rx)
      /\ 1 \in Pos /\ rx[1].kind = "SEND_OK" /\ Head(rx).kind \in Answers
      /\ \A j \in Pos' : rx'[j].kind \notin Answers
  BY <1>1, AnswerTaken DEF Waits
<1>3. PICK over \in BOOLEAN : SendDoneMoves(h, over)
  BY SendDoneOver DEF Synced, IInv
<1>4. /\ Others(h) /\ sock'[h].link = sock[h].link
      /\ sock'[h].at = IF over THEN "rest" ELSE "asking"
      /\ sock'[h].id = sock[h].id /\ sock'[h].asked = sock[h].asked
      /\ sock'[h].got = sock[h].got /\ sock'[h].ended = sock[h].ended
      /\ sock'[h].acked = sock[h].acked + 1
      /\ ~over => sock[h].chunks > 1 /\ sock'[h].chunks = sock[h].chunks - 1
  BY <1>3 DEF SendDoneMoves, Moves
<1>5. UNCHANGED <<ids, idBits, idBitsClose, packets, conn, attempts, sent, said, heard>>
  BY DEF SendDone, world
<1>6. radio = Idle
  <2>1. radio.op = "idle"
    BY <1>2 DEF Synced, Quiet, Awaited
  <2> QED
    BY <2>1 DEF Synced, IInv, RestOK, RadioOK
<1>7. \A i \in Ids : World(i)
  BY <1>5 DEF World, Bits
<1>8. Ours(h)' /\ InOrder(h)' /\ Joining(h)' /\ Received(h)' /\ Ended(h)'
  BY <1>1, <1>4, <1>5, WroteKept
<1>9. Counted(h)'
  <2> DEFINE l == sock[h].asked
  <2>1. sock[h].acked \in Nat /\ sock[h].chunks \in Nat /\ (l # NoLink => l \in Links)
    BY <1>2, UsedFacts DEF Sockets
  <2>2. l # NoLink => heard[l] \in Nat /\ said[l] \in Nat
    BY <2>1 DEF Synced, IInv, RestOK
  <2>3. l # NoLink => /\ heard[l] = sock[h].acked + 1 /\ heard[l] <= said[l]
                      /\ sock[h].acked + sock[h].chunks <= said[l]
    BY <1>2 DEF Fine, Counted
  <2>4. sock'[h].at # "writing" /\ said' = said /\ heard' = heard
    BY <1>4, <1>5
  <2>5. l # NoLink /\ ~over =>
          sock'[h].chunks > 0 /\ sock'[h].acked + sock'[h].chunks <= said[l]
    BY <1>4, <2>1, <2>2, <2>3
  <2> QED
    BY <1>4, <2>2, <2>3, <2>4, <2>5 DEF Counted
<1>10. Works'
  BY <1>3, <1>4, <1>6, TriesQuiet DEF SendDoneMoves
<1>11. Awaited'
  BY <1>2 DEF Awaited, Answers
<1>12. sock'[h].at # "none"
  BY <1>4
<1> QED
  BY <1>2, <1>4, <1>5, <1>7, <1>8, <1>9, <1>10, <1>11, <1>12, CallQuiet DEF Fine

LEMMA CloseTryQuiet ==
  ASSUME Synced, late = 0, NEW h \in Handles, CloseTry(h)
  PROVE  Quiet'
<1>1. /\ Same(h) /\ Others(h) /\ sock'[h].at = "closing"
      /\ \/ sock[h].at = "rest" /\ sock'[h].tries = 0
         \/ sock[h].at = "again"
  BY CloseMoves DEF Synced, IInv
<1>2. /\ UNCHANGED <<ids, idBits, idBitsClose, packets, rx, conn, attempts, sent, said, heard>>
      /\ smutex = Nobody /\ smutex' = h /\ sock[h].id \in idBits
      /\ Tell(Command("close", sock[h].id, sock[h].link))
  BY DEF CloseTry, Lock, world
<1>3. Used(h) /\ Fine(h) /\ Asked(h)
  BY <1>1, UsedFacts DEF Used
<1>4. sock[h].at = "rest" /\ sock'[h].tries = 0 /\ sock[h].link # NoLink
  BY <1>1, <1>2, <1>3 DEF Fine, Ours
<1>5. radio = Idle /\ \A j \in Pos : rx[j].kind \notin Answers
  BY <1>2, NobodyTalks
<1>6. radio' = Command("close", sock[h].id, sock[h].link)
  BY <1>2, <1>5 DEF Tell, Idle, Command
<1>7. \A i \in Ids : World(i)
  BY <1>2 DEF World, Bits
<1>8. World(sock[h].id) /\ Pos' = Pos
  BY <1>2 DEF World, Bits, Pos
<1>9. Ours(h)'
  BY <1>1, <1>2, <1>3, <1>4, <1>6, <1>8 DEF Fine, Ours, Same, Command, Reported, Silent
<1>10. InOrder(h)' /\ Joining(h)'
  BY <1>1, <1>2, <1>3, <1>4, <1>5, <1>8 DEF Fine, InOrder, Joining, Same, Answers, About, Reported
<1>11. Counted(h)' /\ Received(h)' /\ Ended(h)'
  BY <1>1, <1>2, <1>3, <1>4, <1>8, LinesKept, ReceivedKept, CountedSame, EndedKept DEF Fine, Same
<1>12. Works' /\ Awaited'
  BY <1>1, <1>2, <1>5, <1>6, <1>8 DEF Works, Awaited, Command, Same, Answers
<1>13. sock'[h].at # "none"
  BY <1>1
<1> QED
  BY <1>1, <1>2, <1>3, <1>7, <1>9, <1>10, <1>11, <1>12, <1>13, CallQuiet DEF Fine

LEMMA CloseFailsQuiet ==
  ASSUME Synced, late' = 0, NEW h \in Handles, CloseFails(h)
  PROVE  Quiet'
<1>1. /\ Same(h) /\ Others(h) /\ sock[h].at = "closing"
      /\ sock'[h].at = IF sock[h].tries = 0 THEN "again" ELSE "giveup"
  BY CloseMoves DEF Synced, IInv
<1>2. /\ UNCHANGED <<ids, idBits, idBitsClose, packets, rx, radio, conn, attempts, sent, said, heard>>
      /\ smutex = h /\ smutex' = Nobody
  BY DEF CloseFails, Unlock, world, line
<1>3. radio = Idle /\ rx = <<>>
  BY DEF CloseFails, GivesUp, Synced, IInv, RestOK
<1>4. Used(h) /\ Fine(h) /\ Asked(h)
  BY <1>1, UsedFacts DEF Used
<1>5. Pos = {} /\ Pos' = {} /\ 1 .. Len(rx) = {}
  BY <1>2, <1>3 DEF Pos
<1>6. sock'[h].at = "again" /\ conn[sock[h].id] = NoLink /\ sock[h].id \notin idBits
  BY <1>1, <1>3, <1>4, <1>5 DEF Fine, Ours, Idle, Command, Reported
<1>7. World(sock[h].id) /\ \A i \in Ids : World(i)
  BY <1>2 DEF World, Bits
<1>8. Ours(h)' /\ InOrder(h)' /\ Joining(h)'
  <2>1. Ours(h)'
    BY <1>1, <1>2, <1>4, <1>5, <1>6 DEF Fine, Ours, Same, Silent
  <2> QED
    BY <1>1, <1>5, <1>6, <2>1 DEF InOrder, Joining
<1>9. Counted(h)' /\ Received(h)' /\ Ended(h)'
  BY <1>1, <1>2, <1>4, <1>6, <1>7, LinesKept, ReceivedKept, CountedSame, EndedKept DEF Fine, Same
<1>10. Works' /\ Awaited'
  BY <1>2, <1>3, <1>5 DEF Works, Awaited, Idle, Command
<1>11. sock'[h].at # "none"
  BY <1>6
<1> QED
  BY <1>1, <1>2, <1>4, <1>7, <1>8, <1>9, <1>10, <1>11, CallQuiet DEF Fine

-----------------------------------------------------------------------------
(* A socket gives its id back. *)
LEMMA LeaveQuiet ==
  ASSUME Synced, NEW h \in Handles, Used(h), Release(h), smutex \in {h, Nobody},
         UNCHANGED <<idBits, radio, world>>, radio.op = "idle",
         conn[sock[h].id] = NoLink, sock[h].id \notin idBits,
         \A j \in Pos' : rx'[j].id # sock[h].id /\ rx'[j].kind \notin Answers,
         \E d \in {0, 1} : \A i \in Ids : SameLines({}, i, d)
  PROVE  Quiet'
<1>1. /\ sock' = [sock EXCEPT ![h] = NoSocket] /\ ids' = ids \ {sock[h].id}
      /\ idBitsClose' = idBitsClose \ {sock[h].id}
      /\ packets' = [packets EXCEPT ![sock[h].id] = <<>>]
  BY DEF Release, Clear
<1>2. /\ UNCHANGED <<conn, attempts, sent, heard, said>>
      /\ packets \in [Ids -> Seq({p \in Lines : p.kind = "IPD"})]
      /\ sock \in [Handles -> Sockets]
  BY DEF world, Synced, IInv, RestOK, PacketsOK, SockOK
<1>3. sock'[h].at = "none" /\ Others(h)
  BY <1>1, <1>2 DEF Others, NoSocket
<1>4. sock[h].id \in Ids
  BY UsedFacts
<1>5. \A i \in Ids : i # sock[h].id => World(i)
  BY <1>1, <1>2 DEF World, Bits
<1>6. PICK d \in {0, 1} : \A i \in Ids : SameLines({}, i, d)
  OBVIOUS
<1>7. ASSUME NEW i \in Ids \ ids' PROVE Clean(i)'
  <2>1. CASE i = sock[h].id
    <3>1. conn'[i] = NoLink /\ i \notin idBits' /\ i \notin idBitsClose' /\ packets'[i] = <<>>
      BY <1>1, <1>2, <1>4, <2>1
    <3>2. \A j \in Pos' : rx'[j].id # i
      BY <2>1
    <3> QED
      BY <3>1, <3>2 DEF Clean, Silent
  <2>2. CASE i # sock[h].id
    <3>1. Clean(i) /\ World(i)
      BY <1>1, <1>5, <2>2 DEF Synced, Quiet
    <3>2. \A j \in Pos' : rx'[j].id = i => \E k \in Pos : rx[k].id = i
      BY <1>6 DEF SameLines
    <3> QED
      BY <3>1, <3>2, CleanKept
  <2> QED
    BY <2>1, <2>2
<1>8. ASSUME NEW g \in Handles, Used(g)' PROVE Fine(g)'
  <2>1. g \in Handles \ {h} /\ Used(g)
    BY <1>3, <1>8 DEF Used, Others
  <2>2. sock[g].id \in Ids /\ sock[g].id # sock[h].id
    BY <2>1, UsedFacts
  <2>3. sock[g].at \notin Held
    BY <2>1, NobodyAssumption DEF Synced, Shared, LockHeld
  <2>4. SameRadio(g)
    BY <2>3 DEF SameRadio, Held
  <2>5. World(sock[g].id) /\ SameLines({}, sock[g].id, d)
    BY <1>5, <1>6, <2>2
  <2> QED
    BY <1>2, <1>3, <2>1, <2>3, <2>4, <2>5, OthersFine
<1>9. Works' /\ Awaited'
  <2>1. radio'.op = "idle"
    OBVIOUS
  <2>2. \A j \in Pos' : rx'[j].kind \notin Answers
    OBVIOUS
  <2> QED
    BY ONLY <2>1, <2>2 DEF Works, Awaited, Answers
<1>10. Later'
  BY <1>2 DEF Synced, Quiet, Later
<1> QED
  BY <1>7, <1>8, <1>9, <1>10 DEF Quiet

LEMMA CloseGoneQuiet ==
  ASSUME Synced, late = 0, NEW h \in Handles, CloseGone(h)
  PROVE  Quiet'
<1>1. /\ sock[h].at \in {"rest", "again"} /\ smutex = Nobody /\ sock[h].id \notin idBits
      /\ Release(h) /\ UNCHANGED <<idBits, radio, world>> /\ rx' = rx
  BY DEF CloseGone, At, line
<1>2. Used(h) /\ Fine(h)
  BY <1>1, UsedFacts DEF Used
<1>3. radio.op = "idle" /\ \A j \in Pos : rx[j].kind \notin Answers
  BY <1>1, NobodyTalks
<1>4. conn[sock[h].id] = NoLink /\ \A j \in Pos : rx[j].id # sock[h].id
  BY <1>1, <1>2 DEF Fine, Ours, InOrder
<1>5. \A j \in Pos' : rx'[j].id # sock[h].id /\ rx'[j].kind \notin Answers
  BY <1>1, <1>3, <1>4 DEF Pos
<1>6. \A i \in Ids : SameLines({}, i, 0)
  BY <1>1, LinesKept
<1> QED
  BY <1>1, <1>2, <1>3, <1>4, <1>5, <1>6, LeaveQuiet

LEMMA CloseDoneQuiet ==
  ASSUME Synced, late = 0, NEW h \in Handles, CloseDone(h)
  PROVE  Quiet'
<1> DEFINE i == sock[h].id
<1>1. /\ Answered(h, "closing") /\ Release(h) /\ UNCHANGED <<idBits, radio, world>>
  BY DEF CloseDone
<1>2. /\ sock[h].at = "closing" /\ smutex = h /\ Used(h) /\ Fine(h) /\ i \in Ids
      /\ 1 \in Pos /\ rx[1].kind = "OK" /\ rx[1].id = NoId
      /\ \A j \in Pos' : j + 1 \in Pos /\ rx'[j] = rx[j + 1]
      /\ \A j \in Pos' : rx'[j].kind \notin Answers
      /\ \A k \in Ids : SameLines({}, k, 1)
  BY <1>1, AnswerTaken DEF Waits
<1>3. radio.op = "idle"
  BY <1>2 DEF Synced, Quiet, Awaited
<1>4. conn[i] = NoLink
  BY <1>2, <1>3 DEF Fine, Ours
<1>5. ASSUME NEW j \in Pos PROVE rx[j].id # i
  <2>1. rx[j].id = i => j <= 1
    BY <1>2 DEF Fine, InOrder
  <2>2. j = 1 => rx[j].id # i
    BY <1>2, Numbers
  <2> QED
    BY <2>1, <2>2 DEF Pos
<1>6. i \notin idBits
  BY <1>2, <1>4, <1>5 DEF Fine, Ours, Reported, Pos
<1>7. \A j \in Pos' : rx'[j].id # i /\ rx'[j].kind \notin Answers
  BY <1>2, <1>5
<1> HIDE DEF i
<1>8. \E d \in {0, 1} : \A k \in Ids : SameLines({}, k, d)
  BY <1>2
<1> QED
  BY <1>1, <1>2, <1>3, <1>4, <1>6, <1>7, <1>8, LeaveQuiet DEF i

LEMMA CloseGivesUpQuiet ==
  ASSUME Synced, NEW h \in Handles, CloseGivesUp(h)
  PROVE  FALSE
<1>1. sock[h].at = "giveup"
  BY DEF CloseGivesUp, At
<1> QED
  BY <1>1, UsedFacts DEF Used, Fine, Ours

(* A socket gets a clean id. *)
LEMMA OpenQuiet ==
  ASSUME Synced, late = 0, NEW h \in Handles, SocketOpen(h)
  PROVE  Quiet'
<1>1. /\ sock[h].at = "none" /\ sock'[h].at = "rest" /\ Others(h)
      /\ sock'[h].asked = sock[h].asked /\ sock'[h].link = sock[h].link
      /\ sock'[h].acked = sock[h].acked /\ sock'[h].got = sock[h].got
      /\ sock'[h].ended = sock[h].ended /\ sock'[h].id = found[h]
  BY DEF SocketOpen, Finding, Others, Synced, IInv, SockOK, Sockets
<1>2. /\ UNCHANGED <<idBits, idBitsClose, packets, smutex, rx, radio, conn, attempts, sent, said, heard>>
      /\ ids' = ids \cup {found[h]} /\ found[h] \in Ids \ ids
  BY DEF SocketOpen, Synced, IInv, Reserved, RestOK, world, line
<1>3. /\ sock[h].asked = NoLink /\ sock[h].link = NoLink /\ sock[h].acked = 0
      /\ sock[h].got = <<>> /\ ~sock[h].ended /\ smutex # h
  BY <1>1 DEF Synced, Shared, Asked, LockHeld, Held
<1>4. \A i \in Ids : World(i) /\ SameLines(Answers, i, 0)
  BY <1>2, LinesKept DEF World, Bits
<1>5. Clean(found[h])
  BY <1>2 DEF Synced, Quiet
<1>6. Pos' = Pos
  BY <1>2 DEF Pos
<1>7. ASSUME NEW g \in Handles, Used(g)' PROVE Fine(g)'
  <2>1. CASE g = h
    <3>1. Silent(sock[h].id)' /\ packets'[sock'[h].id] = <<>>
      BY <1>1, <1>2, <1>5, <1>6 DEF Clean, Silent
    <3>2. Received(h)'
      BY <1>1, <1>3, <3>1, FreshReceived
    <3>3. Ours(h)' /\ InOrder(h)'
      BY <1>1, <1>2, <1>3, <1>5, <1>6 DEF Ours, InOrder, Clean, Silent, About
    <3>4. Joining(h)' /\ Counted(h)' /\ Ended(h)'
      BY <1>1, <1>3 DEF Joining, Counted, Ended
    <3> QED
      BY <2>1, <3>2, <3>3, <3>4 DEF Fine
  <2>2. CASE g # h
    <3>1. g \in Handles \ {h} /\ Used(g)
      BY <1>1, <1>7, <2>2 DEF Used, Others
    <3>2. sock[g].id \in Ids
      BY <3>1, UsedFacts
    <3>3. SameRadio(g) /\ World(sock[g].id) /\ SameLines(Answers, sock[g].id, 0)
      BY <1>2, <1>4, <3>2 DEF SameRadio
    <3> QED
      BY <1>1, <1>2, <3>1, <3>3, OthersFine
  <2> QED
    BY <2>1, <2>2
<1>8. ASSUME NEW i \in Ids \ ids' PROVE Clean(i)'
  <2>1. Clean(i) /\ World(i)
    BY <1>2, <1>4 DEF Synced, Quiet
  <2> QED
    BY <1>2, <1>6, <2>1, CleanKept
<1>9. Works' /\ Awaited'
  <2>1. /\ smutex' = smutex /\ radio' = radio /\ rx' = rx
        /\ smutex \in Handles => sock'[smutex] = sock[smutex]
    BY <1>1, <1>2, <1>3 DEF Others
  <2>2. Works
    BY DEF Synced, Quiet
  <2>3. Awaited
    BY DEF Synced, Quiet
  <2>4. Works'
    BY <2>1, <2>2 DEF Works
  <2>5. Awaited'
    BY <1>6, <2>1, <2>3 DEF Awaited, Answers
  <2> QED
    BY <2>4, <2>5
<1>10. Later'
  BY <1>2 DEF Synced, Quiet, Later
<1> QED
  BY <1>7, <1>8, <1>9, <1>10 DEF Quiet

-----------------------------------------------------------------------------
(* The line that is read is a report about the id of a socket. *)
LEMMA ReportRead ==
  ASSUME Synced, NEW h \in Handles, ReadLine(h)
  PROVE  /\ rx \in Seq(Lines) /\ rx # <<>> /\ rx' = Tail(rx) /\ 1 \in Pos /\ rx[1] = Head(rx)
         /\ rx[1] \in Lines /\ rx[1].kind \in {"CONNECT", "CLOSED", "IPD"} /\ rx[1].id \in ids
         /\ \A j \in Pos' : j + 1 \in Pos /\ rx'[j] = rx[j + 1]
         /\ \A j \in Pos : j # 1 => j - 1 \in Pos' /\ rx'[j - 1] = rx[j]
         /\ Handle(rx[1])
<1>1. /\ smutex = h /\ sock[h].at \in DOMAIN Waits /\ rx # <<>> /\ rx' = Tail(rx)
      /\ Head(rx).kind # Waits[sock[h].at] /\ Handle(Head(rx))
  BY DEF ReadLine, Busy, Wanted
<1>2. rx \in Seq(Lines)
  BY DEF Synced, IInv, RestOK
<1>3. /\ 1 \in Pos /\ rx[1] = Head(rx) /\ Head(rx) \in Lines
      /\ \A j \in Pos' : j + 1 \in Pos /\ rx'[j] = rx[j + 1]
      /\ \A j \in Pos : j # 1 => j - 1 \in Pos' /\ rx'[j - 1] = rx[j]
  BY <1>1, <1>2, TailPos
<1>4. rx[1].kind \notin Answers
  <2>1. Awaited
    BY DEF Synced, Quiet
  <2>2. CASE rx[1].kind = "OK"
    BY <1>1, <1>3, <2>1, <2>2 DEF Awaited, Waits
  <2>3. CASE rx[1].kind = "PROMPT"
    BY <1>1, <1>3, <2>1, <2>3 DEF Awaited, Waits
  <2>4. CASE rx[1].kind = "SEND_OK"
    BY <1>1, <1>3, <2>1, <2>4 DEF Awaited, Waits
  <2> QED
    BY <2>2, <2>3, <2>4 DEF Answers
<1>5. rx[1].kind \in {"CONNECT", "CLOSED", "IPD"} /\ rx[1].id \in Ids
  BY <1>3, <1>4 DEF Lines, Kinds, Answers
<1>6. rx[1].id \in ids
  BY <1>3, <1>5 DEF Synced, Quiet, Clean, Silent
<1> QED
  BY <1>1, <1>2, <1>3, <1>5, <1>6

(* What the socket of that id has asked for. *)
LEMMA ReportAsked ==
  ASSUME Synced, NEW o \in Handles, Used(o), NEW j \in Pos, rx[j].id = sock[o].id
  PROVE  /\ sock[o].id \in idBits \/ sock[o].at = "connecting"
         /\ sock[o].asked # NoLink /\ sock[o].id \notin idBitsClose
         /\ sock[o].at = "connecting" => radio.op # "connect"
<1>1. Fine(o) /\ Asked(o)
  BY UsedFacts
<1>2. ~Silent(sock[o].id)
  BY DEF Silent
<1>3. sock[o].id \in idBits \/ sock[o].at = "connecting"
  BY <1>1 DEF Fine, InOrder
<1>4. sock[o].asked # NoLink
  BY <1>1, <1>3 DEF Fine, Ours, Asked
<1> QED
  BY <1>1, <1>2, <1>3, <1>4 DEF Fine, Ours, Joining

LEMMA ConnectRead ==
  ASSUME Synced, NEW h \in Handles, ReadLine(h), NEW o \in Handles, Used(o),
         sock[o].id = rx[1].id, rx[1].kind = "CONNECT"
  PROVE  Fine(o)'
<1> DEFINE i == sock[o].id
<1>1. /\ 1 \in Pos /\ Handle(rx[1])
      /\ \A j \in Pos' : j + 1 \in Pos /\ rx'[j] = rx[j + 1]
      /\ \A j \in Pos : j # 1 => j - 1 \in Pos' /\ rx'[j - 1] = rx[j]
  BY ReportRead
<1>2. UNCHANGED <<sock, radio, conn, sent, heard, said>>
  BY DEF ReadLine, world
<1>3. idBits' = idBits \cup {i} /\ idBitsClose' = idBitsClose /\ packets' = packets
  BY <1>1 DEF Handle
<1>4. Fine(o) /\ Asked(o)
  BY UsedFacts
<1>5. About(1, "CONNECT", i)
  BY DEF About
<1>6. /\ i \notin idBits /\ sock[o].at = "connecting" /\ (conn[i] = NoLink => Reported(i))
      /\ i \notin idBitsClose /\ sock[o].asked # NoLink /\ radio.op # "connect"
      /\ sock[o].link = NoLink /\ ~sock[o].ended
  BY <1>1, <1>4, <1>5, ReportAsked DEF Fine, InOrder, Asked
<1>7. Reported(i) => \E j \in Pos' : rx'[j].kind = "CLOSED" /\ rx'[j].id = i
  <2>1. rx[1].kind # "CLOSED"
    OBVIOUS
  <2>2. \A j \in Pos : j # 1 => j - 1 \in Pos' /\ rx'[j - 1] = rx[j]
    BY <1>1
  <2> HIDE DEF i
  <2> QED
    BY ONLY <2>1, <2>2 DEF Reported, Pos
<1>8. Ours(o)'
  BY <1>2, <1>3, <1>4, <1>6, <1>7 DEF Fine, Ours, Reported, Pos
<1>9. ASSUME NEW j \in Pos', rx'[j].id = i
      PROVE  /\ rx'[j].kind # "CONNECT"
             /\ rx'[j].kind = "CLOSED" => conn'[i] = NoLink
             /\ rx'[j].kind = "CLOSED" => \A k \in Pos' : rx'[k].id = i => k <= j
  <2>1. j + 1 \in Pos /\ rx'[j] = rx[j + 1] /\ j \in Nat \ {0}
    BY <1>1 DEF Pos
  <2>2. rx'[j].kind # "CONNECT"
    <3>1. SUFFICES ASSUME rx'[j].kind = "CONNECT" PROVE FALSE
      OBVIOUS
    <3>2. j + 1 <= 1
      BY <1>1, <1>4, <1>5, <1>9, <2>1, <3>1 DEF Fine, InOrder, About
    <3> QED
      BY <2>1, <3>2
  <2>3. rx'[j].kind = "CLOSED" => conn'[i] = NoLink
    BY <1>2, <1>4, <1>9, <2>1 DEF Fine, InOrder, About
  <2>4. ASSUME rx'[j].kind = "CLOSED", NEW k \in Pos', rx'[k].id = i PROVE k <= j
    <3>1. k + 1 \in Pos /\ rx'[k] = rx[k + 1] /\ k \in Nat
      BY <1>1 DEF Pos
    <3>2. k + 1 <= j + 1
      BY <1>4, <1>9, <2>1, <2>4, <3>1 DEF Fine, InOrder, About
    <3> QED
      BY <2>1, <3>1, <3>2
  <2> QED
    BY <2>2, <2>3, <2>4
<1>10. InOrder(o)'
  BY <1>2, <1>3, <1>6, <1>9 DEF InOrder, About
<1>11. Joining(o)'
  <2>1. \E j \in Pos' : rx'[j].kind = "OK"
    <3>1. PICK j \in Pos : rx[j].kind = "OK"
      BY <1>1, <1>4, <1>6 DEF Fine, Joining
    <3> QED
      BY <1>1, <3>1
  <2>2. ASSUME NEW j \in Pos', NEW k \in Pos', rx'[j].kind = "OK", rx'[k].id = i, k < j
        PROVE  rx'[k].kind = "CONNECT"
    <3>1. j + 1 \in Pos /\ rx'[j] = rx[j + 1] /\ k + 1 \in Pos /\ rx'[k] = rx[k + 1]
          /\ k + 1 < j + 1
      BY <1>1, <2>2 DEF Pos
    <3> QED
      BY <1>4, <1>6, <2>2, <3>1 DEF Fine, Joining
  <2> QED
    BY <1>2, <1>3, <1>6, <2>1, <2>2 DEF Joining
<1>12. Counted(o)' /\ Ended(o)'
  BY <1>2, <1>4, <1>6, CountedSame DEF Fine, Ended
<1>13. Received(o)'
  <2>1. SameData(i, 1)
    BY <1>1 DEF SameData
  <2> HIDE DEF i
  <2> QED
    BY <1>2, <1>3, <1>4, <2>1, DataKept DEF i, Fine
<1> QED
  BY <1>8, <1>10, <1>11, <1>12, <1>13 DEF Fine

LEMMA ClosedRead ==
  ASSUME Synced, NEW h \in Handles, ReadLine(h), NEW o \in Handles, Used(o),
         sock[o].id = rx[1].id, rx[1].kind = "CLOSED"
  PROVE  Fine(o)'
<1> DEFINE i == sock[o].id
<1>1. /\ 1 \in Pos /\ Handle(rx[1])
      /\ \A j \in Pos' : j + 1 \in Pos /\ rx'[j] = rx[j + 1]
      /\ \A j \in Pos : j # 1 => j - 1 \in Pos' /\ rx'[j - 1] = rx[j]
  BY ReportRead
<1>2. UNCHANGED <<sock, radio, conn, sent, heard, said>>
  BY DEF ReadLine, world
<1>3. idBits' = idBits \ {i} /\ idBitsClose' = idBitsClose \cup {i} /\ packets' = packets
  BY <1>1 DEF Handle
<1>4. Fine(o) /\ Asked(o)
  BY UsedFacts
<1>5. About(1, "CLOSED", i)
  BY DEF About
<1>6. conn[i] = NoLink /\ sock[o].asked # NoLink
      /\ (sock[o].at = "connecting" => radio.op # "connect")
  BY <1>1, <1>4, <1>5, ReportAsked DEF Fine, InOrder
<1>7. \A k \in Pos : rx[k].id = i => k = 1
  BY <1>1, <1>4, <1>5 DEF Fine, InOrder, Pos
<1>8. \A j \in Pos' : rx'[j].id # i
  BY <1>1, <1>7 DEF Pos
<1>9. Ours(o)'
  BY <1>2, <1>3, <1>4, <1>6, <1>8 DEF Fine, Ours, Silent
<1>10. InOrder(o)'
  BY <1>2, <1>8 DEF InOrder, About
<1>11. sock[o].at = "connecting" => \A j \in Pos : rx[j].kind # "OK"
  <2> SUFFICES ASSUME sock[o].at = "connecting", NEW j \in Pos, rx[j].kind = "OK" PROVE FALSE
    OBVIOUS
  <2>1. 1 < j
    BY <1>5 DEF Pos, About
  <2> QED
    BY <1>1, <1>4, <1>5, <2>1 DEF Fine, Joining, About
<1>12. Joining(o)'
  BY <1>1, <1>2, <1>3, <1>4, <1>6, <1>8, <1>11 DEF Fine, Joining, Silent
<1>13. Counted(o)' /\ Ended(o)'
  <2>1. (\E j \in Pos' : rx'[j].kind = "SEND_OK") <=> \E j \in Pos : rx[j].kind = "SEND_OK"
    BY <1>1, <1>5 DEF About
  <2>2. Ended(o)'
    BY <1>2, <1>3, <1>4, <1>6 DEF Fine, Ended
  <2> QED
    BY <1>2, <1>4, <2>1, <2>2, CountedSame DEF Fine
<1>14. Received(o)'
  <2>1. SameData(i, 1)
    BY <1>1 DEF SameData
  <2> HIDE DEF i
  <2> QED
    BY <1>2, <1>3, <1>4, <2>1, DataKept DEF i, Fine
<1> QED
  BY <1>9, <1>10, <1>12, <1>13, <1>14 DEF Fine
(* The next data goes to the end of the list of packets: it is the first   *)
(* that is still missing there.                                            *)
LEMMA PacketFiled ==
  ASSUME NEW o \in Handles, Received(o), sock[o].asked # NoLink, 1 \in Pos, rx[1] \in Lines,
         rx \in Seq(Lines), packets[sock[o].id] \in Seq({p \in Lines : p.kind = "IPD"}),
         sock \in [Handles -> Sockets], sent \in [Links -> Nat],
         rx[1].kind = "IPD", rx[1].id = sock[o].id,
         \A j \in Pos' : j + 1 \in Pos /\ rx'[j] = rx[j + 1],
         \A j \in Pos : j # 1 => j - 1 \in Pos' /\ rx'[j - 1] = rx[j],
         sock' = sock, sent' = sent,
         packets'[sock[o].id] = Append(packets[sock[o].id], rx[1])
  PROVE  Received(o)'
<1> DEFINE i == sock[o].id
           l == sock[o].asked
           q == packets[i]
           p == rx[1]
           r == Append(q, p)
           n == Len(sock[o].got)
           b == Kept(o)
           D == Data(i)
           E == {j \in Pos' : rx'[j].kind = "IPD" /\ rx'[j].id = i}
           s == sent[l]
<1>1. /\ \A k \in 1 .. n : sock[o].got[k] = <<l, k>>
      /\ \A k \in 1 .. Len(q) : /\ q[k].link = l /\ q[k].from < q[k].to
                                /\ q[k].from = IF k = 1 THEN n ELSE q[k-1].to
      /\ \A j \in D : /\ rx[j].link = l /\ rx[j].from < rx[j].to
                      /\ b <= rx[j].from /\ rx[j].to <= s
      /\ \A j, k \in D : j < k => rx[j].to <= rx[k].from
      /\ b <= s
      /\ \A x \in b .. s - 1 : \E j \in D : rx[j].from <= x /\ x < rx[j].to
  BY DEF Received
<1>2. 1 \in D /\ D \subseteq Nat \ {0} /\ \A j \in D : rx[j] \in Lines
  <2>1. \A j \in Pos : rx[j] \in Lines
    BY DEF Pos
  <2> QED
    BY <2>1 DEF Data, About, Pos
<1>3. Data(i)' = E
  BY DEF Data, About
<1>4. ASSUME NEW j \in E PROVE j + 1 \in D /\ rx'[j] = rx[j + 1] /\ j \in Nat \ {0}
  BY DEF Data, About, Pos
<1>5. ASSUME NEW j \in D, j # 1 PROVE j - 1 \in E /\ rx'[j - 1] = rx[j]
  BY <1>5 DEF Data, About
<1>6. l \in Links /\ s \in Nat /\ n \in Nat
  <2>1. sock[o] \in Sockets
    OBVIOUS
  <2>2. l \in Links /\ sock[o].got \in Seq(Bytes)
    BY <2>1 DEF Sockets
  <2> QED
    BY <2>2
<1>7. /\ Len(r) = Len(q) + 1 /\ Len(q) \in Nat /\ r # <<>> /\ r[Len(q) + 1] = p
      /\ \A k \in 1 .. Len(q) : r[k] = q[k]
  <2> DEFINE T == {y \in Lines : y.kind = "IPD"}
  <2>1. q \in Seq(T) /\ p \in T
    OBVIOUS
  <2> HIDE DEF T, q, p
  <2>2. Len(r) = Len(q) + 1 /\ Len(q) \in Nat
    BY <2>1, Z3
  <2>3. r[Len(q) + 1] = p /\ \A k \in 1 .. Len(q) : r[k] = q[k]
    BY <2>1, AppendProperties
  <2> HIDE DEF r
  <2> QED
    BY <2>2, <2>3, EmptySeq
<1>8. b \in Nat /\ (q = <<>> => b = n) /\ (q # <<>> => b = q[Len(q)].to)
  <2>1. q = <<>> => b = n
    BY DEF Kept
  <2>2. q # <<>> => b = q[Len(q)].to
    BY DEF Kept
  <2>3. q # <<>> => Len(q) \in 1 .. Len(q) /\ q[Len(q)] \in Lines
    <3> DEFINE T == {y \in Lines : y.kind = "IPD"}
    <3>1. q \in Seq(T)
      OBVIOUS
    <3> HIDE DEF T, q
    <3>2. q # <<>> => Len(q) \in 1 .. Len(q) /\ q[Len(q)] \in T
      BY <3>1
    <3> QED
      BY <3>2 DEF T
  <2> HIDE DEF q, b, n
  <2> QED
    BY <1>6, <2>1, <2>2, <2>3, LineNat
<1>9. Kept(o)' = p.to
  <2>1. packets'[sock'[o].id] = r /\ r # <<>> /\ r[Len(r)] = p
    BY <1>7
  <2> HIDE DEF r, p
  <2> QED
    BY <2>1 DEF Kept
<1>10. p.link = l /\ p.from < p.to /\ b <= p.from /\ p.to <= s /\ p.from \in Nat /\ p.to \in Nat
  BY <1>1, <1>2, LineNat
<1>11. packets'[i] = r /\ sock'[o].id = i /\ sock'[o].asked = l /\ sent'[l] = s
       /\ sock'[o].got = sock[o].got
  OBVIOUS
<1> HIDE DEF q, r, n, b, D, E, p, s, l
<1>12. p.from = b
  <2> SUFFICES ASSUME b < p.from PROVE FALSE
    BY <1>8, <1>10
  <2>1. b \in b .. s - 1
    BY <1>6, <1>8, <1>10
  <2>2. PICK j \in D : rx[j].from <= b /\ b < rx[j].to
    BY <1>1, <2>1
  <2>3. rx[j].from \in Nat /\ j \in Nat /\ j # 0
    BY <1>2, <2>2, LineNat
  <2>4. j # 1
    BY <1>8, <1>10, <2>2, <2>3 DEF p
  <2>5. p.to <= rx[j].from
    BY <1>1, <1>2, <2>3, <2>4 DEF p
  <2> QED
    BY <1>8, <1>10, <2>2, <2>3, <2>5
<1>18. Len(q) = 0 => q = <<>>
  BY EmptySeq DEF q
<1>13. ASSUME NEW k \in 1 .. Len(r)
       PROVE  /\ r[k].link = l /\ r[k].from < r[k].to
              /\ r[k].from = IF k = 1 THEN n ELSE r[k-1].to
  <2>1. CASE k # Len(q) + 1
    <3>1. k \in 1 .. Len(q) /\ (k # 1 => k - 1 \in 1 .. Len(q))
      BY <1>7, <2>1
    <3> QED
      BY <1>1, <1>7, <3>1
  <2>2. CASE k = Len(q) + 1
    <3>1. CASE Len(q) = 0
      <4>1. q = <<>>
        BY <1>18, <3>1
      <4> QED
        BY <1>7, <1>8, <1>10, <1>12, <2>2, <3>1, <4>1
    <3>2. CASE Len(q) # 0
      <4>1. k # 1 /\ k - 1 = Len(q) /\ Len(q) \in 1 .. Len(q) /\ q # <<>>
        BY <1>7, <2>2, <3>2
      <4> QED
        BY <1>7, <1>8, <1>10, <1>12, <2>2, <4>1
    <3> QED
      BY <3>1, <3>2
  <2> QED
    BY <2>1, <2>2
<1>15. ASSUME NEW j \in E
       PROVE  /\ rx'[j].link = l /\ rx'[j].from < rx'[j].to
              /\ p.to <= rx'[j].from /\ rx'[j].to <= s
  <2>1. j + 1 \in D /\ rx'[j] = rx[j + 1] /\ 1 < j + 1
    BY <1>4
  <2> QED
    BY <1>1, <1>2, <2>1 DEF p
<1>16. ASSUME NEW j \in E, NEW k \in E, j < k PROVE rx'[j].to <= rx'[k].from
  <2>1. j + 1 < k + 1
    BY <1>4, <1>16
  <2> QED
    BY <1>1, <1>4, <2>1
<1>17. ASSUME NEW x \in p.to .. s - 1 PROVE \E j \in E : rx'[j].from <= x /\ x < rx'[j].to
  <2>1. x \in b .. s - 1 /\ x \in Nat /\ p.to <= x
    BY <1>6, <1>8, <1>10
  <2>2. PICK j \in D : rx[j].from <= x /\ x < rx[j].to
    BY <1>1, <2>1
  <2>3. j # 1
    BY <1>10, <2>1, <2>2 DEF p
  <2> QED
    BY <1>5, <2>2, <2>3
<1> QED
  <2>1. Received(o)' <=>
          \/ sock'[o].asked = NoLink
          \/ /\ \A k \in 1 .. Len(sock'[o].got) : sock'[o].got[k] = <<sock'[o].asked, k>>
             /\ \A k \in 1 .. Len(packets'[sock'[o].id]) :
                  /\ packets'[sock'[o].id][k].link = sock'[o].asked
                  /\ packets'[sock'[o].id][k].from < packets'[sock'[o].id][k].to
                  /\ packets'[sock'[o].id][k].from = IF k = 1 THEN Len(sock'[o].got)
                        ELSE packets'[sock'[o].id][k-1].to
             /\ \A j \in Data(i)' :
                  /\ rx'[j].link = sock'[o].asked /\ rx'[j].from < rx'[j].to
                  /\ Kept(o)' <= rx'[j].from /\ rx'[j].to <= sent'[sock'[o].asked]
             /\ \A j, k \in Data(i)' : j < k => rx'[j].to <= rx'[k].from
             /\ Kept(o)' <= sent'[sock'[o].asked]
             /\ \A x \in Kept(o)' .. sent'[sock'[o].asked] - 1 :
                  \E j \in Data(i)' : rx'[j].from <= x /\ x < rx'[j].to
    BY <1>11 DEF Received
  <2> QED
    BY <1>1, <1>3, <1>9, <1>10, <1>11, <1>13, <1>15, <1>16, <1>17, <2>1 DEF n

LEMMA DataRead ==
  ASSUME Synced, NEW h \in Handles, ReadLine(h), NEW o \in Handles, Used(o),
         sock[o].id = rx[1].id, rx[1].kind = "IPD"
  PROVE  Fine(o)'
<1> DEFINE i == sock[o].id
<1>1. /\ 1 \in Pos /\ Handle(rx[1]) /\ rx[1] \in Lines
      /\ \A j \in Pos' : j + 1 \in Pos /\ rx'[j] = rx[j + 1]
      /\ \A j \in Pos : j # 1 => j - 1 \in Pos' /\ rx'[j - 1] = rx[j]
  BY ReportRead
<1>2. UNCHANGED <<sock, radio, conn, sent, heard, said>>
  BY DEF ReadLine, world
<1>3. idBits' = idBits /\ idBitsClose' = idBitsClose
      /\ packets' = [packets EXCEPT ![i] = Append(@, rx[1])]
  BY <1>1 DEF Handle
<1>4. Fine(o) /\ Asked(o) /\ i \in Ids /\ sock[o].at # "none"
  BY UsedFacts DEF Used
<1>5. i \notin idBitsClose /\ sock[o].asked # NoLink /\ (i \in idBits \/ sock[o].at = "connecting")
  BY <1>1, ReportAsked
<1>6. sock[o].at # "connecting"
  <2> SUFFICES ASSUME sock[o].at = "connecting" PROVE FALSE
    OBVIOUS
  <2>1. PICK j \in Pos : rx[j].kind = "OK"
    BY <1>1, <1>4 DEF Fine, Joining
  <2>2. 1 < j
    BY <2>1 DEF Pos
  <2> QED
    BY <1>1, <1>4, <2>1, <2>2 DEF Fine, Joining
<1>7. i \in idBits /\ sock[o].link # NoLink /\ ~sock[o].ended
  BY <1>4, <1>5, <1>6 DEF Fine, Ours, Ended
<1>8. Reported(i) => \E j \in Pos' : rx'[j].kind = "CLOSED" /\ rx'[j].id = i
  <2>1. rx[1].kind # "CLOSED"
    OBVIOUS
  <2>2. \A j \in Pos : j # 1 => j - 1 \in Pos' /\ rx'[j - 1] = rx[j]
    BY <1>1
  <2> HIDE DEF i
  <2> QED
    BY ONLY <2>1, <2>2 DEF Reported, Pos
<1>9. Ours(o)'
  BY <1>2, <1>3, <1>4, <1>5, <1>6, <1>7, <1>8 DEF Fine, Ours, Reported, Pos
<1>10. ASSUME NEW j \in Pos', rx'[j].id = i
       PROVE  /\ rx'[j].kind # "CONNECT"
              /\ rx'[j].kind = "CLOSED" => conn'[i] = NoLink
              /\ rx'[j].kind = "CLOSED" => \A k \in Pos' : rx'[k].id = i => k <= j
  <2>1. j + 1 \in Pos /\ rx'[j] = rx[j + 1] /\ j \in Nat
    BY <1>1 DEF Pos
  <2>2. rx'[j].kind # "CONNECT" /\ (rx'[j].kind = "CLOSED" => conn'[i] = NoLink)
    BY <1>2, <1>4, <1>7, <1>10, <2>1 DEF Fine, InOrder, About
  <2>3. ASSUME rx'[j].kind = "CLOSED", NEW k \in Pos', rx'[k].id = i PROVE k <= j
    <3>1. k + 1 \in Pos /\ rx'[k] = rx[k + 1] /\ k \in Nat
      BY <1>1 DEF Pos
    <3>2. k + 1 <= j + 1
      BY <1>4, <1>10, <2>1, <2>3, <3>1 DEF Fine, InOrder, About
    <3> QED
      BY <2>1, <3>1, <3>2
  <2> QED
    BY <2>2, <2>3
<1>11. ASSUME NEW j \in Pos', NEW k \in Pos', sock[o].at = "closing", rx'[j].kind = "OK",
              rx'[k].id = i
       PROVE  k <= j
  <2>1. j + 1 \in Pos /\ rx'[j] = rx[j + 1] /\ k + 1 \in Pos /\ rx'[k] = rx[k + 1]
        /\ j \in Nat /\ k \in Nat
    BY <1>1 DEF Pos
  <2>2. k + 1 <= j + 1
    BY <1>4, <1>11, <2>1 DEF Fine, InOrder
  <2> QED
    BY <2>1, <2>2
<1>12. InOrder(o)'
  BY <1>2, <1>3, <1>7, <1>10, <1>11 DEF InOrder, About
<1>13. Joining(o)' /\ Ended(o)'
  BY <1>2, <1>6, <1>7 DEF Joining, Ended
<1>14. Counted(o)'
  <2>1. (\E j \in Pos' : rx'[j].kind = "SEND_OK") <=> \E j \in Pos : rx[j].kind = "SEND_OK"
    BY <1>1
  <2> QED
    BY <1>2, <1>4, <2>1, CountedSame DEF Fine
<1>15. Received(o)'
  <2>1. packets'[i] = Append(packets[i], rx[1])
    BY <1>3, <1>4 DEF Synced, IInv, RestOK, PacketsOK
  <2>2. /\ rx \in Seq(Lines) /\ packets[i] \in Seq({p \in Lines : p.kind = "IPD"})
        /\ sock \in [Handles -> Sockets] /\ sent \in [Links -> Nat]
    BY <1>4 DEF Synced, IInv, RestOK, PacketsOK, SockOK
  <2>3. sock' = sock /\ sent' = sent /\ Received(o)
    BY <1>2, <1>4 DEF Fine
  <2> QED
    BY <1>1, <1>5, <2>1, <2>2, <2>3, PacketFiled
<1> QED
  BY <1>9, <1>12, <1>13, <1>14, <1>15 DEF Fine

LEMMA ReadQuiet ==
  ASSUME Synced, late = 0, NEW h \in Handles, ReadLine(h)
  PROVE  Quiet'
<1> DEFINE b == rx[1].id
<1>1. /\ rx \in Seq(Lines) /\ rx # <<>> /\ rx' = Tail(rx) /\ 1 \in Pos /\ rx[1] = Head(rx)
      /\ rx[1].kind \in {"CONNECT", "CLOSED", "IPD"} /\ b \in ids
      /\ \A j \in Pos' : j + 1 \in Pos /\ rx'[j] = rx[j + 1]
      /\ Handle(rx[1])
  BY ReportRead
<1>2. UNCHANGED <<ids, smutex, sock, radio, conn, attempts, sent, heard, said>>
  BY DEF ReadLine, world
<1>3. PICK o \in Handles : Used(o) /\ sock[o].id = b
  BY <1>1, Owner
<1>4. b \in Ids /\ packets \in [Ids -> Seq({p \in Lines : p.kind = "IPD"})]
  BY <1>1 DEF Synced, IInv, RestOK, PacketsOK
<1>5. ASSUME NEW i \in Ids, i # b PROVE World(i) /\ SameLines(Answers, i, 1)
  <2>1. World(i)
    BY <1>1, <1>2, <1>4, <1>5 DEF World, Bits, Handle
  <2>2. SameLines(Answers, i, 1)
    BY <1>1, <1>5, LineRead DEF Answers
  <2> QED
    BY <2>1, <2>2
<1>6. Fine(o)'
  BY <1>1, <1>3, ConnectRead, ClosedRead, DataRead
<1>7. ASSUME NEW g \in Handles, Used(g)' PROVE Fine(g)'
  <2>1. CASE g = o
    BY <1>6, <2>1
  <2>2. CASE g # o
    <3>1. Used(g) /\ g \in Handles \ {o} /\ Others(o)
      BY <1>2, <1>7, <2>2 DEF Used, Others
    <3>2. sock[g].id \in Ids /\ sock[g].id # b
      BY <1>3, <3>1, UsedFacts
    <3>3. SameRadio(g) /\ World(sock[g].id) /\ SameLines(Answers, sock[g].id, 1)
      BY <1>2, <1>5, <3>2 DEF SameRadio
    <3> QED
      BY <1>2, <3>1, <3>3, OthersFine
  <2> QED
    BY <2>1, <2>2
<1>8. ASSUME NEW i \in Ids \ ids' PROVE Clean(i)'
  <2>1. Clean(i) /\ World(i)
    BY <1>1, <1>2, <1>5 DEF Synced, Quiet
  <2> QED
    BY <1>1, <2>1, CleanKept
<1>9. Works'
  BY <1>2 DEF Synced, Quiet, Works
<1>10. Awaited'
  <2>1. Awaited
    BY DEF Synced, Quiet
  <2>2. ASSUME NEW j \in Pos', NEW k \in Pos', rx'[j].kind \in Answers, rx'[k].kind \in Answers
        PROVE  j = k
    <3>1. j + 1 = k + 1
      BY <1>1, <2>1, <2>2 DEF Awaited
    <3> QED
      BY <3>1 DEF Pos
  <2>3. \A j \in Pos' : \E k \in Pos : rx'[j] = rx[k]
    BY <1>1
  <2> QED
    BY <1>2, <2>1, <2>2, <2>3 DEF Awaited
<1>11. Later'
  BY <1>2 DEF Synced, Quiet, Later
<1> HIDE DEF b
<1> QED
  BY <1>7, <1>8, <1>9, <1>10, <1>11 DEF Quiet

-----------------------------------------------------------------------------
(* A step of the radio or a peer about the id of socket h. *)
LEMMA WorldQuiet ==
  ASSUME Synced, NEW h \in Handles, Used(h), UNCHANGED <<driver, attempts>>,
         Fine(h)', Works', Awaited',
         \A i \in Ids : i # sock[h].id => conn'[i] = conn[i],
         NEW K, \A i \in Ids : i # sock[h].id => SameLines(K, i, 0),
         \/ K = Answers /\ radio' = radio
         \/ smutex = h,
         \A l \in Links : l # sock[h].asked =>
           sent'[l] = sent[l] /\ heard'[l] = heard[l] /\ said'[l] = said[l]
  PROVE  Quiet'
<1>1. UNCHANGED <<ids, idBits, idBitsClose, packets, smutex, sock>> /\ attempts' = attempts
  BY DEF driver
<1>2. \A i \in Ids : i # sock[h].id => World(i)
  BY <1>1 DEF World, Bits
<1>3. ASSUME NEW g \in Handles, Used(g)' PROVE Fine(g)'
  <2>1. CASE g = h
    BY <2>1
  <2>2. CASE g # h
    <3>1. Used(g) /\ g \in Handles \ {h} /\ Others(h)
      BY <1>1, <1>3, <2>2 DEF Used, Others
    <3>2. sock[g].id \in Ids /\ sock[g].id # sock[h].id
      BY <3>1, UsedFacts
    <3>3. smutex = h => sock[g].at \notin Held
      BY <3>1 DEF Synced, Shared, LockHeld
    <3>4. SameRadio(g) /\ (K = Answers \/ sock[g].at \notin Held)
      BY <3>3 DEF SameRadio, Held
    <3>5. World(sock[g].id) /\ SameLines(K, sock[g].id, 0)
      BY <1>2, <3>2
    <3> QED
      BY <3>1, <3>4, <3>5, OthersFine
  <2> QED
    BY <2>1, <2>2
<1>4. ASSUME NEW i \in Ids \ ids' PROVE Clean(i)'
  <2>1. i \in Ids /\ i # sock[h].id /\ Clean(i)
    BY <1>1, UsedFacts DEF Synced, Quiet
  <2>2. World(i) /\ SameLines(K, i, 0)
    BY <1>2, <2>1
  <2>3. \A j \in Pos' : rx'[j].id = i => \E k \in Pos : rx[k].id = i
    BY <2>2 DEF SameLines
  <2> QED
    BY <2>1, <2>2, <2>3, CleanKept
<1>5. Later'
  <2>1. sock[h].asked <= attempts /\ attempts \in Nat /\ Later
    BY DEF Synced, Quiet, IInv, RestOK, Shared, Asked
  <2>2. ASSUME NEW l \in Links, l > attempts
        PROVE  l # sock[h].asked
    BY <2>1, <2>2 DEF Links
  <2> QED
    BY <1>1, <2>1, <2>2 DEF Later
<1> QED
  BY <1>3, <1>4, <1>5 DEF Quiet

(* The call the radio works for. *)
LEMMA Worker ==
  ASSUME Synced, radio.op # "idle"
  PROVE  \E h \in Handles :
           /\ smutex = h /\ Used(h) /\ Fine(h) /\ Asked(h) /\ sock[h] \in Sockets
           /\ radio.id = sock[h].id /\ sock[h].id \in Ids
           /\ radio.op = "connect" => sock[h].at = "connecting" /\ radio.link = sock[h].asked
           /\ radio.op = "close" => sock[h].at = "closing"
           /\ radio.op \in {"send", "data"} => sock[h].at = "asking"
           /\ radio.op = "sending" => sock[h].at = "writing"
           /\ radio.op # "data" => \A j \in Pos : rx[j].kind \notin Answers
<1>1. Works /\ Awaited /\ smutex \in Handles
  BY DEF Synced, Quiet, Works
<1>2. radio.op \in {"connect", "close", "send", "data", "sending"}
  BY DEF Synced, IInv, RestOK, RadioOK, Commands
<1>3. sock[smutex].at # "none"
  BY <1>1, <1>2 DEF Works
<1>4. /\ Used(smutex) /\ Fine(smutex) /\ Asked(smutex) /\ sock[smutex].id \in Ids
      /\ sock[smutex] \in Sockets
  BY <1>1, <1>3, UsedFacts DEF Used
<1>5. radio.op # "data" => \A j \in Pos : rx[j].kind \notin Answers
  BY <1>1 DEF Awaited, Answers
<1> QED
  BY <1>1, <1>4, <1>5 DEF Works

LEMMA ReplyLines ==
  ASSUME NEW kind \in Answers
  PROVE  /\ Reply(kind) \in Lines /\ Reply(kind).id = NoId /\ Reply(kind).kind = kind
  BY DEF Reply, Line, Lines, Kinds, Answers
LEMMA ReportLines ==
  ASSUME NEW kind \in {"CONNECT", "CLOSED"}, NEW i \in Ids
  PROVE  Report(kind, i) \in Lines /\ Report(kind, i).id = i /\ Report(kind, i).kind = kind
  BY DEF Report, Line, Lines, Kinds

LEMMA RadioConnectsQuiet ==
  ASSUME Synced, late = 0, RadioConnects
  PROVE  Quiet'
<1>1. /\ radio.op = "connect" /\ conn[radio.id] = NoLink
      /\ conn' = [conn EXCEPT ![radio.id] = radio.link]
      /\ rx' = rx \o <<Report("CONNECT", radio.id), Reply("OK")>>
      /\ radio' = Idle /\ UNCHANGED <<ids, idBits, idBitsClose, packets, smutex, sock>>
      /\ UNCHANGED <<driver, attempts, sent, said, heard>>
  BY DEF RadioConnects, driver
<1>2. PICK h \in Handles :
        /\ smutex = h /\ Used(h) /\ Fine(h) /\ Asked(h) /\ radio.id = sock[h].id
        /\ sock[h].id \in Ids /\ sock[h].at = "connecting" /\ radio.link = sock[h].asked
        /\ \A j \in Pos : rx[j].kind \notin Answers
  BY <1>1, Worker
<1> DEFINE i == sock[h].id
           n == Len(rx)
<1>3. /\ Silent(i) /\ i \notin idBitsClose /\ sock[h].link = NoLink /\ sock[h].asked # NoLink
      /\ ~sock[h].ended /\ packets[i] = <<>>
  BY <1>1, <1>2 DEF Fine, Joining, Asked, Ours
<1>4. rx \in Seq(Lines) /\ conn \in [Ids -> Links \cup {NoLink}]
  BY DEF Synced, IInv, RestOK
<1>5. i \notin idBits
  BY <1>2 DEF Fine, Joining, Answers
<1>6. /\ n \in Nat
      /\ \A j \in Pos : j \in Pos' /\ rx'[j] = rx[j] /\ j <= n
      /\ n + 1 \in Pos' /\ rx'[n + 1].kind = "CONNECT" /\ rx'[n + 1].id = i
      /\ n + 2 \in Pos' /\ rx'[n + 2].kind = "OK" /\ rx'[n + 2].id = NoId
      /\ \A j \in Pos' : j \in Pos \/ j = n + 1 \/ j = n + 2
  <2>1. Report("CONNECT", i) \in Lines /\ Reply("OK") \in Lines
    BY <1>2, ReplyLines, ReportLines DEF Answers
  <2>2. rx' = rx \o <<Report("CONNECT", i), Reply("OK")>>
    BY <1>1, <1>2
  <2> DEFINE c == Report("CONNECT", i)
             r == Reply("OK")
  <2>3. c.kind = "CONNECT" /\ c.id = i /\ r.kind = "OK" /\ r.id = NoId
    BY <1>2, ReplyLines, ReportLines DEF Answers
  <2>4. c \in Lines /\ r \in Lines /\ rx' = rx \o <<c, r>>
    BY <2>1, <2>2
  <2> HIDE DEF c, r, i
  <2>5. /\ n \in Nat
        /\ \A j \in Pos : j \in Pos' /\ rx'[j] = rx[j] /\ j <= n
        /\ n + 1 \in Pos' /\ rx'[n + 1] = c
        /\ n + 2 \in Pos' /\ rx'[n + 2] = r
        /\ \A j \in Pos' : j \in Pos \/ j = n + 1 \/ j = n + 2
    BY <1>4, <2>4, ConcatPos
  <2> QED
    BY <2>3, <2>5
<1>7. conn'[i] = sock[h].asked /\ \A k \in Ids : k # i => conn'[k] = conn[k]
  BY <1>1, <1>2, <1>4
<1>8. \A j \in Pos' : rx'[j].id = i <=> j = n + 1
  BY <1>2, <1>3, <1>6, Numbers DEF Silent
<1>9. \A j \in Pos' : rx'[j].kind \in Answers <=> j = n + 2
  BY <1>2, <1>6 DEF Answers
<1>10. Ours(h)'
  BY <1>1, <1>2, <1>3, <1>5, <1>7 DEF Fine, Ours
<1>13. Counted(h)' /\ Ended(h)'
  BY <1>1, <1>2, <1>3, CountedSame DEF Fine, Ended
<1>17. sock'[h].id = i /\ sock'[h].at = "connecting" /\ sock[h].asked # NoLink
       /\ i \notin idBits' /\ conn'[i] # NoLink /\ radio'.op = "idle" /\ smutex' = h
  BY <1>1, <1>2, <1>3, <1>5, <1>7 DEF Idle, Command
<1>18. \A j \in Pos' : j \in Nat
  BY DEF Pos
<1> HIDE DEF i, n
<1>11. InOrder(h)'
  <2>1. \A j \in Pos' : rx'[j].id = i => rx'[j].kind = "CONNECT"
    BY <1>6, <1>8
  <2>2. \A j, k \in Pos' : rx'[j].id = i /\ rx'[k].id = i => j <= k
    BY <1>8, <1>18
  <2> QED
    BY <1>17, <2>1, <2>2 DEF InOrder, About
<1>12. Joining(h)'
  <2>1. \A j \in Pos' : rx'[j].id = i => rx'[j].kind = "CONNECT"
    BY <1>6, <1>8
  <2>2. \A j \in Pos' : rx'[j].kind = "OK" => j = n + 2
    BY <1>9 DEF Answers
  <2>3. n + 1 \in Pos' /\ n + 1 < n + 2 /\ rx'[n + 1].kind = "CONNECT" /\ rx'[n + 1].id = i
        /\ n + 2 \in Pos' /\ rx'[n + 2].kind = "OK"
    BY <1>6
  <2>4. \A j \in Pos' : rx'[j].kind = "OK" => \E k \in Pos' : k < j /\ rx'[k].kind = "CONNECT" /\ rx'[k].id = i
    BY <2>2, <2>3
  <2> QED
    BY <1>17, <2>1, <2>3, <2>4 DEF Joining, About
<1>14. Received(h)'
  <2>1. SameData(i, 0)
    BY <1>3, <1>6, <1>8 DEF SameData, Silent, Pos
  <2> QED
    BY <1>1, <1>2, <2>1, DataKept DEF Fine, i
<1>15. Works' /\ Awaited'
  <2>1. \A j \in Pos' : rx'[j].kind \in Answers => j = n + 2
    BY <1>9
  <2>2. Awaited'
    BY <1>2, <1>6, <1>17, <2>1 DEF Awaited, Answers
  <2> QED
    BY <1>17, <2>2 DEF Works
<1>16. ASSUME NEW k \in Ids, k # i PROVE SameLines({}, k, 0)
  <2>1. \A j \in Pos' : rx'[j].id = k => j \in Pos /\ rx'[j] = rx[j] /\ j \in Nat
    BY <1>6, <1>8, <1>16, <1>18, Numbers
  <2>2. \A j \in Pos : j \in Pos' /\ rx'[j] = rx[j] /\ j \in Nat
    BY <1>6, <1>18
  <2>3. \A j \in Nat : j + 0 = j /\ j - 0 = j
    OBVIOUS
  <2> QED
    BY <2>1, <2>2, <2>3 DEF SameLines
<1> HIDE DEF i
<1> QED
  <2>1. Fine(h)'
    BY <1>10, <1>11, <1>12, <1>13, <1>14 DEF Fine
  <2> QED
    BY <1>1, <1>2, <1>7, <1>15, <1>16, <2>1, WorldQuiet DEF i

-----------------------------------------------------------------------------
(* Two lines, or one, at the end of the stream, about the id of a socket   *)
(* or about none.                                                          *)
LEMMA TwoAdded ==
  ASSUME rx \in Seq(Lines), NEW c \in Lines, NEW r \in Lines, rx' = rx \o <<c, r>>,
         c.kind # "IPD", r.kind # "IPD", r.id = NoId
  PROVE  /\ Len(rx) \in Nat /\ \A j \in Pos' : j \in Nat
         /\ \A j \in Pos : j \in Pos' /\ rx'[j] = rx[j] /\ j <= Len(rx)
         /\ Len(rx) + 1 \in Pos' /\ rx'[Len(rx) + 1] = c /\ Len(rx) + 2 \in Pos' /\ rx'[Len(rx) + 2] = r
         /\ \A j \in Pos' : j \in Pos \/ j = Len(rx) + 1 \/ j = Len(rx) + 2
         /\ \A k : SameData(k, 0)
         /\ \A k \in Ids : k # c.id => SameLines({}, k, 0)
<1>1. /\ Len(rx) \in Nat
      /\ \A j \in Pos : j \in Pos' /\ rx'[j] = rx[j] /\ j <= Len(rx)
      /\ Len(rx) + 1 \in Pos' /\ rx'[Len(rx) + 1] = c /\ Len(rx) + 2 \in Pos' /\ rx'[Len(rx) + 2] = r
      /\ \A j \in Pos' : j \in Pos \/ j = Len(rx) + 1 \/ j = Len(rx) + 2
  BY ConcatPos
<1>2. \A j \in Pos' : j \in Nat
  BY DEF Pos
<1>3. \A j \in Nat : j + 0 = j /\ j - 0 = j
  OBVIOUS
<1>4. ASSUME NEW k PROVE SameData(k, 0)
  BY <1>1, <1>2, <1>3 DEF SameData
<1>5. ASSUME NEW k \in Ids, k # c.id PROVE SameLines({}, k, 0)
  BY <1>1, <1>2, <1>3, <1>5, Numbers DEF SameLines
<1> QED
  BY <1>1, <1>2, <1>4, <1>5

LEMMA OneAdded ==
  ASSUME rx \in Seq(Lines), NEW c \in Lines, rx' = Append(rx, c)
  PROVE  /\ Len(rx) \in Nat /\ \A j \in Pos' : j \in Nat
         /\ \A j \in Pos : j \in Pos' /\ rx'[j] = rx[j] /\ j <= Len(rx)
         /\ Len(rx) + 1 \in Pos' /\ rx'[Len(rx) + 1] = c
         /\ \A j \in Pos' : j \in Pos \/ j = Len(rx) + 1
         /\ c.kind # "IPD" => \A i : SameData(i, 0)
         /\ \A k : c.id # k => SameLines({}, k, 0)
         /\ c.kind \notin Answers => \A k : c.id # k => SameLines(Answers, k, 0)
<1>1. /\ Len(rx) \in Nat
      /\ \A j \in Pos : j \in Pos' /\ rx'[j] = rx[j] /\ j <= Len(rx)
      /\ Len(rx) + 1 \in Pos' /\ rx'[Len(rx) + 1] = c
      /\ \A j \in Pos' : j \in Pos \/ j = Len(rx) + 1
  BY AppendPos
<1>2. \A j \in Pos' : j \in Nat
  BY DEF Pos
<1>3. \A j \in Nat : j + 0 = j /\ j - 0 = j
  OBVIOUS
<1>4. ASSUME c.kind # "IPD", NEW i PROVE SameData(i, 0)
  BY <1>1, <1>2, <1>3, <1>4 DEF SameData
<1>5. ASSUME NEW k, c.id # k PROVE SameLines({}, k, 0)
  BY <1>1, <1>2, <1>3, <1>5 DEF SameLines
<1>6. ASSUME c.kind \notin Answers, NEW k, c.id # k PROVE SameLines(Answers, k, 0)
  BY <1>1, <1>2, <1>3, <1>6 DEF SameLines
<1> QED
  BY <1>1, <1>2, <1>4, <1>5, <1>6

LEMMA RadioClosesQuiet ==
  ASSUME Synced, late = 0, RadioCloses
  PROVE  Quiet'
<1>1. /\ radio.op = "close" /\ conn[radio.id] # NoLink
      /\ conn' = [conn EXCEPT ![radio.id] = NoLink]
      /\ rx' = rx \o <<Report("CLOSED", radio.id), Reply("OK")>>
      /\ radio' = Idle /\ UNCHANGED <<ids, idBits, idBitsClose, packets, smutex, sock>>
      /\ UNCHANGED <<driver, attempts, sent, said, heard>>
  BY DEF RadioCloses, driver
<1>2. PICK h \in Handles :
        /\ smutex = h /\ Used(h) /\ Fine(h) /\ Asked(h) /\ radio.id = sock[h].id
        /\ sock[h].id \in Ids /\ sock[h].at = "closing"
        /\ \A j \in Pos : rx[j].kind \notin Answers
  BY <1>1, Worker
<1> DEFINE i == sock[h].id
           n == Len(rx)
<1>3. conn[i] # NoLink /\ i \in idBits /\ i \notin idBitsClose /\ ~sock[h].ended
      /\ sock[h].link # NoLink
  BY <1>1, <1>2 DEF Fine, Ours, Ended
<1>4. rx \in Seq(Lines) /\ conn \in [Ids -> Links \cup {NoLink}]
  BY DEF Synced, IInv, RestOK
<1>5. conn'[i] = NoLink /\ \A k \in Ids : k # i => conn'[k] = conn[k]
  BY <1>1, <1>2, <1>4
<1>6. /\ n \in Nat /\ \A j \in Pos' : j \in Nat
      /\ \A j \in Pos : j \in Pos' /\ rx'[j] = rx[j] /\ j <= n
      /\ n + 1 \in Pos' /\ rx'[n + 1].kind = "CLOSED" /\ rx'[n + 1].id = i
      /\ n + 2 \in Pos' /\ rx'[n + 2].kind = "OK" /\ rx'[n + 2].id = NoId
      /\ \A j \in Pos' : j \in Pos \/ j = n + 1 \/ j = n + 2
      /\ SameData(i, 0) /\ \A k \in Ids : k # i => SameLines({}, k, 0)
  <2> DEFINE c == Report("CLOSED", i)
             r == Reply("OK")
  <2>1. c \in Lines /\ r \in Lines /\ c.kind = "CLOSED" /\ c.id = i /\ r.kind = "OK" /\ r.id = NoId
    BY <1>2, ReplyLines, ReportLines DEF Answers
  <2>2. rx' = rx \o <<c, r>> /\ i \in Ids
    BY <1>1, <1>2
  <2>3. c.kind \notin Answers /\ c.kind # "IPD" /\ r.kind # "IPD" /\ n = Len(rx)
    BY <2>1 DEF Answers
  <2> HIDE DEF c, r, i
  <2>4. /\ n \in Nat /\ \A j \in Pos' : j \in Nat
        /\ \A j \in Pos : j \in Pos' /\ rx'[j] = rx[j] /\ j <= n
        /\ n + 1 \in Pos' /\ rx'[n + 1] = c /\ n + 2 \in Pos' /\ rx'[n + 2] = r
        /\ \A j \in Pos' : j \in Pos \/ j = n + 1 \/ j = n + 2
        /\ SameData(i, 0) /\ \A k \in Ids : k # i => SameLines({}, k, 0)
    BY <1>4, <2>1, <2>2, <2>3, TwoAdded
  <2> QED
    BY <2>1, <2>4
<1>7. Fine(h) /\ sock'[h].id = i /\ sock'[h].at = "closing" /\ sock'[h] = sock[h]
      /\ idBits' = idBits /\ i \in idBits' /\ i \notin idBitsClose'
      /\ packets'[i] = packets[i] /\ sock'[h].link # NoLink /\ smutex' = h /\ radio'.op = "idle"
  BY <1>1, <1>2, <1>3 DEF Idle, Command
<1>8. sock[h].tries = 0
  BY <1>2 DEF Fine, Ours
<1>9. Received(h)' /\ Counted(h)' /\ Ended(h)'
  <2>1. Received(h)'
    BY <1>1, <1>2, <1>6, DataKept DEF Fine
  <2> QED
    BY <1>1, <1>2, <1>3, <2>1, CountedSame DEF Fine, Ended
<1>10. \A j \in Pos : rx[j].id = i => rx[j].kind # "CLOSED" /\ rx[j].kind # "CONNECT"
  BY <1>2, <1>3 DEF Fine, InOrder, About
<1> HIDE DEF i, n
<1>11. Ours(h)'
  BY <1>5, <1>6, <1>7, <1>8 DEF Ours, Reported, Pos
<1>12. InOrder(h)'
  <2>1. \A j \in Pos' : rx'[j].id = i => rx'[j].kind # "CONNECT"
    BY <1>6, <1>10, Numbers DEF i
  <2>2. \A j \in Pos' : rx'[j].id = i /\ rx'[j].kind = "CLOSED" => j = n + 1
    BY <1>2, <1>6, <1>10, Numbers DEF i
  <2>3. \A j \in Pos' : rx'[j].id = i => j <= n + 1
    BY <1>2, <1>6, Numbers DEF i
  <2>4. \A j \in Pos' : rx'[j].kind = "OK" => j = n + 2
    BY <1>2, <1>6 DEF Answers
  <2>5. \A j, k \in Pos' : rx'[j].kind = "OK" /\ rx'[k].id = i => k <= j
    BY <1>6, <2>3, <2>4
  <2> QED
    BY <1>5, <1>7, <2>1, <2>2, <2>3, <2>5 DEF InOrder, About
<1>13. Joining(h)'
  BY <1>7 DEF Joining
<1>14. Works' /\ Awaited'
  <2>1. \A j \in Pos' : rx'[j].kind \in Answers => j = n + 2
    BY <1>2, <1>6 DEF Answers
  <2>2. Awaited'
    BY <1>6, <1>7, <2>1 DEF Awaited, Answers
  <2> QED
    BY <1>7, <2>2 DEF Works
<1> QED
  <2>1. Fine(h)'
    BY <1>9, <1>11, <1>12, <1>13 DEF Fine
  <2> QED
    BY <1>1, <1>2, <1>5, <1>6, <1>14, <2>1, WorldQuiet DEF i

(* The radio answers a call that is calm, with a line about no id. *)
LEMMA RepliesQuiet ==
  ASSUME Synced, NEW h \in Handles, smutex = h, sock[h].at \in {"asking", "writing"},
         UNCHANGED <<driver, conn, attempts, sent, said>>, NEW kind \in {"PROMPT", "SEND_OK"},
         rx' = Append(rx, Reply(kind)), \A j \in Pos : rx[j].kind \notin Answers,
         \A l \in Links : l # sock[h].asked => heard'[l] = heard[l],
         Counted(h)', Works',
         kind = "PROMPT" => sock[h].at = "asking" /\ radio'.op = "data",
         kind = "SEND_OK" => sock[h].at = "writing" /\ radio'.op = "idle"
  PROVE  Quiet'
<1>1. UNCHANGED <<ids, idBits, idBitsClose, packets, smutex, sock>>
  BY DEF driver
<1>2. Used(h) /\ Fine(h) /\ sock[h].id \in Ids
  BY UsedFacts DEF Used
<1> DEFINE n == Len(rx)
<1>3. Reply(kind) \in Lines /\ Reply(kind).id = NoId /\ Reply(kind).kind = kind
  BY ReplyLines DEF Answers
<1>4. rx \in Seq(Lines)
  BY DEF Synced, IInv, RestOK
<1>5. /\ \A j \in Pos : j \in Pos' /\ rx'[j] = rx[j]
      /\ n + 1 \in Pos' /\ rx'[n + 1].kind = kind /\ rx'[n + 1].id = NoId
      /\ \A j \in Pos' : j \in Pos \/ j = n + 1
      /\ \A i \in Ids : SameLines({}, i, 0)
  <2> DEFINE c == Reply(kind)
  <2>1. c \in Lines /\ c.id = NoId /\ c.kind = kind /\ rx' = Append(rx, c)
    BY <1>3
  <2> HIDE DEF c
  <2> QED
    BY <1>4, <2>1, OneAdded, Numbers
<1>6. World(sock[h].id) /\ \A i \in Ids : World(i)
  BY <1>1 DEF World, Bits
<1>7. Stays(h) /\ SameRadio(h)
  BY <1>1 DEF Stays, SameRadio
<1>8. SameLines({}, sock[h].id, 0)
  BY <1>2, <1>5
<1>9. Ours(h)' /\ InOrder(h)' /\ Joining(h)'
  BY <1>2, <1>6, <1>7, <1>8, OursKept, InOrderKept, JoiningKept DEF Fine, World
<1>10. Received(h)' /\ Ended(h)'
  BY <1>1, <1>2, <1>6, <1>8, ReceivedKept, EndedKept DEF Fine
<1>11. Awaited'
  <2>1. \A j \in Pos' : rx'[j].kind \in Answers => j = n + 1
    BY <1>5
  <2>2. smutex' = h /\ sock'[h].at = sock[h].at
    BY <1>1
  <2> HIDE DEF n
  <2> QED
    BY <1>5, <2>1, <2>2 DEF Awaited, Answers
<1>12. \A i \in Ids : i # sock[h].id => conn'[i] = conn[i]
  OBVIOUS
<1> QED
  <2>1. Fine(h)'
    BY <1>9, <1>10 DEF Fine
  <2>2. \A i \in Ids : i # sock[h].id => SameLines({}, i, 0)
    BY <1>5
  <2>3. /\ UNCHANGED <<driver, attempts>>
        /\ \A l \in Links : l # sock[h].asked =>
             sent'[l] = sent[l] /\ heard'[l] = heard[l] /\ said'[l] = said[l]
    OBVIOUS
  <2> QED
    BY <1>2, <1>11, <1>12, <2>1, <2>2, <2>3, WorldQuiet

LEMMA RadioPromptsQuiet ==
  ASSUME Synced, late = 0, RadioPrompts
  PROVE  Quiet'
<1>1. /\ radio.op = "send" /\ radio' = [radio EXCEPT !.op = "data"]
      /\ rx' = Append(rx, Reply("PROMPT")) /\ UNCHANGED <<ids, smutex, sock>>
      /\ UNCHANGED <<driver, conn, attempts, sent, said>> /\ heard' = heard
  BY DEF RadioPrompts, driver, world
<1>2. PICK h \in Handles :
        /\ smutex = h /\ Used(h) /\ Fine(h) /\ radio.id = sock[h].id /\ sock[h].at = "asking"
        /\ \A j \in Pos : rx[j].kind \notin Answers
  BY <1>1, Worker
<1>3. radio'.op = "data" /\ radio'.id = radio.id
  <2>1. radio \in Commands
    BY DEF Synced, IInv, RestOK, RadioOK
  <2> QED
    BY <1>1, <2>1 DEF Commands
<1>4. Works'
  BY <1>1, <1>2, <1>3 DEF Works
<1>5. Counted(h)'
  BY <1>1, <1>2 DEF Fine, Counted
<1> QED
  BY <1>1, <1>2, <1>3, <1>4, <1>5, RepliesQuiet

LEMMA RadioSendsQuiet ==
  ASSUME Synced, late = 0, RadioSends
  PROVE  Quiet'
<1>1. /\ radio.op = "sending" /\ conn[radio.id] # NoLink /\ radio' = Idle
      /\ heard' = [heard EXCEPT ![conn[radio.id]] = @ + 1]
      /\ rx' = Append(rx, Reply("SEND_OK")) /\ UNCHANGED <<ids, smutex, sock>>
      /\ UNCHANGED <<driver, conn, attempts, sent, said>>
  BY DEF RadioSends, driver
<1>2. PICK h \in Handles :
        /\ smutex = h /\ Used(h) /\ Fine(h) /\ sock[h] \in Sockets
        /\ radio.id = sock[h].id /\ sock[h].at = "writing"
        /\ \A j \in Pos : rx[j].kind \notin Answers
  BY <1>1, Worker
<1> DEFINE l == sock[h].asked
<1>3. conn[radio.id] = l /\ l # NoLink /\ l \in Links
  <2>1. conn[radio.id] = l /\ l # NoLink
    BY <1>1, <1>2 DEF Fine, Ours
  <2> QED
    BY <1>2, <2>1 DEF Sockets
<1>4. heard \in [Links -> Nat] /\ said \in [Links -> Nat] /\ sock[h].acked \in Nat
  BY <1>2 DEF Synced, IInv, RestOK, Sockets
<1>5. heard'[l] = heard[l] + 1 /\ \A k \in Links : k # l => heard'[k] = heard[k]
  BY <1>1, <1>3, <1>4
<1>6. heard[l] < said[l] /\ sock[h].acked = heard[l] /\ heard[l] \in Nat /\ said[l] \in Nat
      /\ sock[h].chunks > 0 /\ sock[h].acked + sock[h].chunks <= said[l]
  <2>1. ~ \E j \in Pos : rx[j].kind = "SEND_OK"
    BY <1>2 DEF Answers
  <2>2. heard[l] = sock[h].acked
    BY <1>2, <1>3, <2>1 DEF Fine, Counted
  <2>3. sock[h].chunks > 0 /\ sock[h].acked + sock[h].chunks <= said[l]
    BY <1>2, <1>3 DEF Fine, Counted
  <2>4. sock[h].chunks \in Nat /\ heard[l] \in Nat /\ said[l] \in Nat
    BY <1>2, <1>3, <1>4 DEF Sockets
  <2> QED
    BY <1>4, <2>2, <2>3, <2>4
<1>7. \E j \in Pos' : rx'[j].kind = "SEND_OK"
  <2> DEFINE c == Reply("SEND_OK")
  <2>1. c \in Lines /\ c.kind = "SEND_OK" /\ rx' = Append(rx, c) /\ rx \in Seq(Lines)
    BY <1>1, ReplyLines DEF Answers, Synced, IInv, RestOK
  <2> HIDE DEF c
  <2> QED
    BY <2>1, OneAdded
<1>8. Counted(h)'
  <2>1. sock'[h] = sock[h] /\ said' = said
    BY <1>1
  <2> HIDE DEF l
  <2>2. /\ heard'[l] <= said'[l] /\ heard'[l] = sock[h].acked + 1
        /\ sock[h].chunks > 0 /\ sock[h].acked + sock[h].chunks <= said'[l]
    BY <1>4, <1>5, <1>6, <2>1
  <2> QED
    BY <1>2, <1>7, <2>1, <2>2 DEF Counted, l
<1>9. Works' /\ radio'.op = "idle"
  BY <1>1 DEF Works, Idle, Command
<1> QED
  BY <1>1, <1>2, <1>5, <1>8, <1>9, RepliesQuiet

-----------------------------------------------------------------------------
LEMMA RadioRefusesQuiet ==
  ASSUME Synced, late = 0, RadioRefuses
  PROVE  Quiet'
<1>1. /\ \/ radio.op \in {"connect", "send", "sending"}
         \/ radio.op = "close" /\ conn[radio.id] = NoLink
      /\ radio.op # "idle" /\ radio.op # "data" /\ radio'.op = "idle"
      /\ UNCHANGED <<ids, idBits, idBitsClose, packets, smutex, sock>>
      /\ UNCHANGED <<driver, conn, attempts, sent, said, heard>>
      /\ \/ rx' = rx
         \/ /\ radio.op = "connect" /\ conn[radio.id] = NoLink
            /\ rx' = Append(rx, Report("CLOSED", radio.id))
  BY DEF RadioRefuses, driver, world, Idle, Command
<1>2. PICK h \in Handles :
        /\ smutex = h /\ Used(h) /\ Fine(h) /\ Asked(h)
        /\ radio.id = sock[h].id /\ sock[h].id \in Ids
        /\ radio.op = "connect" => sock[h].at = "connecting"
        /\ radio.op = "close" => sock[h].at = "closing"
        /\ radio.op = "send" => sock[h].at = "asking"
        /\ radio.op = "sending" => sock[h].at = "writing"
        /\ \A j \in Pos : rx[j].kind \notin Answers
  BY <1>1, Worker
<1> DEFINE i == sock[h].id
<1>3. World(i) /\ \A k \in Ids : conn'[k] = conn[k]
  BY <1>1 DEF World, Bits
<1>4. sock[h].at = "closing" => conn[i] = NoLink
  BY <1>1, <1>2
<1>5. rx \in Seq(Lines)
  BY DEF Synced, IInv, RestOK
<1>6. Works'
  BY <1>1 DEF Works
<1>7. CASE rx' = rx
  <2>1. Pos' = Pos
    BY <1>7 DEF Pos
  <2>2. Ours(h)'
    BY <1>1, <1>2, <1>3, <1>4, <1>7, <2>1 DEF Fine, Ours, World, Bits, Reported, Silent
  <2>3. InOrder(h)' /\ Joining(h)'
    BY <1>1, <1>2, <1>3, <1>7, <2>1
    DEF Fine, InOrder, Joining, World, Bits, Reported, Silent, About
  <2>4. Counted(h)' /\ Received(h)' /\ Ended(h)'
    BY <1>1, <1>2, <1>3, <1>7, <2>1, LinesKept, ReceivedKept, CountedSame, EndedKept
    DEF Fine, World
  <2>5. Awaited'
    BY <1>2, <1>7, <2>1 DEF Awaited, Answers
  <2>6. Fine(h)' /\ \A k \in Ids : SameLines({}, k, 0)
    BY <1>7, <2>2, <2>3, <2>4, LinesKept DEF Fine
  <2> HIDE DEF i
  <2> QED
    BY <1>1, <1>2, <1>3, <1>6, <2>5, <2>6, WorldQuiet
<1>8. CASE radio.op = "connect" /\ conn[i] = NoLink /\ rx' = Append(rx, Report("CLOSED", i))
  <2> DEFINE c == Report("CLOSED", i)
             n == Len(rx)
  <2>1. c \in Lines /\ c.kind = "CLOSED" /\ c.id = i
    BY <1>2, ReportLines
  <2>2. rx' = Append(rx, c)
    BY <1>8
  <2>3. c.kind # "IPD" /\ c.kind \notin Answers
    BY <2>1 DEF Answers
  <2>4. /\ sock[h].at = "connecting" /\ Silent(i) /\ i \notin idBitsClose /\ i \notin idBits
        /\ sock[h].link = NoLink /\ sock[h].asked # NoLink /\ ~sock[h].ended /\ packets[i] = <<>>
    BY <1>2, <1>8 DEF Fine, Joining, Asked, Ours, Answers
  <2> HIDE DEF c, i
  <2>5. /\ n \in Nat /\ \A j \in Pos' : j \in Nat
        /\ \A j \in Pos : j \in Pos' /\ rx'[j] = rx[j] /\ j <= n
        /\ n + 1 \in Pos' /\ rx'[n + 1] = c
        /\ \A j \in Pos' : j \in Pos \/ j = n + 1
        /\ SameData(i, 0) /\ \A k \in Ids : k # i => SameLines({}, k, 0)
    BY <1>5, <2>1, <2>2, <2>3, OneAdded
  <2>6. \A j \in Pos' : rx'[j].id = i => j = n + 1 /\ rx'[j].kind = "CLOSED"
    BY <2>1, <2>4, <2>5 DEF Silent
  <2>7. \A j \in Pos' : rx'[j].kind \notin Answers
    BY <1>2, <2>3, <2>5
  <2>8. /\ sock'[h].id = i /\ sock'[h].at = "connecting" /\ i \notin idBits'
        /\ i \notin idBitsClose' /\ conn'[i] = NoLink /\ sock'[h].link = NoLink
        /\ packets'[i] = <<>>
    BY <1>1, <1>8, <2>4 DEF i
  <2>9. Ours(h)'
    BY <2>8 DEF Ours
  <2>10. InOrder(h)'
    BY <2>5, <2>6, <2>8 DEF InOrder, About
  <2>11. Joining(h)'
    BY <1>1, <2>6, <2>7, <2>8 DEF Joining, Answers
  <2>12. Counted(h)' /\ Ended(h)'
    BY <1>1, <1>2, <2>4, CountedSame DEF Fine, Ended
  <2>13. Received(h)'
    BY <1>1, <1>2, <2>5, DataKept DEF Fine, i
  <2>14. Awaited'
    BY <2>7 DEF Awaited, Answers
  <2>15. Fine(h)'
    BY <2>9, <2>10, <2>11, <2>12, <2>13 DEF Fine
  <2> QED
    BY <1>1, <1>2, <1>3, <1>6, <2>5, <2>14, <2>15, WorldQuiet DEF i
<1> QED
  BY <1>1, <1>2, <1>7, <1>8

(* The socket whose connection the radio has. *)
LEMMA ConnOwner ==
  ASSUME Synced, NEW i \in Ids, conn[i] # NoLink
  PROVE  \E o \in Handles :
           /\ Used(o) /\ Fine(o) /\ Asked(o) /\ sock[o].id = i /\ sock[o] \in Sockets
           /\ conn[i] = sock[o].asked /\ sock[o].asked \in Links
           /\ i \notin idBitsClose /\ (i \in idBits \/ sock[o].at = "connecting")
           /\ ~sock[o].ended
           /\ \A j \in Pos : rx[j].id = i => rx[j].kind # "CLOSED"
           /\ sock[o].at = "closing" => \A j \in Pos : rx[j].kind # "OK"
           /\ sock[o].at = "connecting" =>
                radio.op # "connect" /\ \E j \in Pos : rx[j].kind = "OK"
<1>1. i \in ids
  BY DEF Synced, Quiet, Clean
<1>2. PICK o \in Handles : Used(o) /\ sock[o].id = i
  BY <1>1, Owner
<1>3. Fine(o) /\ Asked(o) /\ sock[o] \in Sockets /\ Awaited
  BY <1>2, UsedFacts DEF Synced, Quiet
<1>4. conn[i] = sock[o].asked /\ sock[o].asked \in Links
  BY <1>2, <1>3 DEF Fine, Ours, Sockets
<1>5. /\ i \notin idBitsClose /\ (i \in idBits \/ sock[o].at = "connecting") /\ ~sock[o].ended
      /\ \A j \in Pos : rx[j].id = i => rx[j].kind # "CLOSED"
  BY <1>2, <1>3 DEF Fine, Ours, InOrder, Ended, About
<1>6. sock[o].at = "closing" => \A j \in Pos : rx[j].kind # "OK"
  BY <1>2, <1>3 DEF Fine, Ours, Awaited
<1>7. sock[o].at = "connecting" =>
        radio.op # "connect" /\ \E j \in Pos : rx[j].kind = "OK"
  BY <1>2, <1>3 DEF Fine, Joining, Awaited
<1> QED
  BY <1>2, <1>3, <1>4, <1>5, <1>6, <1>7

(* A report that comes for the connection of socket o, as the call of any  *)
(* socket sees it.                                                         *)
LEMMA ReportComes ==
  ASSUME Synced, NEW c \in Lines, c.kind \in {"CLOSED", "IPD"}, rx' = Append(rx, c),
         UNCHANGED <<driver, radio, attempts>>
  PROVE  Works' /\ Awaited'
<1>1. UNCHANGED <<sock, smutex>> /\ rx \in Seq(Lines) /\ Works /\ Awaited
  BY DEF driver, Synced, Quiet, IInv, RestOK
<1>2. /\ \A j \in Pos : j \in Pos' /\ rx'[j] = rx[j]
      /\ \A j \in Pos' : j \in Pos \/ j = Len(rx) + 1
      /\ rx'[Len(rx) + 1] = c
  BY <1>1, OneAdded
<1>3. \A j \in Pos' : rx'[j].kind \in Answers => j \in Pos /\ rx'[j] = rx[j]
  BY <1>2 DEF Answers
<1>4. Awaited'
  BY <1>1, <1>3 DEF Awaited, Answers
<1> QED
  BY <1>1, <1>4 DEF Works

LEMMA PeerClosesQuiet ==
  ASSUME Synced, late = 0, NEW i \in Ids, PeerCloses(i)
  PROVE  Quiet'
<1>1. /\ conn[i] # NoLink /\ conn' = [conn EXCEPT ![i] = NoLink]
      /\ rx' = Append(rx, Report("CLOSED", i))
      /\ UNCHANGED <<ids, idBits, idBitsClose, packets, smutex, sock>>
      /\ UNCHANGED <<driver, radio, attempts, sent, said, heard>>
  BY DEF PeerCloses, driver
<1>2. PICK o \in Handles :
        /\ Used(o) /\ Fine(o) /\ sock[o].id = i
        /\ i \notin idBitsClose /\ (i \in idBits \/ sock[o].at = "connecting") /\ ~sock[o].ended
        /\ \A j \in Pos : rx[j].id = i => rx[j].kind # "CLOSED"
        /\ sock[o].at = "closing" => \A j \in Pos : rx[j].kind # "OK"
        /\ sock[o].at = "connecting" =>
             radio.op # "connect" /\ \E j \in Pos : rx[j].kind = "OK"
  BY <1>1, ConnOwner
<1>3. rx \in Seq(Lines) /\ conn \in [Ids -> Links \cup {NoLink}]
  BY DEF Synced, IInv, RestOK
<1>4. conn'[i] = NoLink /\ \A k \in Ids : k # i => conn'[k] = conn[k]
  BY <1>1, <1>3
<1> DEFINE c == Report("CLOSED", i)
           n == Len(rx)
<1>5. c \in Lines /\ c.kind = "CLOSED" /\ c.id = i /\ c.kind # "IPD" /\ c.kind \notin Answers
  BY ReportLines DEF Answers
<1>6. rx' = Append(rx, c)
  BY <1>1
<1> HIDE DEF c
<1>7. /\ n \in Nat /\ \A j \in Pos' : j \in Nat
      /\ \A j \in Pos : j \in Pos' /\ rx'[j] = rx[j] /\ j <= n
      /\ n + 1 \in Pos' /\ rx'[n + 1] = c
      /\ \A j \in Pos' : j \in Pos \/ j = n + 1
      /\ SameData(i, 0) /\ \A k \in Ids : k # i => SameLines(Answers, k, 0)
  BY <1>3, <1>5, <1>6, OneAdded
<1> HIDE DEF n
<1>8. sock'[o] = sock[o] /\ idBits' = idBits /\ idBitsClose' = idBitsClose /\ packets' = packets
      /\ radio' = radio
  BY <1>1
<1>9. Ours(o)'
  BY <1>2, <1>4, <1>5, <1>7, <1>8 DEF Fine, Ours, Reported, Pos
<1>10. \A j \in Pos' : /\ rx'[j].id = i /\ rx'[j].kind = "CLOSED" => j = n + 1
                       /\ j <= n + 1
                       /\ rx'[j].kind = "CONNECT" /\ rx'[j].id = i => j \in Pos /\ rx'[j] = rx[j] /\ j <= n
                       /\ rx'[j].kind = "OK" => j \in Pos /\ rx'[j] = rx[j] /\ j <= n
  BY <1>2, <1>5, <1>7 DEF Answers
<1>11. InOrder(o)'
  <2>1. \A j \in Pos' : rx'[j].id = i => i \in idBits' \/ sock'[o].at = "connecting"
    BY <1>2, <1>8
  <2>2. \A j \in Pos' : rx'[j].kind = "CONNECT" /\ rx'[j].id = i =>
          i \notin idBits' /\ sock'[o].at = "connecting"
    BY <1>2, <1>8, <1>10 DEF Fine, InOrder, About
  <2>3. ASSUME NEW j \in Pos', NEW k \in Pos', rx'[j].kind = "CONNECT", rx'[j].id = i, rx'[k].id = i
        PROVE  j <= k
    <3>1. j \in Pos /\ rx'[j] = rx[j] /\ j <= n
      BY <1>10, <2>3
    <3>2. CASE k = n + 1
      BY <1>7, <3>1, <3>2
    <3>3. CASE k \in Pos
      BY <1>2, <1>7, <2>3, <3>1, <3>3 DEF Fine, InOrder, About
    <3> QED
      BY <1>7, <3>2, <3>3
  <2>4. sock'[o].at = "closing" => \A j \in Pos' : rx'[j].kind # "OK"
    BY <1>2, <1>8, <1>10
  <2>5. \E j \in Pos' : rx'[j].kind = "CLOSED" /\ rx'[j].id = i
    BY <1>5, <1>7
  <2> QED
    BY <1>2, <1>4, <1>8, <1>10, <2>1, <2>2, <2>3, <2>4, <2>5 DEF InOrder, About, Reported, Pos
<1>12. Joining(o)'
  <2> SUFFICES ASSUME sock[o].at = "connecting" PROVE Joining(o)'
    BY <1>8 DEF Joining
  <2>1. radio'.op # "connect" /\ \E j \in Pos' : rx'[j].kind = "OK"
    BY <1>2, <1>7, <1>8
  <2>2. ASSUME NEW j \in Pos', rx'[j].kind = "OK"
        PROVE  /\ i \in idBits' \/ \E k \in Pos' : k < j /\ rx'[k].kind = "CONNECT" /\ rx'[k].id = i
               /\ \A k \in Pos' : rx'[k].id = i /\ k < j => rx'[k].kind = "CONNECT"
    <3>1. j \in Pos /\ rx'[j] = rx[j] /\ j <= n /\ j \in Nat
      BY <1>7, <1>10, <2>2
    <3>2. i \in idBits \/ \E k \in Pos : k < j /\ rx[k].kind = "CONNECT" /\ rx[k].id = i
      BY <1>2, <2>2, <3>1 DEF Fine, Joining, About
    <3>3. ASSUME NEW k \in Pos', rx'[k].id = i, k < j PROVE rx'[k].kind = "CONNECT"
      <4>1. k \in Pos /\ rx'[k] = rx[k]
        <5>1. k \in Pos \/ k = n + 1
          BY <1>7
        <5>2. n \in Nat /\ j \in Nat /\ j <= n /\ k < j
          BY <1>7, <3>1, <3>3
        <5>3. k # n + 1
          BY ONLY <5>2
        <5> QED
          BY <1>7, <5>1, <5>3
      <4>2. rx[j].kind = "OK" /\ rx[k].id = sock[o].id
        BY <1>2, <2>2, <3>1, <3>3, <4>1
      <4>3. rx[k].kind = "CONNECT"
        BY <1>2, <3>1, <3>3, <4>1, <4>2 DEF Fine, Joining
      <4> QED
        BY <4>1, <4>3
    <3> QED
      BY <1>7, <1>8, <3>2, <3>3
  <2> QED
    BY <1>2, <1>8, <2>1, <2>2 DEF Joining, About
<1>13. Counted(o)' /\ Ended(o)' /\ Received(o)'
  <2>1. Ended(o)'
    BY <1>2, <1>8 DEF Ended
  <2>2. Received(o)'
    BY <1>1, <1>2, <1>7, DataKept DEF Fine
  <2>3. (\E j \in Pos' : rx'[j].kind = "SEND_OK") <=> \E j \in Pos : rx[j].kind = "SEND_OK"
    BY <1>5, <1>7
  <2>4. Counted(o)'
    BY <1>1, <1>2, <2>3, CountedSame DEF Fine
  <2> QED
    BY <2>1, <2>2, <2>4
<1>14. Works' /\ Awaited'
  BY <1>1, <1>5, <1>6, ReportComes
<1>15. Fine(o)'
  BY <1>9, <1>11, <1>12, <1>13 DEF Fine
<1> QED
  BY <1>1, <1>2, <1>4, <1>7, <1>14, <1>15, WorldQuiet

-----------------------------------------------------------------------------
(* More data comes for socket o. *)
LEMMA DataComes ==
  ASSUME NEW o \in Handles, Received(o), sock[o].asked \in Links, NEW c \in Lines,
         rx \in Seq(Lines), rx' = Append(rx, c), sent \in [Links -> Nat], sock \in [Handles -> Sockets],
         packets[sock[o].id] \in Seq({p \in Lines : p.kind = "IPD"}),
         c.kind = "IPD", c.id = sock[o].id, c.link = sock[o].asked, c.from = sent[sock[o].asked],
         c.from < c.to, sent'[sock[o].asked] = c.to, sock' = sock, packets' = packets
  PROVE  Received(o)'
<1> DEFINE i == sock[o].id
           l == sock[o].asked
           q == packets[i]
           n == Len(sock[o].got)
           b == Kept(o)
           D == Data(i)
           E == {j \in Pos' : rx'[j].kind = "IPD" /\ rx'[j].id = i}
           s == sent[l]
           m == Len(rx)
<1>1. /\ \A k \in 1 .. n : sock[o].got[k] = <<l, k>>
      /\ \A k \in 1 .. Len(q) : /\ q[k].link = l /\ q[k].from < q[k].to
                                /\ q[k].from = IF k = 1 THEN n ELSE q[k-1].to
      /\ \A j \in D : /\ rx[j].link = l /\ rx[j].from < rx[j].to
                      /\ b <= rx[j].from /\ rx[j].to <= s
      /\ \A j, k \in D : j < k => rx[j].to <= rx[k].from
      /\ b <= s
      /\ \A x \in b .. s - 1 : \E j \in D : rx[j].from <= x /\ x < rx[j].to
  BY Numbers DEF Received
<1>2. /\ m \in Nat /\ \A j \in Pos' : j \in Nat
      /\ \A j \in Pos : j \in Pos' /\ rx'[j] = rx[j] /\ j <= m
      /\ m + 1 \in Pos' /\ rx'[m + 1] = c
      /\ \A j \in Pos' : j \in Pos \/ j = m + 1
  BY OneAdded
<1>3. Data(i)' = E
  BY DEF Data, About
<1>4. \A j \in E : j \in Nat /\ (j = m + 1 \/ (j \in D /\ j <= m /\ rx'[j] = rx[j]))
  BY <1>2 DEF Data, About
<1>5. (\A j \in D : j \in E /\ rx'[j] = rx[j] /\ rx[j] \in Lines) /\ m + 1 \in E
  <2>1. \A j \in Pos : rx[j] \in Lines
    BY DEF Pos
  <2> QED
    BY <1>2, <2>1 DEF Data, About
<1>6. s \in Nat /\ n \in Nat /\ c.from = s /\ c.to \in Nat /\ s < c.to /\ sent'[l] = c.to
      /\ c.link = l
  <2>1. sock[o] \in Sockets
    OBVIOUS
  <2>2. sock[o].got \in Seq(Bytes)
    BY <2>1 DEF Sockets
  <2> QED
    BY <2>2, LineNat
<1>7. b \in Nat
  <2>1. q = <<>> => b = n
    BY DEF Kept
  <2>2. q # <<>> => b = q[Len(q)].to
    BY DEF Kept
  <2>3. q # <<>> => q[Len(q)] \in Lines
    <3> DEFINE T == {y \in Lines : y.kind = "IPD"}
    <3>1. q \in Seq(T)
      OBVIOUS
    <3> HIDE DEF T, q
    <3>2. q # <<>> => q[Len(q)] \in T
      BY <3>1
    <3> QED
      BY <3>2 DEF T
  <2> HIDE DEF q, b, n
  <2> QED
    BY <1>6, <2>1, <2>2, <2>3, LineNat
<1>8. Kept(o)' = b /\ packets'[i] = q /\ sock'[o].id = i /\ sock'[o].asked = l
      /\ sock'[o].got = sock[o].got
  BY DEF Kept
<1> HIDE DEF q, n, b, D, E, s, l, m
<1>9. ASSUME NEW j \in E
      PROVE  /\ rx'[j].link = l /\ rx'[j].from < rx'[j].to
             /\ b <= rx'[j].from /\ rx'[j].to <= c.to
  <2>1. CASE j = m + 1
    BY ONLY <1>1, <1>2, <1>6, <1>7, <2>1
  <2>2. CASE j \in D /\ rx'[j] = rx[j]
    BY <1>1, <1>5, <1>6, <1>7, <2>2, LineNat
  <2> QED
    BY <1>4, <2>1, <2>2
<1>10. ASSUME NEW j \in E, NEW k \in E, j < k PROVE rx'[j].to <= rx'[k].from
  <2>1. j \in D /\ rx'[j] = rx[j]
    BY ONLY <1>2, <1>4, <1>10, j \in E, k \in E
  <2>2. CASE k = m + 1
    <3>1. rx'[k].from = s
      BY ONLY <1>2, <1>6, <2>2
    <3>2. rx'[j].to <= s
      BY ONLY <1>1, <2>1
    <3> QED
      BY <3>1, <3>2
  <2>3. CASE k \in D /\ rx'[k] = rx[k]
    BY <1>1, <1>10, <2>1, <2>3
  <2> QED
    BY <1>4, <2>2, <2>3
<1>11. ASSUME NEW x \in b .. c.to - 1 PROVE \E j \in E : rx'[j].from <= x /\ x < rx'[j].to
  <2>1. CASE x < s
    <3>1. x \in b .. s - 1
      BY ONLY <1>6, <1>7, x \in b .. c.to - 1, <2>1
    <3> QED
      BY ONLY <1>1, <1>5, <3>1
  <2>2. CASE s <= x
    BY ONLY <1>2, <1>5, <1>6, <1>7, x \in b .. c.to - 1, <2>2
  <2> QED
    BY ONLY <1>6, <1>7, x \in b .. c.to - 1, <2>1, <2>2
<1>12. b <= c.to
  BY <1>1, <1>6, <1>7
<1> QED
  <2>1. Received(o)' <=>
          \/ sock'[o].asked = NoLink
          \/ /\ \A k \in 1 .. Len(sock'[o].got) : sock'[o].got[k] = <<sock'[o].asked, k>>
             /\ \A k \in 1 .. Len(packets'[sock'[o].id]) :
                  /\ packets'[sock'[o].id][k].link = sock'[o].asked
                  /\ packets'[sock'[o].id][k].from < packets'[sock'[o].id][k].to
                  /\ packets'[sock'[o].id][k].from = IF k = 1 THEN Len(sock'[o].got)
                        ELSE packets'[sock'[o].id][k-1].to
             /\ \A j \in Data(i)' :
                  /\ rx'[j].link = sock'[o].asked /\ rx'[j].from < rx'[j].to
                  /\ Kept(o)' <= rx'[j].from /\ rx'[j].to <= sent'[sock'[o].asked]
             /\ \A j, k \in Data(i)' : j < k => rx'[j].to <= rx'[k].from
             /\ Kept(o)' <= sent'[sock'[o].asked]
             /\ \A x \in Kept(o)' .. sent'[sock'[o].asked] - 1 :
                  \E j \in Data(i)' : rx'[j].from <= x /\ x < rx'[j].to
    BY <1>8 DEF Received
  <2> QED
    BY <1>1, <1>3, <1>6, <1>8, <1>9, <1>10, <1>11, <1>12, <2>1 DEF n

LEMMA PeerSendsQuiet ==
  ASSUME Synced, late = 0, NEW i \in Ids, PeerSends(i)
  PROVE  Quiet'
<1>1. /\ conn[i] # NoLink
      /\ UNCHANGED <<ids, idBits, idBitsClose, packets, smutex, sock>>
      /\ UNCHANGED <<driver, radio, conn, attempts, said, heard>>
  BY DEF PeerSends, driver
<1>2. PICK o \in Handles :
        /\ Used(o) /\ Fine(o) /\ sock[o].id = i /\ conn[i] = sock[o].asked /\ sock[o].asked \in Links
        /\ i \notin idBitsClose /\ (i \in idBits \/ sock[o].at = "connecting") /\ ~sock[o].ended
        /\ \A j \in Pos : rx[j].id = i => rx[j].kind # "CLOSED"
        /\ sock[o].at = "closing" => \A j \in Pos : rx[j].kind # "OK"
        /\ sock[o].at = "connecting" =>
             radio.op # "connect" /\ \E j \in Pos : rx[j].kind = "OK"
  BY <1>1, ConnOwner
<1>3. /\ rx \in Seq(Lines) /\ sent \in [Links -> Nat] /\ sock \in [Handles -> Sockets]
      /\ packets[i] \in Seq({p \in Lines : p.kind = "IPD"})
  BY DEF Synced, IInv, RestOK, SockOK, PacketsOK
<1> DEFINE l == sock[o].asked
<1>4. PICK more \in 1 .. Left :
        /\ sent' = [sent EXCEPT ![l] = @ + more]
        /\ rx' = Append(rx, Line("IPD", i, l, sent[l], sent[l] + more))
  BY <1>2 DEF PeerSends
<1> DEFINE c == Line("IPD", i, l, sent[l], sent[l] + more)
           n == Len(rx)
<1>5. sent[l] \in Nat /\ sent[l] + more \in Nat /\ sent[l] < sent[l] + more
  BY <1>2, <1>3
<1>6. c \in Lines
  BY <1>2, <1>5 DEF Line, Lines, Kinds
<1>7. /\ c.kind = "IPD" /\ c.id = i /\ c.link = l /\ c.from = sent[l] /\ c.to = sent[l] + more
      /\ c.kind \notin Answers /\ c.from < c.to
  BY <1>5 DEF Line, Answers
<1>8. rx' = Append(rx, c) /\ sent'[l] = c.to /\ \A k \in Links : k # l => sent'[k] = sent[k]
  BY <1>2, <1>3, <1>4, <1>7
<1> HIDE DEF c
<1>9. /\ n \in Nat /\ \A j \in Pos' : j \in Nat
      /\ \A j \in Pos : j \in Pos' /\ rx'[j] = rx[j] /\ j <= n
      /\ n + 1 \in Pos' /\ rx'[n + 1] = c
      /\ \A j \in Pos' : j \in Pos \/ j = n + 1
      /\ \A k \in Ids : k # i => SameLines(Answers, k, 0)
  BY <1>3, <1>6, <1>7, <1>8, OneAdded
<1> HIDE DEF n
<1>10. sock'[o] = sock[o] /\ idBits' = idBits /\ idBitsClose' = idBitsClose /\ packets' = packets
       /\ radio' = radio /\ conn' = conn /\ sock' = sock
  BY <1>1
<1>11. l # NoLink /\ conn'[i] = l
  BY <1>2, <1>10, Numbers
<1>12. Ours(o)'
  BY <1>2, <1>10, <1>11 DEF Fine, Ours
<1>13. \A j \in Pos' : rx'[j].kind # "IPD" => j \in Pos /\ rx'[j] = rx[j] /\ j <= n
  BY <1>7, <1>9
<1>14. InOrder(o)'
  <2>1. \A j \in Pos' : rx'[j].id = i => i \in idBits' \/ sock'[o].at = "connecting"
    BY <1>2, <1>10
  <2>2. \A j \in Pos' : rx'[j].kind = "CONNECT" /\ rx'[j].id = i =>
          i \notin idBits' /\ sock'[o].at = "connecting"
    BY <1>2, <1>10, <1>13 DEF Fine, InOrder, About
  <2>3. ASSUME NEW j \in Pos', NEW k \in Pos', rx'[j].kind = "CONNECT", rx'[j].id = i, rx'[k].id = i
        PROVE  j <= k
    <3>1. j \in Pos /\ rx'[j] = rx[j] /\ j <= n
      BY <1>13, <2>3
    <3>2. CASE k = n + 1
      BY <1>9, <3>1, <3>2
    <3>3. CASE k \in Pos
      BY <1>2, <1>9, <2>3, <3>1, <3>3 DEF Fine, InOrder, About
    <3> QED
      BY <1>9, <3>2, <3>3
  <2>4. sock'[o].at = "closing" => \A j \in Pos' : rx'[j].kind # "OK"
    BY <1>2, <1>10, <1>13
  <2>5. \A j \in Pos' : rx'[j].kind = "CLOSED" => rx'[j].id # i
    BY <1>2, <1>13
  <2> QED
    BY <1>2, <1>10, <1>11, <2>1, <2>2, <2>3, <2>4, <2>5 DEF InOrder, About
<1>15. Joining(o)'
  <2> SUFFICES ASSUME sock[o].at = "connecting" PROVE Joining(o)'
    BY <1>10 DEF Joining
  <2>1. radio'.op # "connect" /\ \E j \in Pos' : rx'[j].kind = "OK"
    BY <1>2, <1>9, <1>10
  <2>2. ASSUME NEW j \in Pos', rx'[j].kind = "OK"
        PROVE  /\ i \in idBits' \/ \E k \in Pos' : k < j /\ rx'[k].kind = "CONNECT" /\ rx'[k].id = i
               /\ \A k \in Pos' : rx'[k].id = i /\ k < j => rx'[k].kind = "CONNECT"
    <3>1. j \in Pos /\ rx'[j] = rx[j] /\ j <= n /\ j \in Nat
      BY <1>9, <1>13, <2>2
    <3>2. i \in idBits \/ \E k \in Pos : k < j /\ rx[k].kind = "CONNECT" /\ rx[k].id = i
      BY <1>2, <2>2, <3>1 DEF Fine, Joining, About
    <3>3. ASSUME NEW k \in Pos', rx'[k].id = i, k < j PROVE rx'[k].kind = "CONNECT"
      <4>1. k \in Pos /\ rx'[k] = rx[k]
        BY <1>9, <3>1, <3>3
      <4>2. rx[j].kind = "OK" /\ rx[k].id = sock[o].id
        BY <1>2, <2>2, <3>1, <3>3, <4>1
      <4>3. rx[k].kind = "CONNECT"
        BY <1>2, <3>1, <3>3, <4>1, <4>2 DEF Fine, Joining
      <4> QED
        BY <4>1, <4>3
    <3> QED
      BY <1>9, <1>10, <3>2, <3>3
  <2> QED
    BY <1>2, <1>10, <2>1, <2>2 DEF Joining, About
<1>16. Ended(o)' /\ Counted(o)'
  <2>1. (\E j \in Pos' : rx'[j].kind = "SEND_OK") <=> \E j \in Pos : rx[j].kind = "SEND_OK"
    BY <1>9, <1>13
  <2>2. Counted(o)'
    BY <1>1, <1>2, <2>1, CountedSame DEF Fine
  <2>3. Ended(o)'
    BY <1>2, <1>10 DEF Ended
  <2> QED
    BY <2>2, <2>3
<1>17. Received(o)'
  BY <1>2, <1>3, <1>6, <1>7, <1>8, <1>10, DataComes DEF Fine
<1>18. Works' /\ Awaited'
  BY <1>1, <1>6, <1>7, <1>8, ReportComes
<1>19. Fine(o)'
  BY <1>12, <1>14, <1>15, <1>16, <1>17 DEF Fine
<1> QED
  BY <1>1, <1>2, <1>8, <1>9, <1>18, <1>19, WorldQuiet

-----------------------------------------------------------------------------
LEMMA InitQuiet == Init => Quiet
<1> SUFFICES ASSUME Init PROVE Quiet
  OBVIOUS
<1>1. radio.op = "idle" /\ Pos = {} /\ rx = <<>>
  BY DEF Init, Idle, Command, Pos
<1>2. \A i \in Ids : Clean(i)
  BY <1>1 DEF Init, Clean, Silent
<1>3. \A h \in Handles : ~Used(h)
  BY DEF Init, Used, NoSocket
<1>4. Later
  BY DEF Init, Later
<1> QED
  BY <1>1, <1>2, <1>3, <1>4 DEF Quiet, Works, Awaited

LEMMA QuietSame ==
  ASSUME Quiet,
         UNCHANGED <<ids, idBits, idBitsClose, packets, smutex, sock, line, world>>
  PROVE  Quiet'
<1> QED
  BY DEF Quiet, line, world, Works, Awaited, Later, Clean, Used, Fine, Ours, InOrder,
     Joining, Counted, Received, Ended, Kept, Data, About, Pos, Silent, Reported

(* Calls only give up in time as long as none has been late. *)
LEMMA LateKept ==
  ASSUME IInv, [Next]_vars, late' = 0
  PROVE  late = 0
<1>1. late \in Nat
  BY BoundAssumption DEF IInv, RestOK
<1>2. late' = late \/ late' = late + 1
  <2>1. ASSUME NEW h \in Handles,
               ReadLine(h) \/ FindId(h) \/ SocketOpen(h) \/ Connect(h) \/ ConnectDone(h)
                 \/ Send(h) \/ Prompted(h) \/ SendDone(h) \/ Receives(h)
        PROVE  late' = late
    BY <2>1
    DEF ReadLine, FindId, SocketOpen, Connect, ConnectDone, Send, Prompted, SendDone,
        Receives, Recv, TakePacket, TakePart, RecvSome, RecvNone
  <2>2. ASSUME NEW h \in Handles,
               CloseGone(h) \/ CloseTry(h) \/ CloseDone(h) \/ CloseGivesUp(h)
        PROVE  late' = late
    BY <2>2 DEF CloseGone, CloseTry, CloseDone, CloseGivesUp
  <2>3. ASSUME NEW h \in Handles,
               ReadBadly(h) \/ ConnectFails(h) \/ SendFails(h) \/ CloseFails(h)
        PROVE  late' = late \/ late' = late + 1
    BY <2>3 DEF ReadBadly, ConnectFails, SendFails, CloseFails, GivesUp
  <2>4. CASE Radio
    BY <2>4 DEF Radio, RadioConnects, RadioCloses, RadioPrompts, RadioSends, RadioRefuses,
       PeerSends, PeerCloses
  <2>5. CASE UNCHANGED vars
    BY <2>5 DEF vars
  <2> QED
    BY <2>1, <2>2, <2>3, <2>4, <2>5 DEF Next, Opens, Sending, Closes
<1> QED
  BY <1>1, <1>2

LEMMA InSyncNext == OneOpener /\ IInv /\ Shared /\ InSync /\ [Next]_vars => InSync'
<1> SUFFICES ASSUME OneOpener, IInv, Shared, InSync, [Next]_vars, late' = 0 PROVE Quiet'
  BY DEF InSync
<1>1. late = 0 /\ Synced
  BY LateKept DEF InSync, Synced
<1>8. ASSUME NEW h \in Handles, FindId(h) PROVE Quiet'
  BY <1>1, <1>8, QuietSame DEF FindId, Synced
<1>9. ASSUME NEW h \in Handles, ReadBadly(h) PROVE Quiet'
  <2>1. late' = 1
    BY <1>1, <1>9 DEF ReadBadly
  <2> QED
    BY <2>1
<1>2. ASSUME NEW h \in Handles, ReadLine(h) \/ Opens(h) PROVE Quiet'
  BY <1>1, <1>2, <1>8, ReadQuiet, OpenQuiet, ConnectQuiet, ConnectDoneQuiet, ConnectFailsQuiet DEF Opens
<1>3. ASSUME NEW h \in Handles, Sending(h) PROVE Quiet'
  BY <1>1, <1>3, SendQuiet, PromptedQuiet, SendDoneQuiet, SendFailsQuiet DEF Sending
<1>4. ASSUME NEW h \in Handles, Receives(h) PROVE Quiet'
  BY <1>1, <1>4, RecvQuiet, TakeQuiet, RecvNoneQuiet DEF Receives
<1>5. ASSUME NEW h \in Handles, Closes(h) PROVE Quiet'
  BY <1>1, <1>5, CloseGoneQuiet, CloseTryQuiet, CloseDoneQuiet, CloseFailsQuiet, CloseGivesUpQuiet
  DEF Closes
<1>6. CASE Radio
  BY <1>1, <1>6, RadioConnectsQuiet, RadioClosesQuiet, RadioPromptsQuiet, RadioSendsQuiet,
     RadioRefusesQuiet, PeerSendsQuiet, PeerClosesQuiet DEF Radio
<1>7. CASE UNCHANGED vars
  BY <1>1, <1>7, QuietSame DEF Synced, vars, driver
<1> QED
  BY <1>2, <1>3, <1>4, <1>5, <1>6, <1>7, <1>9 DEF Next

LEMMA InSyncAlways == OneOpener => (Spec => [](IInv /\ Shared /\ InSync))
<1> SUFFICES ASSUME OneOpener PROVE Spec => [](IInv /\ Shared /\ InSync)
  OBVIOUS
<1>1. Init => IInv /\ Shared /\ InSync
  BY InitOne, SharedInit, InitQuiet DEF InSync
<1>2. IInv /\ Shared /\ InSync /\ [Next]_vars => (IInv /\ Shared /\ InSync)'
  BY Inductive, SharedNext, InSyncNext
<1> QED
  BY <1>1, <1>2, PTL DEF Spec

(* What a socket that has its connection is. *)
LEMMA Connected ==
  ASSUME Synced, NEW h \in Handles, sock[h].link # NoLink
  PROVE  Used(h) /\ Fine(h) /\ sock[h].link = sock[h].asked
<1>1. Asked(h)
  BY DEF Synced, Shared
<1>2. sock[h].at # "none" /\ sock[h].link = sock[h].asked
  BY <1>1 DEF Asked
<1> QED
  BY <1>2, UsedFacts DEF Used

(* As long as no call of the driver gives up on the radio too early, open  *)
(* returns true only for the connection it asked for, and socket_handler   *)
(* keeps the socket open until the end of just this connection is on the   *)
(* line: no report about an earlier user of the id comes in between.       *)
THEOREM OwnConnectionAlways == OneOpener => (Spec => []OwnConnection)
<1> SUFFICES ASSUME OneOpener PROVE Spec => []OwnConnection
  OBVIOUS
<1>1. IInv /\ Shared /\ InSync => OwnConnection
  <2> SUFFICES ASSUME Synced, NEW h \in Handles, sock[h].link # NoLink
               PROVE  LET i == sock[h].id IN
                      \/ conn[i] = sock[h].link /\ ~Gone(i)
                      \/ conn[i] = NoLink /\ (Reported(i) \/ i \in idBitsClose)
    BY DEF OwnConnection, InSync, Synced
  <2>1. Fine(h) /\ sock[h].link = sock[h].asked /\ Asked(h)
    BY Connected DEF Synced, Shared
  <2> QED
    BY <2>1 DEF Fine, Ours, Gone, Asked
<1> QED
  BY <1>1, InSyncAlways, PTL

(* As long as no call gives up too early, an id that ESP32::close gave     *)
(* back has no connection on the radio, no bit, no packet and no line on   *)
(* the stream left, so that the next socket_open starts with nothing.      *)
THEOREM GivenBackCleanAlways == OneOpener => (Spec => []GivenBackClean)
<1> SUFFICES ASSUME OneOpener PROVE Spec => []GivenBackClean
  OBVIOUS
<1>1. IInv /\ Shared /\ InSync => GivenBackClean
  BY DEF GivenBackClean, InSync, Quiet, Clean, Silent, Pos
<1> QED
  BY <1>1, InSyncAlways, PTL

(* As long as no call gives up too early, the bytes received on a socket,  *)
(* those in _packets and those on the line are what the peer sent on its   *)
(* connection: none is lost, repeated, out of order or of another one.     *)
THEOREM DataWhole == OneOpener => (Spec => []Whole)
<1> SUFFICES ASSUME OneOpener PROVE Spec => []Whole
  OBVIOUS
<1>1. IInv /\ Shared /\ InSync => Whole
  <2> SUFFICES ASSUME Synced, NEW h \in Handles PROVE Received(h)
    BY DEF Whole, InSync, Synced
  <2>1. CASE sock[h].asked = NoLink
    BY <2>1 DEF Received
  <2>2. CASE sock[h].asked # NoLink
    <3>1. Used(h)
      BY <2>2 DEF Synced, Shared, Asked, Used
    <3> QED
      BY <3>1, UsedFacts DEF Fine
  <2> QED
    BY <2>1, <2>2
<1> QED
  BY <1>1, InSyncAlways, PTL

(* As long as no call gives up too early, every chunk ESP32::send counts   *)
(* as sent has reached the peer, no second try sends what the first one    *)
(* has sent, and what the peer has got when the call returns was counted.  *)
THEOREM SentOnceAlways == OneOpener => (Spec => []SentOnce)
<1> SUFFICES ASSUME OneOpener PROVE Spec => []SentOnce
  OBVIOUS
<1>1. IInv /\ Shared /\ InSync => SentOnce
  <2> SUFFICES ASSUME Synced, NEW h \in Handles, sock[h].link # NoLink
               PROVE  LET l == sock[h].link IN
                      /\ sock[h].acked <= heard[l] /\ heard[l] <= said[l]
                      /\ At(h, "rest") => sock[h].acked = heard[l]
    BY DEF SentOnce, InSync, Synced
  <2>1. Counted(h) /\ sock[h].link = sock[h].asked /\ sock[h].acked \in Nat
    BY Connected, UsedFacts DEF Fine, Sockets
  <2> QED
    BY <2>1 DEF Counted, At
<1> QED
  BY <1>1, InSyncAlways, PTL

(* As long as no call gives up too early, ESP32::recv tells the end (-2)   *)
(* only when every byte the peer had sent was received.                    *)
THEOREM EndIsEndAlways == OneOpener => (Spec => []EndIsEnd)
<1> SUFFICES ASSUME OneOpener PROVE Spec => []EndIsEnd
  OBVIOUS
<1>1. IInv /\ Shared /\ InSync => EndIsEnd
  <2> SUFFICES ASSUME Synced, NEW h \in Handles, sock[h].ended
               PROVE  Len(sock[h].got) = sent[sock[h].link]
    BY DEF EndIsEnd, InSync, Synced
  <2>1. sock[h].link # NoLink
    BY DEF Synced, Shared, Asked
  <2>2. Fine(h) /\ sock[h].link = sock[h].asked /\ Used(h)
    BY <2>1, Connected
  <2>3. sock[h].id \notin idBits /\ packets[sock[h].id] = <<>>
    BY <2>2 DEF Fine, Ended
  <2>4. sock[h].at # "connecting"
    BY <2>1 DEF Synced, Shared, Asked
  <2>5. \A j \in Pos : rx[j].id # sock[h].id
    BY <2>2, <2>3, <2>4 DEF Fine, InOrder
  <2>6. Data(sock[h].id) = {}
    BY <2>5 DEF Data, About
  <2>7. Kept(h) = Len(sock[h].got)
    BY <2>3 DEF Kept
  <2>8. sent[sock[h].link] \in Nat /\ Len(sock[h].got) \in Nat
    <3>1. sock[h] \in Sockets
      BY <2>2, UsedFacts
    <3>2. sock[h].link \in Links /\ sock[h].got \in Seq(Bytes)
      BY <2>1, <3>1 DEF Sockets
    <3> QED
      BY <3>2 DEF Synced, IInv, RestOK
  <2>9. Len(sock[h].got) <= sent[sock[h].link]
    BY <2>1, <2>2, <2>7 DEF Fine, Received
  <2>10. ~(Len(sock[h].got) < sent[sock[h].link])
    <3> SUFFICES ASSUME Len(sock[h].got) < sent[sock[h].link] PROVE FALSE
      OBVIOUS
    <3> DEFINE n == Len(sock[h].got)
               s == sent[sock[h].link]
    <3>1. n \in n .. s - 1
      BY <2>8
    <3>2. \A x \in n .. s - 1 : \E j \in Data(sock[h].id) : rx[j].from <= x /\ x < rx[j].to
      BY <2>1, <2>2, <2>7 DEF Fine, Received
    <3> QED
      BY <2>6, <3>1, <3>2
  <2> QED
    BY <2>8, <2>9, <2>10
<1> QED
  BY <1>1, InSyncAlways, PTL
=============================================================================

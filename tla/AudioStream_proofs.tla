-------------------------- MODULE AudioStream_proofs --------------------------
(***************************************************************************)
(* The output ring is never overwritten and no recorded buffer is left     *)
(* behind, for every number of buffers.                                    *)
(***************************************************************************)
EXTENDS AudioStream, FiniteSetTheorems, SequenceTheorems, TLAPS

(* The slot k places before slot i, for k below the size of the ring. *)
Back(i, k) == IF k <= i THEN i - k ELSE i + OutBufs - k

(* Where the run of queued slots ends. *)
End == IF pc = "advance" THEN Inc(widx) ELSE widx

(* The queue is the run of slots that ends before End, ... *)
Ring == \A i \in 1 .. Len(outq) : outq[i] = Back(End, Len(outq) - i + 1)

(* ... and the tokens keep it one shorter than the ring. *)
Tokens == outTok + Len(outq) + (IF pc = "submit" THEN 1 ELSE 0) = OutBufs - 1

Filling == pc \in {"fill", "token", "submit", "advance"}

Opened == Filling => file \in 0 .. FileBlocks

InHand == /\ pc \in {"popping", "read"} => hand \in InBufs
          /\ pc = "popping" => mails # <<>>

(* A filled buffer has its signal raised, or in hand, or remembered for    *)
(* this turn; what signal_clr erases has been remembered before.           *)
Signalled ==
    mails # <<>> =>
        \/ "RecAudio" \in flags
        \/ pc = "event" /\ "RecAudio" \in evt
        \/ recSignal /\ pc \notin {"wait", "event"}

Noted == Filling \/ pc = "clr" => ("RecAudio" \in evt => recSignal)

IInv ==
    /\ TypeOK /\ Ring /\ Tokens /\ Opened /\ InHand /\ Signalled /\ Noted

-----------------------------------------------------------------------------
LEMMA IncType == \A i \in Slots : Inc(i) \in Slots /\ Dec(i) \in Slots
  BY OutBufsAssumption DEF Inc, Dec, Slots

(* One step further, every slot is one more place behind. *)
LEMMA BackInc ==
  ASSUME NEW i \in Slots, NEW k \in 1 .. OutBufs - 2
  PROVE  Back(Inc(i), k + 1) = Back(i, k)
  BY OutBufsAssumption DEF Back, Inc, Slots

LEMMA BackOne == \A i \in Slots : Back(Inc(i), 1) = i
  BY OutBufsAssumption DEF Back, Inc, Slots

(* A run shorter than the ring does not come round to its own end. *)
LEMMA BackOther == \A i \in Slots : \A k \in 1 .. OutBufs - 1 : Back(i, k) # i
  BY OutBufsAssumption DEF Back, Slots

-----------------------------------------------------------------------------
LEMMA InitInv == Init => IInv
<1> SUFFICES ASSUME Init PROVE IInv
  OBVIOUS
<1>1. inq \in Seq(InBufs)
  <2>1. Cardinality(InBufs) \in Nat
    BY FS_CardinalityType, InBufsAssumption
  <2>2. inq \in [1 .. Cardinality(InBufs) -> InBufs]
    BY DEF Init, SetToSeqs
  <2> QED
    BY <2>1, <2>2, SeqDef
<1>2. 0 \in Slots /\ WriteTokens \in Nat
  BY OutBufsAssumption DEF Slots, WriteTokens
<1>3. TypeOK
  <2>1. <<>> \in Seq(InBufs) /\ <<>> \in Seq(Slots)
    BY EmptySeq
  <2>2. {0, 0, 0} \subseteq Slots
    BY <1>2
  <2> QED
    BY <1>1, <1>2, <2>1, <2>2 DEF Init, TypeOK, Sigs
<1> QED
  BY <1>3, OutBufsAssumption DEF Init, IInv, Ring, Tokens, WriteTokens, Opened, Filling,
     InHand, Signalled, Noted

-----------------------------------------------------------------------------
LEMMA TypeStep == IInv /\ [Next]_vars => TypeOK'
<1> SUFFICES ASSUME IInv, [Next]_vars PROVE TypeOK'
  OBVIOUS
<1> USE IncType DEF IInv, TypeOK, Sigs, input, output
<1>1. CASE ReadEnd
  <2>1. inq' \in Seq(InBufs) /\ Head(inq) \in InBufs
    BY <1>1, HeadTailProperties DEF ReadEnd
  <2>2. mails' \in Seq(InBufs)
    <3>1. mails' = mails \/ mails' = Append(mails, Head(inq))
      BY <1>1 DEF ReadEnd
    <3>2. mails \in Seq(InBufs) /\ Append(mails, Head(inq)) \in Seq(InBufs)
      BY <2>1, AppendProperties
    <3> QED
      BY <3>1, <3>2
  <2>3. inTok' \in Nat /\ flags' \subseteq Sigs
    BY <1>1 DEF ReadEnd, Raise
  <2> QED
    BY <1>1, <2>1, <2>2, <2>3 DEF ReadEnd
<1>2. CASE WriteEnd
  <2>1. outq' \in Seq(Slots)
    BY <1>2, HeadTailProperties DEF WriteEnd
  <2>2. ridx \in Slots /\ Inc(ridx) \in Slots
    OBVIOUS
  <2>3. ridx' \in {ridx, Inc(ridx)} /\ flags' \subseteq Sigs
    BY <1>2 DEF WriteEnd, Raise
  <2>4. outTok' \in Nat
    BY <1>2 DEF WriteEnd
  <2> QED
    BY <1>2, <2>1, <2>2, <2>3, <2>4 DEF WriteEnd
<1>3. CASE TriggerOn
  BY <1>3 DEF TriggerOn, Raise
<1>4. CASE Wake
  BY <1>4 DEF Wake
<1>5. CASE Event
  <2>1. file' \in 0 .. FileBlocks \cup {Closed}
    BY <1>5, FileBlocksAssumption DEF Event, Open
  <2>2. recSignal' \in BOOLEAN /\ stop' \in Slots /\ pc' \in {"fill", "clr"}
    BY <1>5 DEF Event, Open
  <2> QED
    BY <1>5, <2>1, <2>2 DEF Event
<1>6. CASE Fill
  <2>1. file' \in 0 .. FileBlocks \cup {Closed}
    BY <1>6, FileBlocksAssumption DEF Fill, Opened, Filling
  <2> QED
    BY <1>6, <2>1 DEF Fill
<1>7. CASE TakeToken
  BY <1>7 DEF TakeToken
<1>8. CASE Submit
  BY <1>8 DEF Submit
<1>9. CASE Advance
  BY <1>9 DEF Advance
<1>10. CASE SignalClr
  BY <1>10 DEF SignalClr
<1>11. CASE TakeFront
  BY <1>11 DEF TakeFront
<1>12. CASE PopFront
  BY <1>12 DEF PopFront, InHand
<1>13. CASE Read
  BY <1>13 DEF Read, InHand
<1>14. CASE Again
  BY <1>14 DEF Again, Raise
<1>15. CASE UNCHANGED vars
  BY <1>15 DEF vars
<1> QED
  BY <1>1, <1>2, <1>3, <1>4, <1>5, <1>6, <1>7, <1>8, <1>9, <1>10, <1>11, <1>12, <1>13,
     <1>14, <1>15 DEF Next, Turn

-----------------------------------------------------------------------------
(* The output side: only WriteEnd, Submit and Advance move the run. *)
LEMMA RingStep == IInv /\ [Next]_vars => Ring' /\ Tokens'
<1> SUFFICES ASSUME IInv, [Next]_vars PROVE Ring' /\ Tokens'
  OBVIOUS
<1>0. outq \in Seq(Slots) /\ outTok \in Nat /\ widx \in Slots /\ Len(outq) \in Nat
  BY DEF IInv, TypeOK
<1>1. CASE WriteEnd
  <2>1. outq' = Tail(outq) /\ outq # <<>> /\ outTok' = outTok + 1 /\ End' = End
    BY <1>1 DEF WriteEnd, input, End, Inc
  <2>2. Len(outq') = Len(outq) - 1 /\ \A i \in 1 .. Len(outq') : outq'[i] = outq[i + 1]
    BY <1>0, <2>1, HeadTailProperties
  <2>3. Ring'
    <3> SUFFICES ASSUME NEW i \in 1 .. Len(outq')
                 PROVE  outq'[i] = Back(End, Len(outq') - i + 1)
      BY <2>1 DEF Ring, Back
    <3>1. i + 1 \in 1 .. Len(outq) /\ Len(outq) - (i + 1) + 1 = Len(outq') - i + 1
      BY <1>0, <2>2
    <3> QED
      BY <2>2, <3>1 DEF IInv, Ring
  <2>4. Tokens'
    BY <1>0, <1>1, <2>1, <2>2, OutBufsAssumption DEF IInv, Tokens, WriteEnd
  <2> QED
    BY <2>3, <2>4
<1>2. CASE TakeToken
  <2>1. UNCHANGED <<outq, widx>> /\ outTok' = outTok - 1 /\ outTok > 0 /\ End' = End
    BY <1>2 DEF TakeToken, End, Inc
  <2> QED
    BY <1>0, <1>2, <2>1, OutBufsAssumption DEF TakeToken, IInv, Ring, Tokens, Back
<1>3. CASE Submit
  <2>1. /\ outq' = Append(outq, widx) /\ UNCHANGED <<outTok, widx>>
        /\ End = widx /\ End' = Inc(widx)
    BY <1>3 DEF Submit, End, Inc
  <2>2. Len(outq') = Len(outq) + 1 /\ Len(outq) <= OutBufs - 2
    BY <1>0, <1>3, <2>1, OutBufsAssumption DEF IInv, Tokens, Submit
  <2>3. Ring'
    <3> SUFFICES ASSUME NEW i \in 1 .. Len(outq')
                 PROVE  outq'[i] = Back(Inc(widx), Len(outq') - i + 1)
      BY <2>1 DEF Ring, Back
    <3>1. CASE i = Len(outq')
      <4>1. outq'[i] = widx /\ Len(outq') - i + 1 = 1
        BY <1>0, <2>1, <2>2, <3>1
      <4> QED
        BY <1>0, <4>1, BackOne
    <3>2. CASE i # Len(outq')
      <4>1. i \in 1 .. Len(outq) /\ outq'[i] = outq[i]
        BY <1>0, <2>1, <2>2, <3>2
      <4>2. PICK k \in 1 .. OutBufs - 2 : k = Len(outq) - i + 1
        BY <1>0, <2>2, <4>1, OutBufsAssumption
      <4>3. outq[i] = Back(widx, k) /\ Len(outq') - i + 1 = k + 1
        BY <1>0, <2>1, <2>2, <4>1, <4>2 DEF IInv, Ring
      <4> QED
        BY <1>0, <4>1, <4>3, BackInc
    <3> QED
      BY <3>1, <3>2
  <2>4. Tokens'
    BY <1>0, <1>3, <2>1, <2>2, OutBufsAssumption DEF IInv, Tokens, Submit
  <2> QED
    BY <2>3, <2>4
<1>4. CASE Advance
  <2>1. UNCHANGED <<outq, outTok>> /\ End' = End /\ pc = "advance" /\ pc' \in {"fill", "clr"}
    BY <1>4 DEF Advance, End
  <2> QED
    BY <1>0, <2>1 DEF IInv, Ring, Tokens, Back
<1>5. CASE ~WriteEnd /\ ~TakeToken /\ ~Submit /\ ~Advance
  <2>1. UNCHANGED output /\ (pc' = "submit" <=> pc = "submit")
          /\ (pc' = "advance" <=> pc = "advance")
    BY <1>5 DEF Next, Turn, ReadEnd, TriggerOn, Wake, Event, Open, Fill, SignalClr,
       TakeFront, PopFront, Read, Again, vars, output
  <2> QED
    BY <2>1 DEF IInv, Ring, Tokens, output, End, Inc, Back
<1> QED
  BY <1>1, <1>2, <1>3, <1>4, <1>5

-----------------------------------------------------------------------------
(* The input side and the signals. *)
LEMMA InputStep == IInv /\ [Next]_vars => Opened' /\ InHand' /\ Signalled' /\ Noted'
<1> SUFFICES ASSUME IInv, [Next]_vars
             PROVE  Opened' /\ InHand' /\ Signalled' /\ Noted'
  OBVIOUS
<1> USE DEF IInv, Opened, Filling, InHand, Signalled, Noted, input, output
<1>0. mails \in Seq(InBufs) /\ recSignal \in BOOLEAN
  BY DEF TypeOK
<1>1. CASE ReadEnd
  <2>1. mails' # <<>> \/ (mails' = mails /\ pc # "popping")
    BY <1>0, <1>1 DEF ReadEnd
  <2> QED
    BY <1>1, <2>1 DEF ReadEnd, Raise
<1>2. CASE WriteEnd
  BY <1>2 DEF WriteEnd, Raise
<1>3. CASE TriggerOn
  BY <1>3 DEF TriggerOn, Raise
<1>4. CASE Wake
  BY <1>4 DEF Wake
<1>5. CASE Event
  <2>1. Opened'
    BY <1>5, FileBlocksAssumption DEF Event, Open, TypeOK
  <2>2. Signalled' /\ Noted' /\ InHand'
    BY <1>0, <1>5 DEF Event, Open
  <2> QED
    BY <2>1, <2>2
<1>6. CASE Fill
  <2>1. Opened'
    BY <1>6, FileBlocksAssumption DEF Fill
  <2>2. Signalled' /\ Noted' /\ InHand'
    BY <1>6 DEF Fill
  <2> QED
    BY <2>1, <2>2
<1>7. CASE TakeToken
  BY <1>7 DEF TakeToken
<1>8. CASE Submit
  BY <1>8 DEF Submit
<1>9. CASE Advance
  BY <1>9 DEF Advance
<1>10. CASE SignalClr
  BY <1>10 DEF SignalClr
<1>11. CASE TakeFront
  BY <1>0, <1>11 DEF TakeFront
<1>12. CASE PopFront
  BY <1>12 DEF PopFront
<1>13. CASE Read
  BY <1>13 DEF Read
<1>14. CASE Again
  BY <1>14 DEF Again, Raise
<1>15. CASE UNCHANGED vars
  BY <1>15 DEF vars
<1> QED
  BY <1>1, <1>2, <1>3, <1>4, <1>5, <1>6, <1>7, <1>8, <1>9, <1>10, <1>11, <1>12, <1>13,
     <1>14, <1>15 DEF Next, Turn

(* The invariant is inductive. *)
THEOREM Inductive == Spec => []IInv
<1>1. IInv /\ [Next]_vars => IInv'
  BY TypeStep, RingStep, InputStep DEF IInv
<1> QED
  BY InitInv, <1>1, PTL DEF Spec

-----------------------------------------------------------------------------
(* fread never overwrites a slot that waits to be played (the fill loop of *)
(* AudioTask::ProcessEvent), for every size of the ring.                   *)
THEOREM SlotsFree == Spec => []SlotFree
<1>1. IInv => SlotFree
  <2> SUFFICES ASSUME IInv, pc \in {"token", "submit"}, widx \in ToSet(outq) PROVE FALSE
    BY DEF SlotFree
  <2>1. PICK i \in 1 .. Len(outq) : outq[i] = widx
    BY DEF ToSet
  <2>2. Len(outq) \in Nat /\ Len(outq) <= OutBufs - 1
    BY OutBufsAssumption DEF IInv, TypeOK, Tokens
  <2>3. PICK k \in 1 .. OutBufs - 1 : k = Len(outq) - i + 1
    BY <2>2, OutBufsAssumption
  <2>4. widx \in Slots /\ widx = Back(widx, k)
    BY <2>1, <2>3 DEF IInv, TypeOK, Ring, End
  <2> QED
    BY <2>4, BackOther
<1> QED
  BY Inductive, <1>1, PTL

(* The loop never sleeps on a filled buffer (AudioReadEnd, signal_clr and  *)
(* AudioTask::Process).                                                    *)
THEOREM NoneStranded == Spec => []NotStranded
<1>1. IInv => NotStranded
  BY DEF IInv, Signalled, NotStranded
<1> QED
  BY Inductive, <1>1, PTL

(* Types, and with them that no index ever leaves the ring. *)
THEOREM TypeCorrect == Spec => []TypeOK
<1>1. IInv => TypeOK
  BY DEF IInv
<1> QED
  BY Inductive, <1>1, PTL

LEMMA IncBack ==
  ASSUME NEW i \in Slots, NEW k \in 1 .. OutBufs - 1
  PROVE  Inc(Back(i, k)) = IF k = 1 THEN i ELSE Back(i, k - 1)
  BY OutBufsAssumption DEF Back, Inc, Slots

(* The driver plays the slots in the order of the ring, without a gap      *)
(* (AudioTask::ProcessEvent, R_BSP_Aio::aio_trans).                        *)
THEOREM InOrder == Spec => []PlaysInOrder
<1>1. IInv => PlaysInOrder
  <2> SUFFICES ASSUME IInv, NEW i \in 1 .. Len(outq)
               PROVE  Inc(outq[i]) = IF i = Len(outq) THEN End ELSE outq[i + 1]
    BY DEF PlaysInOrder, End
  <2>1. Len(outq) \in Nat /\ Len(outq) <= OutBufs - 1 /\ End \in Slots
    BY OutBufsAssumption, IncType DEF IInv, TypeOK, Tokens, End
  <2> DEFINE k == Len(outq) - i + 1
  <2>2. k \in 1 .. OutBufs - 1 /\ (k = 1 <=> i = Len(outq))
    BY <2>1, OutBufsAssumption
  <2>3. outq[i] = Back(End, k)
    BY DEF IInv, Ring
  <2>4. i # Len(outq) => outq[i + 1] = Back(End, k - 1)
    BY <2>1 DEF IInv, Ring
  <2> HIDE DEF k
  <2> QED
    BY <2>1, <2>2, <2>3, <2>4, IncBack
<1> QED
  BY Inductive, <1>1, PTL

(* For every filled buffer, and for the one in the thread's hand, the      *)
(* semaphore of the driver has a token.                                    *)
InTokens == Len(mails) + (IF pc = "read" THEN 1 ELSE 0) <= inTok

LEMMA TokenStep == IInv /\ InTokens /\ [Next]_vars => InTokens'
<1> SUFFICES ASSUME IInv, InTokens, [Next]_vars PROVE InTokens'
  OBVIOUS
<1>0. mails \in Seq(InBufs) /\ inTok \in Nat /\ Len(mails) \in Nat
  BY DEF IInv, TypeOK
<1> USE DEF InTokens, input, output
<1>1. CASE ReadEnd
  <2>1. inq \in Seq(InBufs) /\ inq # <<>>
    BY <1>1 DEF IInv, TypeOK, ReadEnd
  <2>2. Head(inq) \in InBufs
    BY <2>1
  <2>3. Len(Append(mails, Head(inq))) = Len(mails) + 1
    BY <1>0, <2>2
  <2> QED
    BY <1>0, <1>1, <2>3 DEF ReadEnd
<1>2. CASE WriteEnd
  BY <1>2 DEF WriteEnd
<1>3. CASE TriggerOn
  BY <1>3 DEF TriggerOn
<1>4. CASE Wake
  BY <1>0, <1>4 DEF Wake
<1>5. CASE Event
  BY <1>0, <1>5 DEF Event, Open
<1>6. CASE Fill \/ TakeToken \/ Submit \/ Advance
  BY <1>0, <1>6 DEF Fill, TakeToken, Submit, Advance
<1>7. CASE SignalClr
  BY <1>0, <1>7 DEF SignalClr
<1>8. CASE TakeFront
  BY <1>0, <1>8 DEF TakeFront
<1>9. CASE PopFront
  <2>1. mails # <<>> /\ mails' = Tail(mails) /\ pc = "popping" /\ pc' = "read" /\ inTok' = inTok
    BY <1>9 DEF PopFront, IInv, InHand
  <2>2. Len(Tail(mails)) = Len(mails) - 1
    BY <1>0, <2>1
  <2> QED
    BY <1>0, <2>1, <2>2
<1>10. CASE Read
  BY <1>0, <1>10 DEF Read
<1>11. CASE Again
  BY <1>0, <1>11 DEF Again
<1>12. CASE UNCHANGED vars
  BY <1>12 DEF vars
<1> QED
  BY <1>1, <1>2, <1>3, <1>4, <1>5, <1>6, <1>7, <1>8, <1>9, <1>10, <1>11, <1>12 DEF Next, Turn

(* Giving a buffer back never waits for a token, even if the race on the   *)
(* list lost another buffer (AudioTask::Process, R_BSP_Aio::aio_trans).    *)
THEOREM TokenThere == Spec => []ReadHasToken
<1>1. Init => InTokens
  BY DEF Init, InTokens
<1>2. IInv /\ InTokens /\ [Next]_vars => InTokens'
  BY TokenStep
<1>3. IInv /\ InTokens => ReadHasToken
  <2> SUFFICES ASSUME IInv, InTokens, pc = "read" PROVE inTok > 0
    BY DEF ReadHasToken
  <2>1. Len(mails) \in Nat /\ inTok \in Nat
    BY DEF IInv, TypeOK
  <2> QED
    BY <2>1 DEF InTokens
<1> QED
  BY Inductive, <1>1, <1>2, <1>3, PTL DEF Spec

=============================================================================

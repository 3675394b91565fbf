------------------------- MODULE MessageQueue_proofs -------------------------
(***************************************************************************)
(* Proofs about MessageQueue for every set of threads, bodies, priorities   *)
(* and blocks.                                                             *)
(***************************************************************************)
EXTENDS MessageQueue, SequenceTheorems, FiniteSetTheorems, TLAPS

(* Who is listed in a queue of waiting threads waits there; none waits to   *)
(* send.                                                                   *)
WaitersWait ==
    /\ \A t \in Range(poolWait) : pc[t] = "waitBlock"
    /\ \A t \in Range(recvWait) : pc[t] = "waitRecv"
    /\ sendWait = <<>>

(* A deleted object has nothing in it, and the data queue goes first. *)
DeletedEmpty ==
    /\ ~dtqOpen => data = <<>> /\ recvWait = <<>>
    /\ ~poolOpen => ~dtqOpen /\ poolWait = <<>>

IInv ==
    /\ TypeOK /\ WaitersWait /\ DeletedEmpty
    /\ BlocksConserved /\ NeverWaitsToSend /\ NoIdleWaiter

-----------------------------------------------------------------------------
(* Sequences without repetition: taking the first element, appending a new  *)
(* one, removing one.                                                      *)
LEMMA TailFacts ==
    ASSUME NEW S, NEW s \in Seq(S), s # <<>>, IsInjective(s)
    PROVE  /\ Head(s) \in S /\ Head(s) \in Range(s) /\ Tail(s) \in Seq(S)
           /\ IsInjective(Tail(s))
           /\ Range(Tail(s)) = Range(s) \ {Head(s)}
<1>1. /\ Len(s) \in Nat /\ Len(s) > 0 /\ DOMAIN s = 1 .. Len(s)
      /\ Head(s) = s[1] /\ Tail(s) \in Seq(S) /\ Len(Tail(s)) = Len(s) - 1
      /\ \A i \in 1 .. Len(s) - 1 : Tail(s)[i] = s[i + 1]
    OBVIOUS
<1>2. DOMAIN Tail(s) = 1 .. Len(s) - 1
    BY <1>1
<1>3. s[1] \in S
    BY <1>1
<1>4. IsInjective(Tail(s))
    BY <1>1, <1>2 DEF IsInjective
<1>5. ASSUME NEW x \in Range(Tail(s)) PROVE x \in Range(s) \ {Head(s)}
    <2>1. PICK i \in 1 .. Len(s) - 1 : x = s[i + 1]
        BY <1>1, <1>2 DEF Range
    <2>2. i + 1 \in 1 .. Len(s) /\ 1 \in 1 .. Len(s) /\ i + 1 # 1
        BY <1>1
    <2>3. QED BY <1>1, <2>1, <2>2 DEF Range, IsInjective
<1>6. ASSUME NEW x \in Range(s) \ {Head(s)} PROVE x \in Range(Tail(s))
    <2>1. PICK i \in 1 .. Len(s) : x = s[i]
        BY <1>1 DEF Range
    <2>2. i # 1
        BY <1>1, <1>6, <2>1
    <2>3. i - 1 \in 1 .. Len(s) - 1 /\ Tail(s)[i - 1] = x
        BY <1>1, <2>1, <2>2
    <2>4. QED BY <1>2, <2>3 DEF Range
<1>7. Head(s) \in Range(s)
    BY <1>1 DEF Range
<1>8. QED BY <1>1, <1>3, <1>4, <1>5, <1>6, <1>7

LEMMA AppendFacts ==
    ASSUME NEW S, NEW s \in Seq(S), NEW e \in S
    PROVE  /\ Append(s, e) \in Seq(S)
           /\ Range(Append(s, e)) = Range(s) \cup {e}
           /\ IsInjective(s) /\ e \notin Range(s) => IsInjective(Append(s, e))
<1>1. /\ Len(s) \in Nat /\ DOMAIN s = 1 .. Len(s)
      /\ Append(s, e) \in Seq(S) /\ DOMAIN Append(s, e) = 1 .. Len(s) + 1
      /\ \A i \in 1 .. Len(s) : Append(s, e)[i] = s[i]
      /\ Append(s, e)[Len(s) + 1] = e
    OBVIOUS
<1>2. \A i \in 1 .. Len(s) + 1 : i \in 1 .. Len(s) \/ i = Len(s) + 1
    BY <1>1
<1>3. 1 .. Len(s) \subseteq 1 .. Len(s) + 1 /\ Len(s) + 1 \in 1 .. Len(s) + 1
    BY <1>1
<1>4. Range(Append(s, e)) = Range(s) \cup {e}
    BY <1>1, <1>2, <1>3 DEF Range
<1>5. ASSUME IsInjective(s), e \notin Range(s) PROVE IsInjective(Append(s, e))
    BY <1>1, <1>2, <1>5 DEF Range, IsInjective
<1>6. QED BY <1>1, <1>4, <1>5

LEMMA RemoveAtFacts ==
    ASSUME NEW S, NEW q \in Seq(S), NEW k \in 1 .. Len(q)
    PROVE  /\ RemoveAt(q, k) \in Seq(S) /\ Len(RemoveAt(q, k)) = Len(q) - 1
           /\ \A i \in 1 .. Len(q) - 1 :
                  RemoveAt(q, k)[i] = IF i < k THEN q[i] ELSE q[i + 1]
<1> DEFINE L == SubSeq(q, 1, k - 1)
           R == SubSeq(q, k + 1, Len(q))
<1>1. RemoveAt(q, k) = L \o R
    BY DEF RemoveAt
<1>2. \A i \in 1 .. Len(q) : q[i] \in S
    OBVIOUS
<1>3. L \in Seq(S) /\ Len(L) = k - 1 /\ \A i \in 1 .. k - 1 : L[i] = q[i]
    BY <1>2, SubSeqProperties
<1>4. R \in Seq(S) /\ Len(R) = Len(q) - k /\ \A i \in 1 .. Len(q) - k : R[i] = q[k + i]
    BY <1>2, SubSeqProperties
<1> HIDE DEF L, R
<1>5. /\ L \o R \in Seq(S) /\ Len(L \o R) = Len(L) + Len(R)
      /\ \A i \in 1 .. Len(L) + Len(R) :
             (L \o R)[i] = IF i <= Len(L) THEN L[i] ELSE R[i - Len(L)]
    BY <1>3, <1>4, ConcatProperties
<1>6. QED BY <1>1, <1>3, <1>4, <1>5

LEMMA UnlinkedFacts ==
    ASSUME NEW S, NEW q \in Seq(S), NEW t, IsInjective(q)
    PROVE  /\ Unlinked(q, t) \in Seq(S)
           /\ IsInjective(Unlinked(q, t))
           /\ Range(Unlinked(q, t)) = Range(q) \ {t}
           /\ Unlinked(q, t) # <<>> => q # <<>>
<1>1. CASE t \notin Range(q)
    BY <1>1 DEF Unlinked
<1>2. CASE t \in Range(q)
    <2> DEFINE k == CHOOSE i \in DOMAIN q : q[i] = t
    <2>1. Len(q) \in Nat /\ DOMAIN q = 1 .. Len(q)
        OBVIOUS
    <2>2. k \in 1 .. Len(q) /\ q[k] = t
        <3>1. \E i \in DOMAIN q : q[i] = t
            BY <1>2 DEF Range
        <3>2. QED BY <2>1, <3>1
    <2> HIDE DEF k
    <2>3. RemoveAt(q, k) \in Seq(S) /\ Len(RemoveAt(q, k)) = Len(q) - 1
          /\ \A i \in 1 .. Len(q) - 1 :
                 RemoveAt(q, k)[i] = IF i < k THEN q[i] ELSE q[i + 1]
        BY <2>2, RemoveAtFacts
    <2> DEFINE C == Unlinked(q, t)
    <2>5. C = RemoveAt(q, k)
        BY <1>2 DEF Unlinked, k
    <2> HIDE DEF C
    <2>6. /\ C \in Seq(S) /\ DOMAIN C = 1 .. Len(q) - 1
          /\ \A i \in 1 .. Len(q) - 1 : C[i] = IF i < k THEN q[i] ELSE q[i + 1]
        BY <2>1, <2>3, <2>5
    <2>7. IsInjective(C)
        <3>1. \A i, j \in 1 .. Len(q) : q[i] = q[j] => i = j
            BY <2>1 DEF IsInjective
        <3>2. \A i \in 1 .. Len(q) - 1 : i \in 1 .. Len(q) /\ i + 1 \in 1 .. Len(q)
            BY <2>1
        <3>3. ASSUME NEW i \in 1 .. Len(q) - 1, NEW j \in 1 .. Len(q) - 1, C[i] = C[j]
              PROVE  i = j
            <4>1. CASE i < k /\ j < k
                BY <2>6, <3>1, <3>2, <3>3, <4>1
            <4>2. CASE i < k /\ ~(j < k)
                <5>1. q[i] = q[j + 1] BY <2>6, <3>3, <4>2
                <5>2. i = j + 1 BY <3>1, <3>2, <5>1
                <5>3. QED BY <2>1, <2>2, <4>2, <5>2
            <4>3. CASE ~(i < k) /\ j < k
                <5>1. q[i + 1] = q[j] BY <2>6, <3>3, <4>3
                <5>2. i + 1 = j BY <3>1, <3>2, <5>1
                <5>3. QED BY <2>1, <2>2, <4>3, <5>2
            <4>4. CASE ~(i < k) /\ ~(j < k)
                <5>1. q[i + 1] = q[j + 1] BY <2>6, <3>3, <4>4
                <5>2. i + 1 = j + 1 BY <3>1, <3>2, <5>1
                <5>3. QED BY <2>1, <5>2
            <4>5. QED BY <4>1, <4>2, <4>3, <4>4
        <3>4. QED BY <2>6, <3>3 DEF IsInjective
    <2>8. ASSUME NEW x \in Range(C) PROVE x \in Range(q) \ {t}
        <3>1. PICK i \in 1 .. Len(q) - 1 : x = C[i]
            BY <2>6 DEF Range
        <3>2. PICK j \in 1 .. Len(q) : x = q[j] /\ j # k
            BY <2>1, <2>2, <2>6, <3>1
        <3>3. QED BY <2>1, <2>2, <3>2 DEF Range, IsInjective
    <2>9. ASSUME NEW x \in Range(q) \ {t} PROVE x \in Range(C)
        <3>1. PICK i \in 1 .. Len(q) : x = q[i] /\ i # k
            BY <2>1, <2>2, <2>9 DEF Range
        <3>2. CASE i < k
            <4>1. i \in 1 .. Len(q) - 1 /\ C[i] = x
                BY <2>1, <2>2, <2>6, <3>1, <3>2
            <4>2. QED BY <2>6, <4>1 DEF Range
        <3>3. CASE i > k
            <4>1. i - 1 \in 1 .. Len(q) - 1 /\ C[i - 1] = x
                BY <2>1, <2>2, <2>6, <3>1, <3>3
            <4>2. QED BY <2>6, <4>1 DEF Range
        <3>4. QED BY <2>1, <2>2, <3>1, <3>2, <3>3
    <2>10. q # <<>>
        BY <2>1, <2>2
    <2>11. QED BY <2>6, <2>7, <2>8, <2>9, <2>10 DEF C
<1>3. QED BY <1>1, <1>2

(* Blocks in the data queue and one more outside it: the queue has room,   *)
(* because it has a slot for each block.                                   *)
LEMMA RoomToSend ==
    ASSUME NEW s \in Seq(Block), IsInjective(s), NEW b \in Block, b \notin Range(s)
    PROVE  Len(s) < Slots
<1> DEFINE T == Block \ {b}
<1>1. Len(s) \in Nat /\ DOMAIN s = 1 .. Len(s) /\ \A i \in 1 .. Len(s) : s[i] \in Block
    OBVIOUS
<1>2. s \in [1 .. Len(s) -> T]
    BY <1>1 DEF Range
<1>3. s \in Injection(1 .. Len(s), T)
    BY <1>1, <1>2 DEF Injection, IsInjective
<1>4. IsFiniteSet(T) /\ Cardinality(T) = Cardinality(Block) - 1 /\ Cardinality(Block) \in Nat
    BY FS_RemoveElement, FS_CardinalityType, BlockAssumption
<1>5. Cardinality(1 .. Len(s)) <= Cardinality(T)
    BY <1>3, <1>4, FS_Injection
<1>6. Cardinality(1 .. Len(s)) = Len(s)
    <2>1. 1 \in Int /\ Len(s) \in Int
        BY <1>1
    <2>2. Cardinality(1 .. Len(s)) = IF 1 > Len(s) THEN 0 ELSE Len(s) - 1 + 1
        BY <2>1, FS_Interval
    <2>3. QED BY <1>1, <2>2
<1>7. QED BY <1>1, <1>4, <1>5, <1>6 DEF Slots

-----------------------------------------------------------------------------
LEMMA InitInv == Init => IInv
<1> SUFFICES ASSUME Init PROVE IInv
    OBVIOUS
<1>1. Range(<<>>) = {} /\ IsInjective(<<>>) /\ \A S : <<>> \in Seq(S)
    BY DEF Range, IsInjective
<1>2. TypeOK
    BY <1>1, BlockAssumption DEF Init, TypeOK, Where, Working
<1>3. BlocksConserved
    BY <1>1, BlockAssumption DEF Init, BlocksConserved
<1>4. QED
    BY <1>1, <1>2, <1>3 DEF Init, IInv, WaitersWait, DeletedEmpty, NeverWaitsToSend, NoIdleWaiter

(* Appending, taking and removing keep IInv: an action is broken into the    *)
(* parts of IInv, after the facts about the one sequence that it changes.   *)
LEMMA NextInv == IInv /\ [Next]_vars => IInv'
<1> SUFFICES ASSUME IInv, [Next]_vars PROVE IInv'
    OBVIOUS
<1> USE BlockAssumption
<1>e. Range(<<>>) = {} /\ IsInjective(<<>>) /\ \A S : <<>> \in Seq(S)
    BY DEF Range, IsInjective
<1>w. /\ Range(poolWait) \subseteq Thread /\ Range(recvWait) \subseteq Thread
      /\ Range(data) \subseteq Block
    BY DEF IInv, TypeOK, Range
<1>1. ASSUME NEW t \in Thread, NEW m \in Message, PutGetsBlock(t, m) PROVE IInv'
    <2> USE <1>1 DEF PutGetsBlock, IInv, pool, dtq
    <2>a. PICK b \in free : free' = free \ {b} /\ hold' = [hold EXCEPT ![t] = b]
        OBVIOUS
    <2>b. hold[t] = NoBlock /\ b \in Block /\ b # NoBlock
        BY DEF TypeOK, Working
    <2>1. TypeOK'
        BY <2>a, <2>b DEF TypeOK, Where, Working
    <2>2. WaitersWait'
        BY DEF TypeOK, WaitersWait
    <2>3. DeletedEmpty'
        BY DEF TypeOK, DeletedEmpty
    <2>4. BlocksConserved'
        BY <2>a, <2>b DEF TypeOK, BlocksConserved
    <2>5. NeverWaitsToSend'
        BY DEF TypeOK, NeverWaitsToSend
    <2>6. NoIdleWaiter'
        BY DEF TypeOK, NoIdleWaiter
    <2>7. QED BY <2>1, <2>2, <2>3, <2>4, <2>5, <2>6 DEF IInv
<1>2. ASSUME NEW t \in Thread, NEW m \in Message, PutWaits(t, m) PROVE IInv'
    <2> USE <1>2 DEF PutWaits, IInv, pool, dtq
    <2>a. t \notin Range(poolWait)
        BY DEF WaitersWait
    <2>b. /\ poolWait' \in Seq(Thread) /\ IsInjective(poolWait')
          /\ Range(poolWait') = Range(poolWait) \cup {t}
        BY <2>a, AppendFacts DEF TypeOK
    <2>1. TypeOK'
        BY <2>b DEF TypeOK, Where, Working
    <2>2. WaitersWait'
        BY <2>b DEF TypeOK, WaitersWait
    <2>3. DeletedEmpty'
        BY DEF TypeOK, DeletedEmpty
    <2>4. BlocksConserved'
        BY DEF TypeOK, BlocksConserved
    <2>5. NeverWaitsToSend'
        BY DEF TypeOK, NeverWaitsToSend
    <2>6. NoIdleWaiter'
        BY DEF TypeOK, NoIdleWaiter
    <2>7. QED BY <2>1, <2>2, <2>3, <2>4, <2>5, <2>6 DEF IInv
<1>3. ASSUME NEW t \in Thread, Fill(t) PROVE IInv'
    <2> USE <1>3 DEF Fill, IInv, pool, dtq
    <2>1. TypeOK'
        BY DEF TypeOK, Where, Working
    <2>2. WaitersWait'
        BY DEF TypeOK, WaitersWait
    <2>3. DeletedEmpty'
        BY DEF TypeOK, DeletedEmpty
    <2>4. BlocksConserved'
        BY DEF TypeOK, BlocksConserved
    <2>5. NeverWaitsToSend'
        BY DEF TypeOK, NeverWaitsToSend
    <2>6. NoIdleWaiter'
        BY DEF TypeOK, NoIdleWaiter
    <2>7. QED BY <2>1, <2>2, <2>3, <2>4, <2>5, <2>6 DEF IInv
<1>4. ASSUME NEW t \in Thread, SendHands(t) PROVE IInv'
    <2> USE <1>4 DEF SendHands, IInv, pool, dtq
    <2> DEFINE h == Head(recvWait)
    <2>a. /\ h \in Thread /\ h \in Range(recvWait) /\ recvWait' \in Seq(Thread)
          /\ IsInjective(recvWait') /\ Range(recvWait') = Range(recvWait) \ {h}
        BY TailFacts DEF TypeOK
    <2>b. pc[h] = "waitRecv" /\ h # t /\ hold[h] = NoBlock /\ hold[t] \in Block
        BY <2>a DEF WaitersWait, TypeOK, Working
    <2>c. /\ pc' = [pc EXCEPT ![t] = "idle", ![h] = "copy"]
          /\ hold' = [hold EXCEPT ![t] = NoBlock, ![h] = hold[t]]
        OBVIOUS
    <2> HIDE DEF h
    <2>1. TypeOK'
        BY <2>a, <2>b, <2>c DEF TypeOK, Where, Working
    <2>2. WaitersWait'
        <3>1. \A u \in Thread : u \notin {t, h} => pc'[u] = pc[u]
            BY <2>c DEF TypeOK
        <3>2. t \notin Range(poolWait) /\ t \notin Range(recvWait)
            BY DEF WaitersWait
        <3>3. h \notin Range(poolWait') /\ h \notin Range(recvWait')
            BY <2>a, <2>b DEF WaitersWait
        <3>4. Range(poolWait') \subseteq Range(poolWait) /\ Range(recvWait') \subseteq Range(recvWait)
            BY <2>a
        <3>5. QED BY <1>w, <3>1, <3>2, <3>3, <3>4 DEF WaitersWait
    <2>3. DeletedEmpty'
        BY DEF TypeOK, DeletedEmpty
    <2>4. BlocksConserved'
        <3>1. hold'[t] = NoBlock /\ hold'[h] = hold[t]
            BY <2>a, <2>b, <2>c DEF TypeOK
        <3>2. \A u \in Thread : u \notin {t, h} => hold'[u] = hold[u] /\ hold[u] # hold[t]
            BY <2>a, <2>b, <2>c DEF TypeOK, BlocksConserved
        <3>3. {hold'[u] : u \in Thread} \ {NoBlock} = {hold[u] : u \in Thread} \ {NoBlock}
            BY <2>a, <2>b, <3>1, <3>2
        <3>4. \A u, v \in Thread : u # v /\ hold'[u] = hold'[v] => hold'[u] = NoBlock
            BY <2>a, <2>b, <3>1, <3>2 DEF BlocksConserved
        <3>5. \A u \in Thread : hold'[u] \notin free \cup Range(data)
            BY <2>a, <2>b, <3>1, <3>2 DEF BlocksConserved
        <3>6. QED BY <3>3, <3>4, <3>5 DEF BlocksConserved
    <2>5. NeverWaitsToSend'
        BY <2>a, <2>b, <2>c DEF TypeOK, NeverWaitsToSend
    <2>6. NoIdleWaiter'
        BY DEF TypeOK, NoIdleWaiter
    <2>7. QED BY <2>1, <2>2, <2>3, <2>4, <2>5, <2>6 DEF IInv
<1>5. ASSUME NEW t \in Thread, SendQueues(t) PROVE IInv'
    <2> USE <1>5 DEF SendQueues, IInv, pool, dtq
    <2>a. hold[t] \in Block /\ hold[t] \notin Range(data)
        BY DEF TypeOK, Working, BlocksConserved
    <2>b. Len(data) < Slots
        BY <2>a, RoomToSend DEF TypeOK, BlocksConserved
    <2>c. /\ data' = Append(data, hold[t]) /\ sendWait' = sendWait
          /\ hold' = [hold EXCEPT ![t] = NoBlock] /\ pc' = [pc EXCEPT ![t] = "idle"]
        BY <2>b DEF Enqueue
    <2>d. data' \in Seq(Block) /\ IsInjective(data') /\ Range(data') = Range(data) \cup {hold[t]}
        BY <2>a, <2>c, AppendFacts DEF TypeOK, BlocksConserved
    <2>1. TypeOK'
        BY <2>c, <2>d DEF TypeOK, Where, Working
    <2>2. WaitersWait'
        BY <2>c DEF TypeOK, WaitersWait
    <2>3. DeletedEmpty'
        BY DEF TypeOK, DeletedEmpty
    <2>4. BlocksConserved'
        BY <2>a, <2>c, <2>d DEF TypeOK, BlocksConserved
    <2>5. NeverWaitsToSend'
        BY <2>c DEF TypeOK, NeverWaitsToSend
    <2>6. NoIdleWaiter'
        BY <2>c DEF TypeOK, NoIdleWaiter
    <2>7. QED BY <2>1, <2>2, <2>3, <2>4, <2>5, <2>6 DEF IInv
<1>6. ASSUME NEW t \in Thread, SendRefused(t) PROVE IInv'
    <2> USE <1>6 DEF SendRefused, IInv, pool, dtq
    <2>1. TypeOK'
        BY DEF TypeOK, Where, Working
    <2>2. WaitersWait'
        BY DEF TypeOK, WaitersWait
    <2>3. DeletedEmpty'
        BY DEF TypeOK, DeletedEmpty
    <2>4. BlocksConserved'
        BY DEF TypeOK, BlocksConserved
    <2>5. NeverWaitsToSend'
        BY DEF TypeOK, NeverWaitsToSend
    <2>6. NoIdleWaiter'
        BY DEF TypeOK, NoIdleWaiter
    <2>7. QED BY <2>1, <2>2, <2>3, <2>4, <2>5, <2>6 DEF IInv
<1>7. ASSUME NEW t \in Thread, GetTakes(t) PROVE IInv'
    <2> USE <1>7 DEF GetTakes, IInv, pool, dtq
    <2> DEFINE b == Head(data)
    <2>a. /\ b \in Block /\ b \in Range(data) /\ Tail(data) \in Seq(Block)
          /\ IsInjective(Tail(data)) /\ Range(Tail(data)) = Range(data) \ {b}
        BY TailFacts DEF TypeOK, BlocksConserved
    <2>b. /\ data' = Tail(data) /\ hold' = [hold EXCEPT ![t] = b]
          /\ pc' = [pc EXCEPT ![t] = "copy"] /\ sendWait' = <<>>
        BY DEF WaitersWait
    <2>c. hold[t] = NoBlock /\ b # NoBlock
        BY <2>a DEF TypeOK, Working
    <2> HIDE DEF b
    <2>1. TypeOK'
        <3>1. hold' \in [Thread -> Block \cup {NoBlock}] /\ pc' \in [Thread -> Where]
            BY <2>a, <2>b DEF TypeOK, Where
        <3>2. \A u \in Thread : hold'[u] # NoBlock <=> pc'[u] \in Working
            BY <2>b, <2>c DEF TypeOK, Working
        <3>3. data' \in Seq(Block) /\ sendWait' \in Seq(Thread) /\ IsInjective(sendWait')
            BY <1>e, <2>a, <2>b
        <3>4. QED BY <3>1, <3>2, <3>3 DEF TypeOK
    <2>2. WaitersWait'
        BY <2>b DEF TypeOK, WaitersWait
    <2>3. DeletedEmpty'
        BY DEF TypeOK, DeletedEmpty
    <2>4. BlocksConserved'
        BY <2>a, <2>b, <2>c DEF TypeOK, BlocksConserved
    <2>5. NeverWaitsToSend'
        BY <2>b DEF TypeOK, NeverWaitsToSend
    <2>6. NoIdleWaiter'
        BY DEF TypeOK, NoIdleWaiter
    <2>7. QED BY <2>1, <2>2, <2>3, <2>4, <2>5, <2>6 DEF IInv
<1>8. ASSUME NEW t \in Thread, GetWaits(t) PROVE IInv'
    <2> USE <1>8 DEF GetWaits, IInv, pool, dtq
    <2>a. t \notin Range(recvWait)
        BY DEF WaitersWait
    <2>b. /\ recvWait' \in Seq(Thread) /\ IsInjective(recvWait')
          /\ Range(recvWait') = Range(recvWait) \cup {t}
        BY <2>a, AppendFacts DEF TypeOK
    <2>1. TypeOK'
        BY <2>b DEF TypeOK, Where, Working
    <2>2. WaitersWait'
        BY <2>b DEF TypeOK, WaitersWait
    <2>3. DeletedEmpty'
        BY DEF TypeOK, DeletedEmpty
    <2>4. BlocksConserved'
        BY DEF TypeOK, BlocksConserved
    <2>5. NeverWaitsToSend'
        BY DEF TypeOK, NeverWaitsToSend
    <2>6. NoIdleWaiter'
        BY DEF TypeOK, NoIdleWaiter
    <2>7. QED BY <2>1, <2>2, <2>3, <2>4, <2>5, <2>6 DEF IInv
<1>9. ASSUME NEW t \in Thread, Copy(t) PROVE IInv'
    <2> USE <1>9 DEF Copy, IInv, pool, dtq
    <2>1. TypeOK'
        BY DEF TypeOK, Where, Working
    <2>2. WaitersWait'
        BY DEF TypeOK, WaitersWait
    <2>3. DeletedEmpty'
        BY DEF TypeOK, DeletedEmpty
    <2>4. BlocksConserved'
        BY DEF TypeOK, BlocksConserved
    <2>5. NeverWaitsToSend'
        BY DEF TypeOK, NeverWaitsToSend
    <2>6. NoIdleWaiter'
        BY DEF TypeOK, NoIdleWaiter
    <2>7. QED BY <2>1, <2>2, <2>3, <2>4, <2>5, <2>6 DEF IInv
<1>10. ASSUME NEW t \in Thread, HandBlock(t) PROVE IInv'
    <2> USE <1>10 DEF HandBlock, IInv, pool, dtq
    <2> DEFINE h == Head(poolWait)
    <2>a. /\ h \in Thread /\ h \in Range(poolWait) /\ poolWait' \in Seq(Thread)
          /\ IsInjective(poolWait') /\ Range(poolWait') = Range(poolWait) \ {h}
        BY TailFacts DEF TypeOK
    <2>b. pc[h] = "waitBlock" /\ h # t /\ hold[h] = NoBlock /\ hold[t] \in Block
        BY <2>a DEF WaitersWait, TypeOK, Working
    <2>c. /\ pc' = [pc EXCEPT ![t] = "idle", ![h] = "fill"]
          /\ hold' = [hold EXCEPT ![t] = NoBlock, ![h] = hold[t]]
        OBVIOUS
    <2> HIDE DEF h
    <2>1. TypeOK'
        BY <2>a, <2>b, <2>c DEF TypeOK, Where, Working
    <2>2. WaitersWait'
        <3>1. \A u \in Thread : u \notin {t, h} => pc'[u] = pc[u]
            BY <2>c DEF TypeOK
        <3>2. t \notin Range(poolWait) /\ t \notin Range(recvWait)
            BY DEF WaitersWait
        <3>3. h \notin Range(poolWait') /\ h \notin Range(recvWait')
            BY <2>a, <2>b DEF WaitersWait
        <3>4. Range(poolWait') \subseteq Range(poolWait) /\ Range(recvWait') \subseteq Range(recvWait)
            BY <2>a
        <3>5. QED BY <1>w, <3>1, <3>2, <3>3, <3>4 DEF WaitersWait
    <2>3. DeletedEmpty'
        BY DEF TypeOK, DeletedEmpty
    <2>4. BlocksConserved'
        <3>1. hold'[t] = NoBlock /\ hold'[h] = hold[t]
            BY <2>a, <2>b, <2>c DEF TypeOK
        <3>2. \A u \in Thread : u \notin {t, h} => hold'[u] = hold[u] /\ hold[u] # hold[t]
            BY <2>a, <2>b, <2>c DEF TypeOK, BlocksConserved
        <3>3. {hold'[u] : u \in Thread} \ {NoBlock} = {hold[u] : u \in Thread} \ {NoBlock}
            BY <2>a, <2>b, <3>1, <3>2
        <3>4. \A u, v \in Thread : u # v /\ hold'[u] = hold'[v] => hold'[u] = NoBlock
            BY <2>a, <2>b, <3>1, <3>2 DEF BlocksConserved
        <3>5. \A u \in Thread : hold'[u] \notin free \cup Range(data)
            BY <2>a, <2>b, <3>1, <3>2 DEF BlocksConserved
        <3>6. QED BY <3>3, <3>4, <3>5 DEF BlocksConserved
    <2>5. NeverWaitsToSend'
        BY <2>a, <2>b, <2>c DEF TypeOK, NeverWaitsToSend
    <2>6. NoIdleWaiter'
        BY DEF TypeOK, NoIdleWaiter
    <2>7. QED BY <2>1, <2>2, <2>3, <2>4, <2>5, <2>6 DEF IInv
<1>11. ASSUME NEW t \in Thread, FreeBlock(t) PROVE IInv'
    <2> USE <1>11 DEF FreeBlock, IInv, pool, dtq
    <2>a. hold[t] \in Block /\ hold[t] # NoBlock /\ (dtqOpen => poolOpen)
        BY DEF TypeOK, Working, DeletedEmpty
    <2>1. TypeOK'
        BY DEF TypeOK, Where, Working
    <2>2. WaitersWait'
        BY DEF TypeOK, WaitersWait
    <2>3. DeletedEmpty'
        BY DEF TypeOK, DeletedEmpty
    <2>4. BlocksConserved'
        <3>1. hold'[t] = NoBlock /\ \A u \in Thread \ {t} : hold'[u] = hold[u]
            BY DEF TypeOK
        <3>2. \A u \in Thread \ {t} : hold[u] # hold[t]
            BY <2>a DEF BlocksConserved
        <3>3. hold[t] \notin Range(data)
            BY DEF BlocksConserved
        <3>4. free' \subseteq free \cup {hold[t]} /\ free' \subseteq Block
            BY <2>a DEF TypeOK
        <3>5. NoBlock \notin free' /\ NoBlock \notin Range(data)
            BY <1>w, <2>a, <3>4
        <3>6. \A u, v \in Thread : u # v /\ hold'[u] = hold'[v] => hold'[u] = NoBlock
            BY <3>1 DEF BlocksConserved
        <3>7. \A u \in Thread : hold'[u] \notin free' \cup Range(data)
            BY <3>1, <3>2, <3>4, <3>5 DEF BlocksConserved
        <3>8. free' \cap Range(data) = {}
            BY <3>3, <3>4 DEF BlocksConserved
        <3>9. ASSUME dtqOpen
              PROVE  Block = free' \cup Range(data) \cup ({hold'[u] : u \in Thread} \ {NoBlock})
            <4>1. free' = free \cup {hold[t]}
                BY <2>a, <3>9
            <4>2. {hold[u] : u \in Thread} = {hold'[u] : u \in Thread \ {t}} \cup {hold[t]}
                BY <3>1
            <4>3. {hold'[u] : u \in Thread} = {hold'[u] : u \in Thread \ {t}} \cup {NoBlock}
                BY <3>1
            <4>4. QED BY <2>a, <3>9, <4>1, <4>2, <4>3 DEF BlocksConserved
        <3>10. QED BY <3>6, <3>7, <3>8, <3>9 DEF BlocksConserved
    <2>5. NeverWaitsToSend'
        BY DEF TypeOK, NeverWaitsToSend
    <2>6. NoIdleWaiter'
        BY <2>a DEF TypeOK, NoIdleWaiter, DeletedEmpty
    <2>7. QED BY <2>1, <2>2, <2>3, <2>4, <2>5, <2>6 DEF IInv
<1>12. ASSUME NEW t \in Thread, Timeout(t) PROVE IInv'
    <2> USE <1>12 DEF Timeout, IInv, pool, dtq
    <2>a. /\ poolWait' \in Seq(Thread) /\ IsInjective(poolWait')
          /\ Range(poolWait') = Range(poolWait) \ {t}
          /\ poolWait' # <<>> => poolWait # <<>>
        BY UnlinkedFacts DEF TypeOK
    <2>b. /\ recvWait' \in Seq(Thread) /\ IsInjective(recvWait')
          /\ Range(recvWait') = Range(recvWait) \ {t}
          /\ recvWait' # <<>> => recvWait # <<>>
        BY UnlinkedFacts DEF TypeOK
    <2>c. sendWait' = <<>>
        <3>1. sendWait' # <<>> => sendWait # <<>>
            BY UnlinkedFacts DEF TypeOK
        <3>2. QED BY <3>1 DEF WaitersWait
    <2>d. pc' = [pc EXCEPT ![t] = "idle"]
        BY DEF NeverWaitsToSend
    <2>1. TypeOK'
        BY <1>e, <2>a, <2>b, <2>c, <2>d DEF TypeOK, Where, Working, NeverWaitsToSend
    <2>2. WaitersWait'
        BY <2>a, <2>b, <2>c, <2>d DEF TypeOK, WaitersWait
    <2>3. DeletedEmpty'
        BY <2>a, <2>b DEF TypeOK, DeletedEmpty
    <2>4. BlocksConserved'
        BY DEF TypeOK, BlocksConserved
    <2>5. NeverWaitsToSend'
        BY <2>d DEF TypeOK, NeverWaitsToSend
    <2>6. NoIdleWaiter'
        BY <2>a, <2>b DEF TypeOK, NoIdleWaiter
    <2>7. QED BY <2>1, <2>2, <2>3, <2>4, <2>5, <2>6 DEF IInv
<1>13. ASSUME Delete PROVE IInv'
    <2> USE <1>13 DEF Delete, IInv, pool, dtq
    <2>a. pc' = [t \in Thread |-> IF pc[t] = "waitRecv" THEN "idle" ELSE pc[t]]
        BY DEF NeverWaitsToSend
    <2>1. TypeOK'
        BY <1>e, <2>a DEF TypeOK, Where, Working
    <2>2. WaitersWait'
        BY <1>e, <1>w, <2>a DEF TypeOK, WaitersWait
    <2>3. DeletedEmpty'
        BY DEF TypeOK, DeletedEmpty
    <2>4. BlocksConserved'
        BY <1>e DEF TypeOK, BlocksConserved
    <2>5. NeverWaitsToSend'
        BY <2>a DEF TypeOK, NeverWaitsToSend
    <2>6. NoIdleWaiter'
        BY DEF TypeOK, NoIdleWaiter
    <2>7. QED BY <2>1, <2>2, <2>3, <2>4, <2>5, <2>6 DEF IInv
<1>14. ASSUME DeletePool PROVE IInv'
    <2> USE <1>14 DEF DeletePool, IInv, pool, dtq
    <2>1. TypeOK'
        BY <1>e DEF TypeOK, Where, Working
    <2>2. WaitersWait'
        BY <1>e DEF TypeOK, WaitersWait, DeletedEmpty
    <2>3. DeletedEmpty'
        BY DEF TypeOK, DeletedEmpty
    <2>4. BlocksConserved'
        BY DEF TypeOK, BlocksConserved
    <2>5. NeverWaitsToSend'
        BY DEF TypeOK, NeverWaitsToSend
    <2>6. NoIdleWaiter'
        BY DEF TypeOK, NoIdleWaiter
    <2>7. QED BY <2>1, <2>2, <2>3, <2>4, <2>5, <2>6 DEF IInv
<1>15. CASE UNCHANGED vars
    BY <1>15 DEF vars, pool, dtq, IInv, TypeOK, WaitersWait, DeletedEmpty, BlocksConserved, NeverWaitsToSend, NoIdleWaiter
<1>16. QED
    BY <1>1, <1>2, <1>3, <1>4, <1>5, <1>6, <1>7, <1>8, <1>9, <1>10, <1>11, <1>12, <1>13, <1>14, <1>15 DEF Next, Step, Call, GiveBack

-----------------------------------------------------------------------------
LEMMA Invariance == Spec => []IInv
BY InitInv, NextInv, PTL DEF Spec

(* Types, and: a thread has a block exactly in the stretch of a call that   *)
(* works on one, and waits in no queue twice.                              *)
THEOREM TypeCorrect == Spec => []TypeOK
BY Invariance, PTL DEF IInv

(* No block of the pool is lost, freed twice or used by two threads, on any *)
(* path of osMessageQueuePut and osMessageQueueGet.                        *)
THEOREM BlocksSafe == Spec => []BlocksConserved
BY Invariance, PTL DEF IInv

(* osMessageQueuePut never waits in tsnd_dtq: its timeout counts once.     *)
THEOREM OneWait == Spec => []NeverWaitsToSend
BY Invariance, PTL DEF IInv

(* A block that is returned and a message that is sent reach a waiting      *)
(* thread at once.                                                         *)
THEOREM WaitersServed == Spec => []NoIdleWaiter
BY Invariance, PTL DEF IInv
-----------------------------------------------------------------------------
(* The queue of the abstract specification, and what its threads offer and  *)
(* received last, as MessageQueue's instance Fifo maps them.               *)
Contents(s, f) == [i \in DOMAIN s |-> f[s[i]]]
Queued == Contents(data, mem)
Offered == [t \in Thread |-> IF pc[t] \in {"waitBlock", "fill", "send", "waitSend"}
                            THEN msg[t] ELSE NoMessage]
Received == [t \in Thread |-> IF pc[t] = "copy" THEN mem[hold[t]] ELSE got[t]]

(* A thread that puts offers a message, and its block has it once filled.   *)
PutsMessage ==
    \A t \in Thread :
        /\ pc[t] \in {"waitBlock", "fill", "send"} => msg[t] \in Message
        /\ pc[t] = "send" => mem[hold[t]] = msg[t]

LEMMA PutsInit == Init => PutsMessage
BY DEF Init, PutsMessage

LEMMA PutsNext == IInv /\ PutsMessage /\ [Next]_vars => PutsMessage'
<1> SUFFICES ASSUME IInv, PutsMessage, [Next]_vars PROVE PutsMessage'
    OBVIOUS
<1> USE BlockAssumption
<1> USE DEF IInv, pool, dtq
<1>1. ASSUME NEW t \in Thread, NEW m \in Message, PutGetsBlock(t, m) PROVE PutsMessage'
    BY <1>1 DEF PutGetsBlock, PutsMessage, TypeOK, Working
<1>2. ASSUME NEW t \in Thread, NEW m \in Message, PutWaits(t, m) PROVE PutsMessage'
    BY <1>2 DEF PutWaits, PutsMessage, TypeOK, Working
<1>3. ASSUME NEW t \in Thread, Fill(t) PROVE PutsMessage'
    <2>1. \A u \in Thread : pc[u] = "send" => hold[u] # hold[t]
        BY <1>3 DEF Fill, TypeOK, Working, BlocksConserved
    <2>2. QED BY <1>3, <2>1 DEF Fill, PutsMessage, TypeOK, Working
<1>4. ASSUME NEW t \in Thread, SendHands(t) PROVE PutsMessage'
    BY <1>4 DEF SendHands, PutsMessage, TypeOK, Working
<1>5. ASSUME NEW t \in Thread, SendQueues(t) PROVE PutsMessage'
    BY <1>5 DEF SendQueues, PutsMessage, TypeOK, Working
<1>6. ASSUME NEW t \in Thread, SendRefused(t) PROVE PutsMessage'
    BY <1>6 DEF SendRefused, PutsMessage, TypeOK, Working
<1>7. ASSUME NEW t \in Thread, GetTakes(t) PROVE PutsMessage'
    BY <1>7 DEF GetTakes, PutsMessage, TypeOK, Working
<1>8. ASSUME NEW t \in Thread, GetWaits(t) PROVE PutsMessage'
    BY <1>8 DEF GetWaits, PutsMessage, TypeOK, Working
<1>9. ASSUME NEW t \in Thread, Copy(t) PROVE PutsMessage'
    BY <1>9 DEF Copy, PutsMessage, TypeOK, Working
<1>10. ASSUME NEW t \in Thread, HandBlock(t) PROVE PutsMessage'
    <2> DEFINE h == Head(poolWait)
    <2>1. h \in Thread /\ pc[h] = "waitBlock"
        BY <1>10, TailFacts DEF HandBlock, TypeOK, WaitersWait
    <2>2. pc' = [pc EXCEPT ![t] = "idle", ![h] = "fill"] /\ UNCHANGED <<msg, mem>>
        BY <1>10 DEF HandBlock
    <2>3. \A u \in Thread : pc'[u] = "send" => hold'[u] = hold[u]
        BY <1>10, <2>1 DEF HandBlock, TypeOK
    <2> HIDE DEF h
    <2>4. QED BY <2>1, <2>2, <2>3 DEF PutsMessage, TypeOK
<1>11. ASSUME NEW t \in Thread, FreeBlock(t) PROVE PutsMessage'
    BY <1>11 DEF FreeBlock, PutsMessage, TypeOK, Working
<1>12. ASSUME NEW t \in Thread, Timeout(t) PROVE PutsMessage'
    BY <1>12 DEF Timeout, PutsMessage, TypeOK, Working
<1>13. ASSUME Delete PROVE PutsMessage'
    BY <1>13 DEF Delete, PutsMessage, TypeOK, Working
<1>14. ASSUME DeletePool PROVE PutsMessage'
    BY <1>14 DEF DeletePool, PutsMessage, TypeOK, Working
<1>15. CASE UNCHANGED vars
    BY <1>15 DEF vars, PutsMessage
<1>16. QED
    BY <1>1, <1>2, <1>3, <1>4, <1>5, <1>6, <1>7, <1>8, <1>9, <1>10, <1>11, <1>12, <1>13, <1>14, <1>15 DEF Next, Step, Call, GiveBack

LEMMA ContentsFacts ==
    ASSUME NEW S, NEW s \in Seq(Block), NEW f \in [Block -> S]
    PROVE  /\ Contents(s, f) \in Seq(S) /\ Len(Contents(s, f)) = Len(s)
           /\ \A b \in Block : Contents(Append(s, b), f) = Append(Contents(s, f), f[b])
           /\ s # <<>> => /\ Contents(s, f) # <<>>
                         /\ Contents(Tail(s), f) = Tail(Contents(s, f))
                         /\ Head(Contents(s, f)) = f[Head(s)]
           /\ s = <<>> => Contents(s, f) = <<>>
<1>1. Len(s) \in Nat /\ DOMAIN s = 1 .. Len(s) /\ \A i \in 1 .. Len(s) : s[i] \in Block
    OBVIOUS
<1> DEFINE C == Contents(s, f)
<1>2. C = [i \in 1 .. Len(s) |-> f[s[i]]]
    BY <1>1 DEF Contents
<1>3. C \in Seq(S) /\ Len(C) = Len(s) /\ \A i \in 1 .. Len(s) : C[i] = f[s[i]]
    BY <1>1, <1>2
<1>4. ASSUME NEW b \in Block PROVE Contents(Append(s, b), f) = Append(C, f[b])
    <2>1. /\ Append(s, b) \in Seq(Block) /\ DOMAIN Append(s, b) = 1 .. Len(s) + 1
          /\ \A i \in 1 .. Len(s) + 1 : Append(s, b)[i] = IF i <= Len(s) THEN s[i] ELSE b
        BY <1>1
    <2>2. /\ Append(C, f[b]) \in Seq(S) /\ DOMAIN Append(C, f[b]) = 1 .. Len(s) + 1
          /\ \A i \in 1 .. Len(s) + 1 : Append(C, f[b])[i] = IF i <= Len(s) THEN C[i] ELSE f[b]
        BY <1>1, <1>3
    <2>3. \A i \in 1 .. Len(s) + 1 : f[Append(s, b)[i]] = Append(C, f[b])[i]
        BY <1>1, <1>3, <2>1, <2>2
    <2>4. Contents(Append(s, b), f) = [i \in 1 .. Len(s) + 1 |-> f[Append(s, b)[i]]]
        BY <2>1 DEF Contents
    <2>5. Append(C, f[b]) = [i \in 1 .. Len(s) + 1 |-> Append(C, f[b])[i]]
        <3>1. \A q \in Seq(S) : q = [i \in DOMAIN q |-> q[i]]
            OBVIOUS
        <3>2. QED BY <2>2, <3>1
    <2>6. QED BY <2>3, <2>4, <2>5
<1>5. ASSUME s # <<>>
      PROVE C # <<>> /\ Contents(Tail(s), f) = Tail(C) /\ Head(C) = f[Head(s)]
    <2>1. /\ Len(s) > 0 /\ Tail(s) \in Seq(Block) /\ DOMAIN Tail(s) = 1 .. Len(s) - 1
          /\ \A i \in 1 .. Len(s) - 1 : Tail(s)[i] = s[i + 1]
        BY <1>1, <1>5
    <2>2. /\ C # <<>> /\ Tail(C) \in Seq(S) /\ DOMAIN Tail(C) = 1 .. Len(s) - 1
          /\ \A i \in 1 .. Len(s) - 1 : Tail(C)[i] = C[i + 1]
        BY <1>3, <2>1
    <2>3. \A i \in 1 .. Len(s) - 1 : f[Tail(s)[i]] = Tail(C)[i]
        BY <1>1, <1>3, <2>1, <2>2
    <2>4. Contents(Tail(s), f) = [i \in 1 .. Len(s) - 1 |-> f[Tail(s)[i]]]
        BY <2>1 DEF Contents
    <2>5. Tail(C) = [i \in 1 .. Len(s) - 1 |-> Tail(C)[i]]
        <3>1. \A q \in Seq(S) : q = [i \in DOMAIN q |-> q[i]]
            OBVIOUS
        <3>2. QED BY <2>2, <3>1
    <2>6. Head(C) = C[1] /\ Head(s) = s[1] /\ 1 \in 1 .. Len(s)
        BY <1>1, <1>3, <2>1
    <2>7. QED BY <1>3, <2>2, <2>3, <2>4, <2>5, <2>6
<1>6. ASSUME s = <<>> PROVE C = <<>>
    BY <1>3, <1>6
<1>7. QED BY <1>3, <1>4, <1>5, <1>6

LEMMA QueuedFacts ==
    ASSUME mem \in [Block -> Message \cup {NoMessage}], data \in Seq(Block)
    PROVE  /\ Len(Queued) = Len(data)
           /\ \A b \in Block : Contents(Append(data, b), mem) = Append(Queued, mem[b])
           /\ data # <<>> => /\ Queued # <<>> /\ Contents(Tail(data), mem) = Tail(Queued)
                            /\ Head(Queued) = mem[Head(data)]
           /\ data = <<>> => Queued = <<>>
<1> DEFINE S == Message \cup {NoMessage}
<1>1. mem \in [Block -> S]
    OBVIOUS
<1> HIDE DEF S
<1>2. QED BY <1>1, ContentsFacts DEF Queued

-----------------------------------------------------------------------------
(* A step of MessageQueue as the abstract specification sees it.            *)
LEMMA FifoInit == Init => Fifo!Init
BY DEF Init, Fifo!Init

LEMMA FifoNext == IInv /\ PutsMessage /\ [Next]_vars => [Fifo!Next]_(Fifo!vars)
<1> SUFFICES ASSUME IInv, PutsMessage, [Next]_vars PROVE [Fifo!Next]_(Fifo!vars)
    OBVIOUS
<1> USE BlockAssumption, MessageAssumption
<1> USE DEF IInv, pool, dtq
<1> DEFINE Same == UNCHANGED <<dtqOpen, Queued, Offered, Received>>
<1>s. Same => UNCHANGED Fifo!vars
    BY DEF Fifo!vars, Queued, Contents, Offered, Received
<1>w. ASSUME NEW W \in SUBSET Thread, UNCHANGED <<dtqOpen, Queued, Received>>,
             Offered' = [t \in Thread |-> IF t \in W THEN NoMessage ELSE Offered[t]]
      PROVE  Fifo!Next
    <2>1. Fifo!Withdraw(W)
        BY <1>w DEF Fifo!Withdraw, Queued, Contents, Offered, Received
    <2>2. QED BY <1>w, <2>1 DEF Fifo!Next
<1>o. ASSUME NEW t \in Thread, NEW m \in Message, UNCHANGED <<dtqOpen, Queued, Received>>,
             Offered[t] = NoMessage, Offered' = [Offered EXCEPT ![t] = m]
      PROVE  Fifo!Next
    <2>1. Fifo!Offer(t, m)
        BY <1>o DEF Fifo!Offer, Queued, Contents, Offered, Received
    <2>2. QED BY <2>1 DEF Fifo!Next
<1> DEFINE Contained == mem \in [Block -> Message \cup {NoMessage}] /\ data \in Seq(Block)
<1>c. Contained
    BY DEF TypeOK
<1>q. /\ Len(Queued) = Len(data)
      /\ \A b \in Block : Contents(Append(data, b), mem) = Append(Queued, mem[b])
      /\ data # <<>> => /\ Queued # <<>> /\ Contents(Tail(data), mem) = Tail(Queued)
                       /\ Head(Queued) = mem[Head(data)]
    BY <1>c, QueuedFacts
<1>1. ASSUME NEW t \in Thread, NEW m \in Message, PutGetsBlock(t, m) PROVE Fifo!Next
    <2>1. UNCHANGED <<dtqOpen, Queued>>
        BY <1>1 DEF PutGetsBlock, Queued
    <2>2. pc[t] = "idle" /\ pc' = [pc EXCEPT ![t] = "fill"] /\ msg' = [msg EXCEPT ![t] = m]
          /\ UNCHANGED <<mem, got>> /\ \A u \in Thread : u # t => hold'[u] = hold[u]
        BY <1>1 DEF PutGetsBlock, TypeOK
    <2>3. UNCHANGED Received
        BY <2>2 DEF Received, TypeOK
    <2>4. Offered[t] = NoMessage /\ Offered' = [Offered EXCEPT ![t] = m]
        BY <2>2 DEF Offered, TypeOK
    <2>5. QED BY <1>o, <2>1, <2>3, <2>4
<1>2. ASSUME NEW t \in Thread, NEW m \in Message, PutWaits(t, m) PROVE Fifo!Next
    <2>1. UNCHANGED <<dtqOpen, Queued>>
        BY <1>2 DEF PutWaits, Queued
    <2>2. UNCHANGED Received
        BY <1>2 DEF PutWaits, Received, TypeOK
    <2>3. Offered[t] = NoMessage /\ Offered' = [Offered EXCEPT ![t] = m]
        BY <1>2 DEF PutWaits, Offered, TypeOK
    <2>4. QED BY <1>o, <2>1, <2>2, <2>3
<1>3. ASSUME NEW t \in Thread, Fill(t) PROVE Same
    <2>1. hold[t] \in Block /\ hold[t] \notin Range(data)
        BY <1>3 DEF Fill, TypeOK, Working, BlocksConserved
    <2>2. UNCHANGED Queued
        <3>1. \A i \in DOMAIN data : data[i] # hold[t] /\ data[i] \in Block
            BY <2>1, <1>c DEF Range
        <3>2. \A i \in DOMAIN data : mem'[data[i]] = mem[data[i]]
            BY <1>3, <3>1, <1>c DEF Fill
        <3>3. QED BY <1>3, <3>2 DEF Fill, Queued, Contents
    <2>3. UNCHANGED Offered
        BY <1>3 DEF Fill, Offered, TypeOK
    <2>4. UNCHANGED Received
        <3>1. \A u \in Thread : pc[u] = "copy" => hold[u] # hold[t] /\ hold[u] \in Block
            BY <1>3 DEF Fill, TypeOK, Working, BlocksConserved
        <3>2. \A u \in Thread : /\ pc'[u] = "copy" <=> pc[u] = "copy"
                                /\ pc[u] = "copy" => mem'[hold'[u]] = mem[hold[u]]
            BY <1>3, <3>1, <1>c DEF Fill, TypeOK
        <3>3. QED BY <1>3, <3>2 DEF Fill, Received
    <2>5. QED BY <1>3, <2>2, <2>3, <2>4 DEF Fill
<1>4. ASSUME NEW t \in Thread, SendHands(t) PROVE Fifo!Next
    <2>h. PICK h \in Thread : h = Head(recvWait)
        BY <1>4, TailFacts DEF SendHands, TypeOK
    <2>1. pc[h] = "waitRecv" /\ h # t
        BY <1>4, <2>h, TailFacts DEF SendHands, TypeOK, WaitersWait
    <2>2. /\ pc[t] = "send" /\ pc' = [pc EXCEPT ![t] = "idle", ![h] = "copy"]
          /\ hold' = [hold EXCEPT ![t] = NoBlock, ![h] = hold[t]]
          /\ dtqOpen /\ UNCHANGED <<dtqOpen, data, mem, msg, got>>
        BY <1>4, <2>h DEF SendHands
    <2>3. Queued = <<>> /\ Queued' = Queued
        BY <1>4, <1>c, <2>2, ContentsFacts DEF SendHands, NoIdleWaiter, Queued
    <2>4. Offered[t] = msg[t] /\ Offered[t] # NoMessage /\ mem[hold[t]] = msg[t]
        BY <2>2 DEF Offered, PutsMessage
    <2>5. Offered' = [Offered EXCEPT ![t] = NoMessage]
        BY <2>1, <2>2 DEF Offered, TypeOK
    <2>6. Received' = [Received EXCEPT ![h] = Offered[t]]
        BY <2>1, <2>2, <2>4 DEF Received, TypeOK
    <2>7. Fifo!Hand(t, h)
        BY <2>2, <2>3, <2>4, <2>5, <2>6 DEF Fifo!Hand, Queued, Contents, Offered, Received
    <2>8. QED BY <2>7 DEF Fifo!Next
<1>5. ASSUME NEW t \in Thread, SendQueues(t) PROVE Fifo!Next
    <2>1. hold[t] \in Block /\ hold[t] \notin Range(data)
        BY <1>5 DEF SendQueues, TypeOK, Working, BlocksConserved
    <2>2. Len(data) < Slots
        BY <2>1, RoomToSend DEF TypeOK, BlocksConserved
    <2>3. /\ pc[t] = "send" /\ dtqOpen /\ data' = Append(data, hold[t])
          /\ hold' = [hold EXCEPT ![t] = NoBlock] /\ pc' = [pc EXCEPT ![t] = "idle"]
          /\ UNCHANGED <<dtqOpen, mem, msg, got>>
        BY <1>5, <2>2 DEF SendQueues, Enqueue
    <2>4. Offered[t] = mem[hold[t]] /\ Offered[t] # NoMessage
        BY <2>3 DEF Offered, PutsMessage
    <2>5. Queued' = Append(Queued, Offered[t]) /\ Len(Queued) < Slots
        BY <1>q, <2>1, <2>2, <2>3, <2>4 DEF Queued
    <2>6. Offered' = [Offered EXCEPT ![t] = NoMessage]
        BY <2>3 DEF Offered, TypeOK
    <2>7. UNCHANGED Received
        BY <2>3 DEF Received, TypeOK
    <2>8. Fifo!Put(t)
        BY <2>3, <2>4, <2>5, <2>6, <2>7 DEF Fifo!Put, Queued, Contents, Offered, Received
    <2>9. QED BY <2>8 DEF Fifo!Next
<1>6. ASSUME NEW t \in Thread, SendRefused(t) PROVE Fifo!Next
    <2>1. UNCHANGED <<dtqOpen, Queued>>
        BY <1>6 DEF SendRefused, Queued
    <2>2. UNCHANGED Received
        BY <1>6 DEF SendRefused, Received, TypeOK
    <2>3. Offered' = [u \in Thread |-> IF u \in {t} THEN NoMessage ELSE Offered[u]]
        BY <1>6 DEF SendRefused, Offered, TypeOK
    <2>4. QED BY <1>w, <2>1, <2>2, <2>3
<1>7. ASSUME NEW t \in Thread, GetTakes(t) PROVE Fifo!Next
    <2>1. /\ pc[t] = "idle" /\ dtqOpen /\ data # <<>> /\ data' = Tail(data)
          /\ hold' = [hold EXCEPT ![t] = Head(data)] /\ pc' = [pc EXCEPT ![t] = "copy"]
          /\ UNCHANGED <<dtqOpen, mem, msg, got>>
        BY <1>7 DEF GetTakes, WaitersWait
    <2>2. Queued # <<>> /\ Queued' = Tail(Queued) /\ Head(Queued) = mem[Head(data)]
        BY <1>q, <2>1 DEF Queued
    <2>3. UNCHANGED Offered
        BY <2>1 DEF Offered, TypeOK
    <2>4. Received' = [Received EXCEPT ![t] = Head(Queued)]
        BY <2>1, <2>2 DEF Received, TypeOK
    <2>5. Fifo!Get(t)
        BY <2>1, <2>2, <2>3, <2>4 DEF Fifo!Get, Queued, Contents, Offered, Received
    <2>6. QED BY <2>5 DEF Fifo!Next
<1>8. ASSUME NEW t \in Thread, GetWaits(t) PROVE Same
    BY <1>8 DEF GetWaits, Queued, Offered, Received, TypeOK
<1>9. ASSUME NEW t \in Thread, Copy(t) PROVE Same
    BY <1>9 DEF Copy, Queued, Offered, Received, TypeOK
<1>10. ASSUME NEW t \in Thread, HandBlock(t) PROVE Same
    <2> DEFINE h == Head(poolWait)
    <2>1. h \in Thread /\ pc[h] = "waitBlock" /\ h # t
        BY <1>10, TailFacts DEF HandBlock, TypeOK, WaitersWait
    <2>2. /\ pc[t] = "giveBack" /\ pc' = [pc EXCEPT ![t] = "idle", ![h] = "fill"]
          /\ hold' = [hold EXCEPT ![t] = NoBlock, ![h] = hold[t]]
          /\ UNCHANGED <<dtqOpen, data, mem, msg, got>>
        BY <1>10 DEF HandBlock
    <2> HIDE DEF h
    <2>3. UNCHANGED Queued
        BY <2>2 DEF Queued
    <2>4. UNCHANGED Offered
        BY <2>1, <2>2 DEF Offered, TypeOK
    <2>5. UNCHANGED Received
        BY <2>1, <2>2 DEF Received, TypeOK
    <2>6. QED BY <2>2, <2>3, <2>4, <2>5
<1>11. ASSUME NEW t \in Thread, FreeBlock(t) PROVE Same
    BY <1>11 DEF FreeBlock, Queued, Offered, Received, TypeOK
<1>12. ASSUME NEW t \in Thread, Timeout(t) PROVE Fifo!Next
    <2>1. /\ pc[t] \in {"waitBlock", "waitRecv"} /\ pc' = [pc EXCEPT ![t] = "idle"]
          /\ UNCHANGED <<dtqOpen, data, mem, hold, msg, got>>
        BY <1>12 DEF Timeout, NeverWaitsToSend
    <2>2. UNCHANGED Queued
        BY <2>1 DEF Queued
    <2>3. UNCHANGED Received
        BY <2>1 DEF Received, TypeOK
    <2>4. Offered' = [u \in Thread |-> IF u \in {t} THEN NoMessage ELSE Offered[u]]
        BY <2>1 DEF Offered, TypeOK
    <2>5. QED BY <1>w, <2>1, <2>2, <2>3, <2>4
<1>13. ASSUME Delete PROVE Fifo!Next
    <2>1. /\ pc' = [u \in Thread |-> IF pc[u] = "waitRecv" THEN "idle" ELSE pc[u]]
          /\ dtqOpen /\ dtqOpen' = FALSE /\ data' = <<>> /\ UNCHANGED <<mem, hold, msg, got>>
        BY <1>13 DEF Delete, NeverWaitsToSend
    <2>2. Queued' = <<>>
        BY <2>1 DEF Queued, Contents
    <2>3. UNCHANGED Offered
        BY <2>1 DEF Offered, TypeOK
    <2>4. UNCHANGED Received
        BY <2>1 DEF Received, TypeOK
    <2>5. Fifo!Delete
        BY <2>1, <2>2, <2>3, <2>4 DEF Fifo!Delete, Queued, Contents, Offered, Received
    <2>6. QED BY <2>5 DEF Fifo!Next
<1>14. ASSUME DeletePool PROVE Fifo!Next
    <2> DEFINE W == {u \in Thread : pc[u] = "waitBlock"}
    <2>1. /\ pc' = [u \in Thread |-> IF pc[u] = "waitBlock" THEN "idle" ELSE pc[u]]
          /\ UNCHANGED <<dtqOpen, data, mem, hold, msg, got>>
        BY <1>14 DEF DeletePool
    <2>2. UNCHANGED Queued
        BY <2>1 DEF Queued
    <2>3. UNCHANGED Received
        BY <2>1 DEF Received, TypeOK
    <2>4. Offered' = [u \in Thread |-> IF u \in W THEN NoMessage ELSE Offered[u]]
        BY <2>1 DEF Offered, TypeOK
    <2>5. QED BY <1>w, <2>1, <2>2, <2>3, <2>4
<1>15. CASE UNCHANGED vars
    BY <1>15, <1>s DEF vars, Queued, Offered, Received
<1>16. QED
    BY <1>1, <1>2, <1>3, <1>4, <1>5, <1>6, <1>7, <1>8, <1>9, <1>10, <1>11, <1>12, <1>13,
       <1>14, <1>15, <1>s DEF Next, Step, Call, GiveBack

(* Whatever priorities the messages are put with, the queue implements a   *)
(* bounded first-in first-out sequence, and a get returns the priority.    *)
THEOREM Refinement == Spec => ImplementsFifo
<1>1. Spec => []PutsMessage
    BY Invariance, PutsInit, PutsNext, PTL DEF Spec
<1>2. QED
    BY <1>1, Invariance, FifoInit, FifoNext, PTL DEF Spec, ImplementsFifo, Fifo!Spec
=============================================================================

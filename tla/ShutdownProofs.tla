--------------------------- MODULE ShutdownProofs ---------------------------
(***************************************************************************)
(* What a consumer can leave behind when it finds the queue closed, for    *)
(* any number of processes and messages and any capacity.                  *)
(***************************************************************************)
EXTENDS Shutdown, SequenceTheorems, TLAPS

(* A consumer that has seen the queue empty and has not begun to get again *)
(* knows what has come since, and nothing else can be in the queue.        *)
LateCoversQueue == \A c \in Consumer : consumer[c] # "getting" =>
                      \A n \in 1..Len(queue) : queue[n] \in late[c]

SInv == TypeOK /\ LateCoversQueue

(* A get leaves messages that were there before.                           *)
LEMMA RestWasThere ==
    ASSUME NEW q \in Seq(Message), NEW limits
    PROVE  /\ Fifo!Rest(limits, q) \in Seq(Message)
           /\ \A n \in 1..Len(Fifo!Rest(limits, q)) :
                 \E k \in 1..Len(q) : Fifo!Rest(limits, q)[n] = q[k]
<1> DEFINE m == Fifo!Count(limits, q)
           r == SubSeq(q, m + 1, Len(q))
<1>1. m \in Nat /\ m <= Len(q) /\ Len(q) \in Nat
  BY Fifo!CountInRange
<1> HIDE DEF m
<1>2. \A k \in m + 1..Len(q) : q[k] \in Message
  BY <1>1
<1>3. /\ r \in Seq(Message)
      /\ Len(r) = IF m + 1 <= Len(q) THEN Len(q) - (m + 1) + 1 ELSE 0
      /\ \A k \in 1..Len(q) - (m + 1) + 1 : r[k] = q[m + 1 + k - 1]
  BY <1>1, <1>2, SubSeqProperties
<1> HIDE DEF r
<1>4. ASSUME NEW n \in 1..Len(r) PROVE \E k \in 1..Len(q) : r[n] = q[k]
  <2>1. n \in 1..Len(q) - (m + 1) + 1 /\ m + 1 + n - 1 \in 1..Len(q)
    BY <1>1, <1>3
  <2> QED BY <1>3, <2>1
<1> QED BY <1>3, <1>4 DEF Fifo!Rest, m, r
-----------------------------------------------------------------------------
LEMMA InitSInv == Init => SInv
<1> SUFFICES ASSUME Init PROVE SInv
  OBVIOUS
<1>1. TypeOK
  <2>1. 0 \in 0..num_messages
    BY NumAssumption
  <2>2. /\ i \in [Producer -> 0..num_messages]
        /\ consumer \in [Consumer -> {"getting", "empty", "done"}]
        /\ late \in [Consumer -> SUBSET Message]
    BY <2>1 DEF Init
  <2>3. queue \in Seq(Message)
    BY EmptySeq DEF Init
  <2>4. closed \in BOOLEAN /\ main = "join producers"
    BY DEF Init
  <2> QED BY <2>2, <2>3, <2>4 DEF TypeOK
<1>2. LateCoversQueue
  BY DEF Init, LateCoversQueue
<1> QED BY <1>1, <1>2 DEF SInv

LEMMA ProduceSInv ==
    ASSUME SInv, NEW p \in Producer, Produce(p)
    PROVE  SInv'
<1> DEFINE m == <<p, i[p]>>
<1>0. i \in [Producer -> 0..num_messages] /\ i[p] \in Nat
  <2>1. i \in [Producer -> 0..num_messages]
    BY DEF SInv, TypeOK
  <2>2. i[p] \in 0..num_messages
    BY <2>1
  <2> QED BY <2>1, <2>2
<1>1. /\ i[p] < num_messages
      /\ i' = [i EXCEPT ![p] = i[p] + 1] /\ queue' = Append(queue, m)
      /\ UNCHANGED <<closed, consumer, main>> /\ queue \in Seq(Message)
      /\ late' = [c \in Consumer |-> IF consumer[c] = "getting" THEN {} ELSE late[c] \cup {m}]
  BY DEF SInv, TypeOK, Produce, WantsToPut
<1>2. m \in Message
  BY <1>0 DEF Message
<1> HIDE DEF m
<1>3. /\ queue' \in Seq(Message) /\ Len(queue') = Len(queue) + 1 /\ Len(queue) \in Nat
      /\ \A n \in 1..Len(queue) : queue'[n] = queue[n]
      /\ queue'[Len(queue) + 1] = m
  BY <1>1, <1>2
<1>4. TypeOK'
  <2>1. i' \in [Producer -> 0..num_messages]
    BY <1>0, <1>1, NumAssumption
  <2>2. late' \in [Consumer -> SUBSET Message]
    BY <1>1, <1>2 DEF SInv, TypeOK
  <2> QED BY <1>1, <1>3, <2>1, <2>2 DEF SInv, TypeOK
<1>5. LateCoversQueue'
  <2> SUFFICES ASSUME NEW c \in Consumer, consumer[c] # "getting", NEW n \in 1..Len(queue')
               PROVE  queue'[n] \in late'[c]
    BY <1>1 DEF LateCoversQueue
  <2>1. late'[c] = late[c] \cup {m}
    BY <1>1
  <2>2. CASE n = Len(queue) + 1
    BY <1>3, <2>1, <2>2
  <2>3. CASE n \in 1..Len(queue)
    BY <1>3, <2>1, <2>3 DEF SInv, LateCoversQueue
  <2> QED BY <1>3, <2>2, <2>3
<1> QED BY <1>4, <1>5 DEF SInv

LEMMA ConsumeSInv ==
    ASSUME SInv, NEW c \in Consumer, Consume(c)
    PROVE  SInv'
<1>1. CASE GetMessages(c)
  <2>1. PICK limits \in Request : queue' = Fifo!Rest(limits, queue)
    BY <1>1 DEF GetMessages
  <2>2. UNCHANGED <<closed, i, consumer, main, late>> /\ queue \in Seq(Message)
    BY <1>1 DEF GetMessages, SInv, TypeOK
  <2>3. /\ queue' \in Seq(Message)
        /\ \A n \in 1..Len(queue') : \E k \in 1..Len(queue) : queue'[n] = queue[k]
    BY <2>1, <2>2, RestWasThere
  <2>4. LateCoversQueue'
    BY <2>2, <2>3 DEF SInv, LateCoversQueue
  <2> QED BY <2>2, <2>3, <2>4 DEF SInv, TypeOK
<1>2. CASE GetEmpty(c)
  <2>1. Len(queue) = 0 /\ UNCHANGED <<queue, closed, i, main, late>>
        /\ consumer' = [consumer EXCEPT ![c] = "empty"]
    BY <1>2 DEF GetEmpty
  <2>2. LateCoversQueue'
    <3> SUFFICES ASSUME NEW d \in Consumer, consumer'[d] # "getting", NEW n \in 1..Len(queue)
                 PROVE  queue[n] \in late[d]
      BY <2>1 DEF LateCoversQueue
    <3> QED BY <2>1
  <2>3. TypeOK'
    BY <2>1 DEF SInv, TypeOK
  <2> QED BY <2>2, <2>3 DEF SInv
<1>3. CASE CheckClosed(c)
  <2>1. /\ consumer[c] = "empty" /\ UNCHANGED <<queue, closed, i, main>>
        /\ consumer' = [consumer EXCEPT ![c] = IF closed THEN "done" ELSE "getting"]
        /\ late' = IF closed THEN late ELSE [late EXCEPT ![c] = {}]
    BY <1>3 DEF CheckClosed, LookAtFlag
  <2>2. TypeOK'
    BY <2>1 DEF SInv, TypeOK
  <2>3. LateCoversQueue'
    BY <2>1 DEF SInv, TypeOK, LateCoversQueue
  <2> QED BY <2>2, <2>3 DEF SInv
<1> QED BY <1>1, <1>2, <1>3 DEF Consume

LEMMA NextSInv ==
    ASSUME SInv, [Next]_vars
    PROVE  SInv'
<1>1. CASE Main
  <2>1. UNCHANGED <<queue, i, consumer, late>> /\ closed' \in BOOLEAN
        /\ main' \in {"join producers", "close", "join consumers", "exit"}
    BY <1>1 DEF Main, JoinProducers, close, JoinConsumers, SInv, TypeOK
  <2> QED BY <2>1 DEF SInv, TypeOK, LateCoversQueue
<1>2. CASE UNCHANGED vars
  BY <1>2 DEF vars, SInv, TypeOK, LateCoversQueue
<1> QED BY <1>1, <1>2, ProduceSInv, ConsumeSInv DEF Next

LEMMA Invariance == Spec => []SInv
<1>1. SInv /\ [Next]_vars => SInv'
  BY NextSInv
<1> QED BY <1>1, InitSInv, PTL DEF Spec

(* No producer of the tests' programs puts more than it was asked to.      *)
THEOREM ShutdownTypes == Spec => []TypeOK
<1>1. SInv => TypeOK
  BY DEF SInv
<1> QED BY <1>1, Invariance, PTL

(* Whoever ends because Empty was raised and is_closed() returned true     *)
(* leaves only messages behind that were put between these two.            *)
THEOREM LossWindow == Spec => []OnlyLateMessagesLeft
<1>1. SInv => OnlyLateMessagesLeft
  BY DEF SInv, LateCoversQueue, OnlyLateMessagesLeft, Ended
<1> QED BY <1>1, Invariance, PTL
=============================================================================

-------------------------- MODULE QueueSyncProofs --------------------------
(***************************************************************************)
(* For any number of producers and consumers, any batches, requests and    *)
(* capacities: the waiter counts count the waiters, at most one thread is  *)
(* in the critical section, and whatever the waiting does, the calls act   *)
(* on the queue one at a time, as FifoQueue says, within its capacities.   *)
(* And in the use of UniformQueue no wakeup is lost.                       *)
(***************************************************************************)
EXTENDS UniformQueue, FiniteSetTheorems, SequenceTheorems, TLAPS

(* What a thread inside the queue asked for is of its kind. *)
CallsTyped == /\ \A p \in Producer : pc[p] # "out" => call[p] \in Batch
              /\ \A c \in Consumer : pc[c] # "out" => call[c] \in Request

(* The types without the waiter counts, of which only CountsExact tells    *)
(* that they are not negative.                                             *)
Typed == /\ queue \in Seq(Message)
         /\ mutex \in Thread \cup {Nobody}
         /\ pc \in [Thread -> {"out", "locking", "locked", "asleep", "awake"}]
         /\ call \in [Thread -> Batch \cup Request \cup {NoCall}]
         /\ may_wait \in [Thread -> BOOLEAN]

NumberBounded == Len(queue) <= maxsize

(* A call in the critical section has not returned anything yet. *)
ResultPending == \A t \in Thread : pc[t] = "locked" => result = Begun(t)

IInv == Typed /\ CallsTyped /\ MutualExclusion /\ CountsExact /\ NumberBounded
          /\ ResultPending
-----------------------------------------------------------------------------
(* The lemmas of Messages, for the messages of the queue. *)
LEMMA MessagesSized == Fifo!Sized
BY SizeAssumption DEF Fifo!Sized

States == {"out", "locking", "locked", "asleep", "awake"}

(* Every step moves one thread t to `next`, and at most wakes others. *)
Moves(t, next) ==
    /\ pc' \in [Thread -> States]
    /\ pc'[t] = next
    /\ \A u \in Thread \ {t} : pc'[u] = pc[u] \/ (pc[u] = "asleep" /\ pc'[u] = "awake")

LEMMA GoMoves ==
    ASSUME Typed, NEW t \in Thread, NEW next \in States, Go(t, next)
    PROVE  Moves(t, next)
BY DEF Typed, Go, Moves, States

LEMMA SignalMoves ==
    ASSUME Typed, NEW t \in Thread, NEW next \in States, NEW threads \in SUBSET Thread,
           pc[t] # "asleep", SignalAndGo(threads, t, next)
    PROVE  Moves(t, next)
<1>1. ASSUME NEW w \in Asleep(threads), pc' = [pc EXCEPT ![t] = next, ![w] = "awake"]
      PROVE  Moves(t, next)
  <2>1. w \in Thread /\ pc[w] = "asleep" /\ w # t
    BY <1>1 DEF Asleep
  <2> QED BY <1>1, <2>1 DEF Typed, Moves, States
<1>2. CASE pc' = [pc EXCEPT ![t] = next]
  BY <1>2, GoMoves DEF Go
<1> QED BY <1>1, <1>2 DEF SignalAndGo

LEMMA WakeMoves ==
    ASSUME Typed, NEW t \in Thread, pc[t] = "locked", WakeAfterPut(t) \/ WakeAfterGet(t)
    PROVE  Moves(t, "out")
<1>1. Producer \in SUBSET Thread /\ Consumer \in SUBSET Thread /\ "out" \in States
  BY DEF Thread, States
<1>2. \/ SignalAndGo(Producer, t, "out") \/ SignalAndGo(Consumer, t, "out")
      \/ Go(t, "out")
  BY DEF WakeAfterPut, WakeAfterGet
<1> QED BY <1>1, <1>2, GoMoves, SignalMoves

(* Who is woken stays counted; who goes neither into nor out of the wait   *)
(* does not change who is in it.                                           *)
LEMMA WaitingKept ==
    ASSUME Typed, NEW t \in Thread, NEW next, Moves(t, next),
           pc[t] \in {"asleep", "awake"} <=> next \in {"asleep", "awake"},
           NEW threads \in SUBSET Thread
    PROVE  Waiting(threads)' = Waiting(threads)
BY DEF Typed, Moves, Waiting

LEMMA WaitingGrows ==
    ASSUME Typed, NEW t \in Thread, Moves(t, "asleep"), pc[t] = "locked",
           NEW threads \in SUBSET Thread
    PROVE  Waiting(threads)' = IF t \in threads THEN Waiting(threads) \cup {t}
                                                ELSE Waiting(threads)
BY DEF Typed, Moves, Waiting

LEMMA WaitingShrinks ==
    ASSUME Typed, NEW t \in Thread, Moves(t, "locked"), pc[t] = "awake",
           NEW threads \in SUBSET Thread
    PROVE  Waiting(threads)' = Waiting(threads) \ {t}
BY DEF Typed, Moves, Waiting

LEMMA WaitingFinite ==
    ASSUME NEW threads \in SUBSET Thread
    PROVE  /\ IsFiniteSet(Waiting(threads))
           /\ Cardinality(Waiting(threads)) \in Nat
<1>1. Waiting(threads) \in SUBSET Thread
  BY DEF Waiting
<1> QED BY <1>1, ThreadAssumption, FS_Subset, FS_CardinalityType

LEMMA CountsKept ==
    ASSUME Typed, CountsExact, UNCHANGED counts, NEW t \in Thread, NEW next,
           Moves(t, next), pc[t] \in {"asleep", "awake"} <=> next \in {"asleep", "awake"}
    PROVE  CountsExact'
<1>1. Producer \in SUBSET Thread /\ Consumer \in SUBSET Thread
  BY DEF Thread
<1>2. /\ Waiting(Producer)' = Waiting(Producer)
      /\ Waiting(Consumer)' = Waiting(Consumer)
  BY <1>1, WaitingKept
<1> QED BY <1>2 DEF CountsExact, counts

(* A thread in the critical section that leaves it, for good or to wait.   *)
LEMMA LeavesCritical ==
    ASSUME Typed, MutualExclusion, NEW t \in Thread, pc[t] = "locked",
           NEW next \in {"out", "asleep"}, Moves(t, next), Unlock
    PROVE  MutualExclusion' /\ mutex' \in Thread \cup {Nobody}
<1>1. mutex = t /\ mutex' = Nobody /\ Nobody \notin Thread
  BY ThreadAssumption DEF MutualExclusion, Unlock
<1>2. \A u \in Thread : pc'[u] # "locked"
  BY <1>1 DEF Moves, MutualExclusion
<1> QED BY <1>1, <1>2 DEF MutualExclusion

(* One that enters it finds the mutex free. *)
LEMMA EntersCritical ==
    ASSUME Typed, MutualExclusion, NEW t \in Thread, mutex = Nobody, mutex' = t,
           Moves(t, "locked")
    PROVE  MutualExclusion' /\ mutex' \in Thread \cup {Nobody}
<1>1. \A u \in Thread : pc[u] # "locked"
  BY ThreadAssumption DEF MutualExclusion
<1>2. \A u \in Thread \ {t} : pc'[u] # "locked"
  BY <1>1 DEF Moves
<1> QED BY <1>2 DEF MutualExclusion, Moves

(* And one that does neither does not touch it. *)
LEMMA StaysOutside ==
    ASSUME Typed, MutualExclusion, NEW t \in Thread, pc[t] # "locked", UNCHANGED mutex,
           NEW next \in States \ {"locked"}, Moves(t, next)
    PROVE  MutualExclusion' /\ mutex' \in Thread \cup {Nobody}
BY DEF Typed, MutualExclusion, Moves

LEMMA PendingKept ==
    ASSUME Typed, ResultPending, NEW t \in Thread, NEW next, next # "locked",
           Moves(t, next), UNCHANGED result, \A u \in Thread \ {t} : call'[u] = call[u]
    PROVE  ResultPending'
<1> SUFFICES ASSUME NEW u \in Thread, pc'[u] = "locked"
             PROVE  result' = Begun(u)'
  BY DEF ResultPending
<1>1. u # t /\ pc[u] = "locked" /\ call'[u] = call[u]
  BY DEF Moves
<1> QED BY <1>1 DEF ResultPending, Begun

(* The one call in the critical section is the one that begins. *)
LEMMA PendingBegins ==
    ASSUME NEW t \in Thread, MutualExclusion', mutex' = t, result' = Begun(t),
           UNCHANGED call
    PROVE  ResultPending'
<1> SUFFICES ASSUME NEW u \in Thread, pc'[u] = "locked"
             PROVE  result' = Begun(u)'
  BY DEF ResultPending
<1>1. u = t
  BY DEF MutualExclusion
<1> QED BY <1>1 DEF Begun

(* What a thread asked for is kept while it is inside. *)
LEMMA CallsKept ==
    ASSUME Typed, CallsTyped, NEW t \in Thread, NEW next, Moves(t, next),
           pc[t] # "out",
           \/ UNCHANGED <<call, may_wait>>
           \/ /\ next = "out"
              /\ call' = [call EXCEPT ![t] = NoCall]
              /\ may_wait' = [may_wait EXCEPT ![t] = FALSE]
           \/ UNCHANGED call /\ may_wait' = [may_wait EXCEPT ![t] = FALSE]
    PROVE  /\ CallsTyped'
           /\ call' \in [Thread -> Batch \cup Request \cup {NoCall}]
           /\ may_wait' \in [Thread -> BOOLEAN]
<1>1. Producer \subseteq Thread /\ Consumer \subseteq Thread
  BY DEF Thread
<1> QED BY <1>1 DEF Typed, CallsTyped, Moves
-----------------------------------------------------------------------------
LEMMA InitIInv ==
    ASSUME Init
    PROVE  IInv
<1>1. Waiting(Producer) = {} /\ Waiting(Consumer) = {}
  BY DEF Init, Waiting, Thread
<1>2. CountsExact
  BY <1>1, FS_EmptySet DEF Init, CountsExact
<1>3. Typed /\ CallsTyped /\ MutualExclusion
  BY ThreadAssumption DEF Init, Fifo!Init, Typed, CallsTyped, MutualExclusion, Thread
<1>4. NumberBounded
  BY CapacityAssumption DEF Init, Fifo!Init, NumberBounded
<1>5. ResultPending
  BY DEF Init, ResultPending
<1> QED BY <1>2, <1>3, <1>4, <1>5 DEF IInv

LEMMA CallIInv ==
    ASSUME IInv, NEW t \in Thread, NEW parameters, NEW block \in BOOLEAN,
           t \in Producer => parameters \in Batch, t \in Consumer => parameters \in Request,
           Call(t, parameters, block)
    PROVE  IInv'
<1>1. /\ Typed /\ CallsTyped /\ MutualExclusion /\ CountsExact /\ NumberBounded
      /\ ResultPending
      /\ pc[t] = "out" /\ UNCHANGED <<queue, result, mutex, counts>>
  BY DEF IInv, Call
<1>2. Moves(t, "locking")
  BY <1>1, GoMoves DEF Call, States
<1>3. MutualExclusion' /\ mutex' \in Thread \cup {Nobody}
  BY <1>1, <1>2, StaysOutside DEF States
<1>4. CountsExact'
  BY <1>1, <1>2, CountsKept
<1>5. /\ call' = [call EXCEPT ![t] = parameters]
      /\ may_wait' = [may_wait EXCEPT ![t] = block]
  BY DEF Call
<1>6. CallsTyped'
  <2>1. Producer \subseteq Thread /\ Consumer \subseteq Thread
    BY DEF Thread
  <2> QED BY <1>1, <1>2, <1>5, <2>1 DEF Typed, CallsTyped, Moves
<1>7. Typed'
  <2>1. parameters \in Batch \cup Request
    BY DEF Thread
  <2> QED BY <1>1, <1>2, <1>3, <1>5, <2>1 DEF Typed, Moves, States
<1>8. ResultPending'
  <2>1. \A u \in Thread \ {t} : call'[u] = call[u]
    BY <1>1, <1>5 DEF Typed
  <2> QED BY <1>1, <1>2, <2>1, PendingKept
<1> QED BY <1>1, <1>3, <1>4, <1>6, <1>7, <1>8 DEF IInv, NumberBounded

LEMMA LockIInv ==
    ASSUME IInv, NEW t \in Thread, Lock(t)
    PROVE  IInv'
<1>1. /\ Typed /\ CallsTyped /\ MutualExclusion /\ CountsExact /\ NumberBounded
      /\ pc[t] = "locking" /\ mutex = Nobody /\ mutex' = t
      /\ result' = Begun(t)
      /\ UNCHANGED <<queue, call, may_wait, counts>>
  BY DEF IInv, Lock
<1>2. Moves(t, "locked")
  BY <1>1, GoMoves DEF Lock, States
<1>3. MutualExclusion' /\ mutex' \in Thread \cup {Nobody}
  BY <1>1, <1>2, EntersCritical
<1>4. CountsExact'
  BY <1>1, <1>2, CountsKept
<1>5. CallsTyped'
  BY <1>1, <1>2, CallsKept
<1>6. ResultPending'
  BY <1>1, <1>3, PendingBegins
<1> QED BY <1>1, <1>2, <1>3, <1>4, <1>5, <1>6 DEF IInv, NumberBounded, Typed, Moves, States

LEMMA RelockIInv ==
    ASSUME IInv, NEW t \in Thread, Relock(t)
    PROVE  IInv'
<1>1. /\ Typed /\ CallsTyped /\ MutualExclusion /\ CountsExact /\ NumberBounded
      /\ pc[t] = "awake" /\ mutex = Nobody /\ mutex' = t
      /\ result' = Begun(t)
      /\ UNCHANGED <<queue, call, may_wait>>
      /\ Uncount(t)
  BY DEF IInv, Relock, MutexFree
<1>2. Moves(t, "locked")
  BY <1>1, GoMoves DEF Relock, States
<1>3. MutualExclusion' /\ mutex' \in Thread \cup {Nobody}
  BY <1>1, <1>2, EntersCritical
<1>4. CountsExact'
  <2>1. Producer \in SUBSET Thread /\ Consumer \in SUBSET Thread
    BY DEF Thread
  <2>2. /\ Waiting(Producer)' = Waiting(Producer) \ {t}
        /\ Waiting(Consumer)' = Waiting(Consumer) \ {t}
    BY <1>1, <1>2, <2>1, WaitingShrinks
  <2>3. /\ t \in Producer <=> t \in Waiting(Producer)
        /\ t \in Consumer <=> t \in Waiting(Consumer)
        /\ t \in Producer <=> t \notin Consumer
    BY <1>1, ThreadAssumption DEF Waiting, Thread
  <2>4. /\ Cardinality(Waiting(Producer) \ {t}) =
              IF t \in Waiting(Producer) THEN Cardinality(Waiting(Producer)) - 1
                                         ELSE Cardinality(Waiting(Producer))
        /\ Cardinality(Waiting(Consumer) \ {t}) =
              IF t \in Waiting(Consumer) THEN Cardinality(Waiting(Consumer)) - 1
                                         ELSE Cardinality(Waiting(Consumer))
    BY <2>1, WaitingFinite, FS_RemoveElement
  <2> QED BY <1>1, <2>2, <2>3, <2>4 DEF CountsExact, Uncount
<1>5. CallsTyped'
  BY <1>1, <1>2, CallsKept
<1>6. ResultPending'
  BY <1>1, <1>3, PendingBegins
<1> QED BY <1>1, <1>2, <1>3, <1>4, <1>5, <1>6 DEF IInv, NumberBounded, Typed, Moves, States

LEMMA WakeIInv ==
    ASSUME IInv, NEW t \in Thread, Expire(t) \/ WakeSpuriously(t)
    PROVE  IInv'
<1>1. /\ Typed /\ CallsTyped /\ MutualExclusion /\ CountsExact /\ NumberBounded
      /\ pc[t] \in {"asleep", "awake"}
      /\ ResultPending
      /\ UNCHANGED <<queue, result, mutex, call, counts>>
      /\ UNCHANGED may_wait \/ may_wait' = [may_wait EXCEPT ![t] = FALSE]
  BY DEF IInv, Expire, WakeSpuriously
<1>2. Moves(t, "awake")
  BY <1>1, GoMoves DEF Expire, WakeSpuriously, States
<1>3. MutualExclusion' /\ mutex' \in Thread \cup {Nobody}
  BY <1>1, <1>2, StaysOutside DEF States
<1>4. CountsExact'
  BY <1>1, <1>2, CountsKept
<1>5. CallsTyped' /\ may_wait' \in [Thread -> BOOLEAN]
  BY <1>1, <1>2, CallsKept
<1>6. ResultPending'
  BY <1>1, <1>2, PendingKept
<1> QED BY <1>1, <1>2, <1>3, <1>4, <1>5, <1>6 DEF IInv, NumberBounded, Typed, Moves, States

StartsToWait(t) == (t \in Producer /\ PutWait(t)) \/ (t \in Consumer /\ GetWait(t))

(* A thread that is about to wait is counted before it sleeps. *)
LEMMA WaitIInv ==
    ASSUME IInv, NEW t \in Thread, StartsToWait(t)
    PROVE  IInv'
<1>1. /\ Typed /\ CallsTyped /\ MutualExclusion /\ CountsExact /\ NumberBounded
      /\ ResultPending
      /\ pc[t] = "locked" /\ Unlock
      /\ UNCHANGED <<queue, result, call, may_wait>>
  BY DEF IInv, StartsToWait, PutWait, GetWait
<1>2. Moves(t, "asleep")
  <2>1. Consumer \in SUBSET Thread /\ "asleep" \in States
    BY DEF Thread, States
  <2>2. SignalAndGo(Consumer, t, "asleep") \/ Go(t, "asleep")
    BY DEF StartsToWait, PutWait, GetWait
  <2> QED BY <1>1, <2>1, <2>2, GoMoves, SignalMoves
<1>3. MutualExclusion' /\ mutex' \in Thread \cup {Nobody}
  BY <1>1, <1>2, LeavesCritical
<1>4. CountsExact'
  <2>1. Producer \in SUBSET Thread /\ Consumer \in SUBSET Thread
    BY DEF Thread
  <2>2. /\ Waiting(Producer)' = IF t \in Producer THEN Waiting(Producer) \cup {t}
                                                  ELSE Waiting(Producer)
        /\ Waiting(Consumer)' = IF t \in Consumer THEN Waiting(Consumer) \cup {t}
                                                  ELSE Waiting(Consumer)
    BY <1>1, <1>2, <2>1, WaitingGrows
  <2>3. /\ t \notin Waiting(Producer) /\ t \notin Waiting(Consumer)
        /\ t \in Producer <=> t \notin Consumer
    BY <1>1, ThreadAssumption DEF Waiting, Thread
  <2>4. /\ Cardinality(Waiting(Producer) \cup {t}) = Cardinality(Waiting(Producer)) + 1
        /\ Cardinality(Waiting(Consumer) \cup {t}) = Cardinality(Waiting(Consumer)) + 1
    BY <2>1, <2>3, WaitingFinite, FS_AddElement
  <2>5. CASE t \in Producer
    <3>1. /\ not_full_n_waiters' = not_full_n_waiters + 1
          /\ not_empty_n_waiters' = not_empty_n_waiters
      BY <2>3, <2>5 DEF StartsToWait, PutWait
    <3> QED BY <1>1, <2>2, <2>3, <2>4, <2>5, <3>1 DEF CountsExact
  <2>6. CASE t \in Consumer
    <3>1. /\ not_empty_n_waiters' = not_empty_n_waiters + 1
          /\ not_full_n_waiters' = not_full_n_waiters
      BY <2>3, <2>6 DEF StartsToWait, GetWait
    <3> QED BY <1>1, <2>2, <2>3, <2>4, <2>6, <3>1 DEF CountsExact
  <2> QED BY <2>5, <2>6 DEF Thread
<1>5. CallsTyped'
  BY <1>1, <1>2, CallsKept
<1>6. ResultPending'
  BY <1>1, <1>2, PendingKept
<1> QED BY <1>1, <1>2, <1>3, <1>4, <1>5, <1>6 DEF IInv, NumberBounded, Typed, Moves, States

(* A call that returns leaves a queue of messages, not more than maxsize.  *)
LEMMA ReturnIInv ==
    ASSUME IInv, NEW t \in Thread, NEW reply, pc[t] = "locked", Return(t, reply),
           Moves(t, "out"), UNCHANGED counts,
           queue' \in Seq(Message), Len(queue') <= maxsize
    PROVE  IInv'
<1>1. /\ Typed /\ CallsTyped /\ MutualExclusion /\ CountsExact /\ Unlock
      /\ call' = [call EXCEPT ![t] = NoCall]
      /\ may_wait' = [may_wait EXCEPT ![t] = FALSE]
  BY DEF IInv, Return
<1>2. MutualExclusion' /\ mutex' \in Thread \cup {Nobody}
  BY <1>1, LeavesCritical
<1>3. CountsExact'
  BY <1>1, CountsKept
<1>4. /\ CallsTyped'
      /\ call' \in [Thread -> Batch \cup Request \cup {NoCall}]
      /\ may_wait' \in [Thread -> BOOLEAN]
  BY <1>1, CallsKept
<1>5. ResultPending'
  BY <1>1, <1>2, ThreadAssumption DEF Unlock, MutualExclusion, ResultPending
<1> QED BY <1>2, <1>3, <1>4, <1>5 DEF IInv, NumberBounded, Typed, Moves, States

LEMMA FullOrEmptyIInv ==
    ASSUME IInv, NEW t \in Thread, PutFull(t) \/ GetEmpty(t)
    PROVE  IInv'
<1>1. /\ pc[t] = "locked" /\ UNCHANGED <<queue, counts>> /\ Go(t, "out")
      /\ Return(t, Fifo!PutReply("Q_FULL")) \/ Return(t, Fifo!EmptyReply)
  BY DEF PutFull, GetEmpty
<1>2. Moves(t, "out")
  BY <1>1, GoMoves DEF IInv, States
<1>3. queue' \in Seq(Message) /\ Len(queue') <= maxsize
  BY <1>1 DEF IInv, Typed, NumberBounded
<1> QED BY <1>1, <1>2, <1>3, ReturnIInv

LEMMA PutWriteIInv ==
    ASSUME IInv, NEW p \in Producer, PutWrite(p)
    PROVE  IInv'
<1>1. /\ p \in Thread /\ pc[p] = "locked" /\ UNCHANGED counts
      /\ Return(p, Fifo!PutReply("Q_SUCCESS")) /\ WakeAfterPut(p)
      /\ queue' = queue \o call[p] /\ Fifo!Fits(queue, call[p])
  BY DEF PutWrite, Thread
<1>2. Moves(p, "out")
  BY <1>1, WakeMoves DEF IInv
<1>3. call[p] \in Seq(Message) /\ queue \in Seq(Message)
  BY <1>1, BatchAssumption DEF IInv, Typed, CallsTyped
<1>4. queue' \in Seq(Message) /\ Len(queue') = Len(queue) + Len(call[p])
  BY <1>1, <1>3, ConcatProperties
<1>5. Len(queue') <= maxsize
  BY <1>1, <1>4 DEF Fifo!Fits, Fifo!can_fit
<1> QED BY <1>1, <1>2, <1>4, <1>5, ReturnIInv

LEMMA GetReadIInv ==
    ASSUME IInv, NEW c \in Consumer, GetRead(c)
    PROVE  IInv'
<1>1. /\ c \in Thread /\ pc[c] = "locked" /\ UNCHANGED counts
      /\ Return(c, Fifo!Reply(call[c], queue)) /\ WakeAfterGet(c)
      /\ queue' = Fifo!Rest(call[c], queue)
  BY DEF GetRead, Thread
<1>2. Moves(c, "out")
  BY <1>1, WakeMoves DEF IInv
<1>3. queue \in Seq(Message) /\ Len(queue) <= maxsize
  BY DEF IInv, Typed, NumberBounded
<1>4. queue' \in Seq(Message) /\ Len(queue') <= Len(queue)
  BY <1>1, <1>3, Fifo!RestIsSuffix
<1>5. Len(queue') <= maxsize
  BY <1>3, <1>4, CapacityAssumption
<1> QED BY <1>1, <1>2, <1>4, <1>5, ReturnIInv

LEMMA NextIInv ==
    ASSUME IInv, [Next]_vars
    PROVE  IInv'
<1>0. Producer \subseteq Thread /\ Consumer \subseteq Thread /\ Producer \cap Consumer = {}
  BY ThreadAssumption DEF Thread
<1>1. CASE NewCall
  <2>1. ASSUME NEW p \in Producer, NEW batch \in Batch, NEW block \in BOOLEAN,
               Call(p, batch, block)
        PROVE  IInv'
    BY <1>0, <2>1, CallIInv
  <2>2. ASSUME NEW c \in Consumer, NEW limits \in Request, NEW block \in BOOLEAN,
               Call(c, limits, block)
        PROVE  IInv'
    BY <1>0, <2>2, CallIInv
  <2> QED BY <1>1, <2>1, <2>2 DEF NewCall
<1>2. ASSUME NEW p \in Producer, QueuePut(p)
      PROVE  IInv'
  <2>1. p \in Thread
    BY <1>0
  <2>2. CASE PutFull(p)
    BY <2>1, <2>2, FullOrEmptyIInv
  <2>3. CASE PutWait(p)
    <3>1. StartsToWait(p)
      BY <2>3 DEF StartsToWait
    <3> QED BY <2>1, <3>1, WaitIInv
  <2>4. CASE PutWrite(p)
    BY <2>4, PutWriteIInv
  <2> QED BY <1>2, <2>2, <2>3, <2>4 DEF QueuePut
<1>3. ASSUME NEW c \in Consumer, QueueGet(c)
      PROVE  IInv'
  <2>1. c \in Thread
    BY <1>0
  <2>2. CASE GetEmpty(c)
    BY <2>1, <2>2, FullOrEmptyIInv
  <2>3. CASE GetWait(c)
    <3>1. StartsToWait(c)
      BY <2>3 DEF StartsToWait
    <3> QED BY <2>1, <3>1, WaitIInv
  <2>4. CASE GetRead(c)
    BY <2>4, GetReadIInv
  <2> QED BY <1>3, <2>2, <2>3, <2>4 DEF QueueGet
<1>4. ASSUME NEW t \in Thread, Lock(t) \/ Relock(t) \/ Expire(t) \/ WakeSpuriously(t)
      PROVE  IInv'
  BY <1>4, LockIInv, RelockIInv, WakeIInv
<1>5. CASE UNCHANGED vars
  BY <1>5 DEF vars, counts, IInv, Typed, CallsTyped, MutualExclusion, CountsExact,
              Waiting, NumberBounded, ResultPending, Begun
<1> QED BY <1>1, <1>2, <1>3, <1>4, <1>5 DEF Next

LEMMA Invariance == Spec => []IInv
<1>1. Init => IInv
  BY InitIInv
<1>2. IInv /\ [Next]_vars => IInv'
  BY NextIInv
<1> QED BY <1>1, <1>2, PTL DEF Spec

(* The types of the protocol's state hold; in particular no waiter count,  *)
(* which every wait decrements, ever goes negative.                        *)
THEOREM TypeCorrect == Spec => []TypeOK
<1>1. IInv => TypeOK
  <2> SUFFICES ASSUME IInv PROVE TypeOK
    OBVIOUS
  <2>1. Producer \in SUBSET Thread /\ Consumer \in SUBSET Thread
    BY DEF Thread
  <2>2. not_empty_n_waiters \in Nat /\ not_full_n_waiters \in Nat
    BY <2>1, WaitingFinite DEF IInv, CountsExact
  <2> QED BY <2>2 DEF IInv, Typed, TypeOK
<1> QED BY <1>1, Invariance, PTL

(* Between lock and unlock, also across the release inside the wait, there *)
(* is at most one thread.                                                  *)
THEOREM MutexCorrect == Spec => []MutualExclusion
<1>1. IInv => MutualExclusion
  BY DEF IInv
<1> QED BY <1>1, Invariance, PTL

(* The waiter counts are exact under any order of signals, timeouts and    *)
(* spurious wakeups.                                                       *)
THEOREM CountsCorrect == Spec => []CountsExact
<1>1. IInv => CountsExact
  BY DEF IInv
<1> QED BY <1>1, Invariance, PTL

(* However many producers pass the check of the capacity, the queue never  *)
(* holds more than maxsize messages.                                       *)
THEOREM NumberCorrect == Spec => []NumberBounded
<1>1. IInv => NumberBounded
  BY DEF IInv
<1> QED BY <1>1, Invariance, PTL
-----------------------------------------------------------------------------
(* The steps that touch the queue are those of FifoQueue, the others leave *)
(* the queue and the last result alone.                                    *)
LEMMA NextRefines ==
    ASSUME IInv, [Next]_vars
    PROVE  [Fifo!Next]_(Fifo!vars)
<1>0. Producer \cap Consumer = {}
  BY ThreadAssumption
<1>1. ASSUME NEW p \in Producer, QueuePut(p)
      PROVE  [Fifo!Next]_(Fifo!vars)
  <2>1. pc[p] = "locked" => call[p] \in Batch /\ result = Fifo!Putting(call[p])
    BY DEF IInv, CallsTyped, ResultPending, Begun, Thread
  <2>2. CASE PutFull(p)
    <3>1. call[p] \in Batch /\ Fifo!PutFull(call[p])
      BY <2>1, <2>2 DEF PutFull, Return, Fifo!PutFull
    <3> QED BY <3>1 DEF Fifo!Next
  <2>3. CASE PutWait(p)
    BY <2>3 DEF PutWait, Fifo!vars
  <2>4. CASE PutWrite(p)
    <3>1. call[p] \in Batch /\ Fifo!Put(call[p])
      BY <2>1, <2>4 DEF PutWrite, Return, Fifo!Put
    <3> QED BY <3>1 DEF Fifo!Next
  <2> QED BY <1>1, <2>2, <2>3, <2>4 DEF QueuePut
<1>2. ASSUME NEW c \in Consumer, QueueGet(c)
      PROVE  [Fifo!Next]_(Fifo!vars)
  <2>1. pc[c] = "locked" => call[c] \in Request /\ result = Fifo!Getting(call[c])
    BY <1>0 DEF IInv, CallsTyped, ResultPending, Begun, Thread
  <2>2. CASE GetEmpty(c)
    <3>1. call[c] \in Request /\ Fifo!GetEmpty(call[c])
      BY <2>1, <2>2 DEF GetEmpty, Return, Fifo!GetEmpty
    <3> QED BY <3>1 DEF Fifo!Next
  <2>3. CASE GetWait(c)
    BY <2>3 DEF GetWait, Fifo!vars
  <2>4. CASE GetRead(c)
    <3>1. call[c] \in Request /\ Fifo!Get(call[c])
      BY <2>1, <2>4 DEF GetRead, Return, Fifo!Get
    <3> QED BY <3>1 DEF Fifo!Next
  <2> QED BY <1>2, <2>2, <2>3, <2>4 DEF QueueGet
<1>3. CASE NewCall
  BY <1>3 DEF NewCall, Call, Fifo!vars
<1>4. ASSUME NEW t \in Thread, Lock(t) \/ Relock(t) \/ Expire(t) \/ WakeSpuriously(t)
      PROVE  [Fifo!Next]_(Fifo!vars)
  <2>1. CASE Lock(t) \/ Relock(t)
    <3>1. pc[t] # "out" /\ UNCHANGED queue /\ result' = Begun(t)
      BY <2>1 DEF Lock, Relock
    <3>2. CASE t \in Producer
      <4>1. call[t] \in Batch /\ Fifo!BeginPut(call[t])
        BY <3>1, <3>2 DEF IInv, CallsTyped, Begun, Fifo!BeginPut
      <4> QED BY <4>1 DEF Fifo!Next
    <3>3. CASE t \in Consumer
      <4>1. call[t] \in Request /\ Fifo!BeginGet(call[t])
        BY <1>0, <3>1, <3>3 DEF IInv, CallsTyped, Begun, Fifo!BeginGet
      <4> QED BY <4>1 DEF Fifo!Next
    <3> QED BY <3>2, <3>3 DEF Thread
  <2>2. CASE Expire(t) \/ WakeSpuriously(t)
    BY <2>2 DEF Expire, WakeSpuriously, Fifo!vars
  <2> QED BY <1>4, <2>1, <2>2
<1>5. CASE UNCHANGED vars
  BY <1>5 DEF vars, Fifo!vars
<1> QED BY <1>1, <1>2, <1>3, <1>4, <1>5 DEF Next

(* Any number of threads that lock, wait, wake and time out implement the  *)
(* atomic queue: each call that returns put or took its messages, or found *)
(* the queue full or empty, at one instant.                                *)
THEOREM ImplementsFifoQueue == Spec => IsFifoQueue
<1>1. Init => Fifo!Init
  BY DEF Init
<1>2. IInv /\ [Next]_vars => [Fifo!Next]_(Fifo!vars)
  BY NextRefines
<1> QED BY <1>1, <1>2, Invariance, PTL DEF Spec, Fifo!Spec, IsFifoQueue
-----------------------------------------------------------------------------
(* The half of WithinCapacity that is not about the number of messages. *)
BytesBounded == Fifo!Bytes(queue) <= max_size_bytes

(* The queue begins with no bytes in it. *)
LEMMA InitBytes == Init => BytesBounded
<1> SUFFICES ASSUME Init PROVE BytesBounded
  OBVIOUS
<1>1. queue \in Seq(Message) /\ Len(queue) = 0 /\ 0 \in 0..Len(queue)
  BY DEF Init, Fifo!Init
<1>2. Fifo!Sums(queue)[0] = 0
  BY <1>1, Fifo!SumsAt
<1> QED BY <1>1, <1>2, CapacityAssumption DEF BytesBounded, Fifo!Bytes

(* Of all steps only a put adds bytes, and it checked that they fit. *)
LEMMA NextBytes ==
    ASSUME IInv, BytesBounded, [Next]_vars
    PROVE  BytesBounded'
<1> queue \in Seq(Message)
  BY DEF IInv, Typed
<1>1. ASSUME NEW p \in Producer, PutWrite(p)
      PROVE  BytesBounded'
  <2>1. call[p] \in Seq(Message)
    BY <1>1, BatchAssumption DEF PutWrite, IInv, CallsTyped
  <2>2. queue' = queue \o call[p] /\ Fifo!Bytes(queue) + Fifo!Bytes(call[p]) <= max_size_bytes
    BY <1>1 DEF PutWrite, Fifo!Fits, Fifo!can_fit
  <2> QED BY <2>1, <2>2, MessagesSized, Fifo!BytesOfConcat DEF BytesBounded
<1>2. ASSUME NEW c \in Consumer, GetRead(c)
      PROVE  BytesBounded'
  <2>1. queue' = Fifo!Rest(call[c], queue)
    BY <1>2 DEF GetRead
  <2>2. Fifo!Rest(call[c], queue) \in Seq(Message)
    BY Fifo!RestIsSuffix
  <2>3. Fifo!Bytes(Fifo!Rest(call[c], queue)) \in Nat /\ Fifo!Bytes(queue) \in Nat
    BY <2>2, MessagesSized, Fifo!BytesTyped
  <2> QED BY <2>1, <2>3, MessagesSized, Fifo!RestTakesLess, CapacityAssumption DEF BytesBounded
<1>3. ASSUME UNCHANGED queue PROVE BytesBounded'
  BY <1>3 DEF BytesBounded
<1>4. \/ \E p \in Producer : PutWrite(p)
      \/ \E c \in Consumer : GetRead(c)
      \/ UNCHANGED queue
  <2>1. CASE NewCall
    BY <2>1 DEF NewCall, Call
  <2>2. ASSUME NEW p \in Producer, QueuePut(p) PROVE PutWrite(p) \/ UNCHANGED queue
    BY <2>2 DEF QueuePut, PutFull, PutWait
  <2>3. ASSUME NEW c \in Consumer, QueueGet(c) PROVE GetRead(c) \/ UNCHANGED queue
    BY <2>3 DEF QueueGet, GetEmpty, GetWait
  <2>4. ASSUME NEW t \in Thread, Lock(t) \/ Relock(t) \/ Expire(t) \/ WakeSpuriously(t)
        PROVE  UNCHANGED queue
    BY <2>4 DEF Lock, Relock, Expire, WakeSpuriously
  <2> QED BY <2>1, <2>2, <2>3, <2>4 DEF Next, vars
<1> QED BY <1>1, <1>2, <1>3, <1>4

(* Whatever batches are put and whatever gets leave in the buffer          *)
(* (queue_put, queue_get), the queue holds no more than it was made for.   *)
THEOREM CapacityCorrect == Spec => []WithinCapacity
<1>1. IInv /\ BytesBounded => WithinCapacity
  BY DEF IInv, NumberBounded, BytesBounded, WithinCapacity
<1> QED BY <1>1, InitBytes, NextBytes, Invariance, PTL DEF Spec
-----------------------------------------------------------------------------
(* The use of UniformQueue: no wakeup is lost where every put has one      *)
(* message and all messages have one size.                                 *)
WInv == IInv /\ BytesBounded /\ SomebodyIsUp

(* A get that finds messages takes one at least. *)
LEMMA GetTakes ==
    ASSUME RoomForOne, NEW q \in Seq(Message), q # <<>>, NEW limits \in Request
    PROVE  Fifo!Count(limits, q) \in 1..Len(q)
<1>1. q[1] \in Message
  BY MessagesSized, Fifo!FirstMessage
<1>2. /\ limits.max_messages_to_get \in Nat \ {0}
      /\ limits.max_bytes_to_get \in Nat \ {0}
      /\ HeaderSize + MsgSize(q[1]) <= limits.msg_buffer_size
  BY <1>1 DEF RoomForOne
<1>3. 0 < limits.max_messages_to_get /\ 0 < limits.max_bytes_to_get
  BY <1>2
<1> QED BY <1>2, <1>3, MessagesSized, Fifo!FirstTaken

(* The first messages take at least the bytes of one. *)
LEMMA SumsOfFrames ==
    ASSUME OneSize, NEW q \in Seq(Message), NEW m \in Message
    PROVE  \A n \in 1..Len(q) : Fifo!Sums(q)[n] >= HeaderSize + MsgSize(m)
<1> TAKE n \in 1..Len(q)
<1>1. /\ n \in 0..Len(q) /\ n # 0 /\ n - 1 \in 0..Len(q) /\ q[n] \in Message
  OBVIOUS
<1>2. Fifo!Sums(q)[n] = Fifo!Sums(q)[n - 1] + HeaderSize + MsgSize(q[n])
  BY <1>1, Fifo!SumsAt
<1>3. Fifo!Sums(q)[n - 1] \in Nat
  BY <1>1, MessagesSized, Fifo!SumsTyped
<1>4. MsgSize(q[n]) = MsgSize(m) /\ MsgSize(m) \in Nat /\ HeaderSize \in Nat
  BY <1>1, SizeAssumption DEF OneSize
<1> QED BY <1>2, <1>3, <1>4

(* Every batch takes the same room, so whether there is room does not      *)
(* depend on the batch; and it is not less than what queue_put looks for   *)
(* before it wakes another producer. *)
LEMMA BatchBytes ==
    ASSUME OneSize, NEW batch \in Batch, NEW m \in Message
    PROVE  /\ batch \in Seq(Message) /\ Len(batch) = 1
           /\ Fifo!Bytes(batch) = HeaderSize + MsgSize(m)
<1>1. batch \in Seq(Message) /\ Len(batch) = 1 /\ batch[1] \in Message
  <2>1. batch \in Seq(Message) /\ Len(batch) = 1
    BY BatchAssumption DEF OneSize
  <2> QED BY <2>1
<1>2. MsgSize(batch[1]) = MsgSize(m)
  BY <1>1 DEF OneSize
<1> QED BY <1>1, <1>2, MessagesSized, Fifo!BytesOfOne

LEMMA RoomForAll ==
    ASSUME OneSize, NEW q \in Seq(Message), Room(q)
    PROVE  /\ \A batch \in Batch : Fifo!Fits(q, batch)
           /\ Fifo!can_fit(q, MIN_MSG_SIZE, 1)
<1>1. PICK batch \in Batch : Fifo!Fits(q, batch)
  BY DEF Room
<1> DEFINE m == batch[1]
<1>2. m \in Message
  <2>1. batch \in Seq(Message) /\ Len(batch) = 1
    BY BatchAssumption DEF OneSize
  <2>2. 1 \in 1..Len(batch)
    BY <2>1
  <2>3. batch[1] \in Message
    BY <2>1, <2>2, ElementOfSeq, Zenon
  <2> QED BY <2>3
<1> HIDE DEF m
<1>3. /\ Fifo!Bytes(q) + (HeaderSize + MsgSize(m)) <= max_size_bytes
      /\ Len(q) + 1 <= maxsize
  BY <1>1, <1>2, BatchBytes DEF Fifo!Fits, Fifo!can_fit
<1>4. /\ Fifo!Bytes(q) \in Nat /\ HeaderSize \in Nat /\ max_size_bytes \in Nat
      /\ MsgSize(m) \in Nat /\ MsgSize(m) >= 1
  BY <1>2, MessagesSized, Fifo!BytesTyped, SizeAssumption, CapacityAssumption
  DEF OneSize
<1>5. \A b \in Batch : Fifo!Fits(q, b)
  BY <1>2, <1>3, BatchBytes DEF Fifo!Fits, Fifo!can_fit
<1>6. Fifo!can_fit(q, MIN_MSG_SIZE, 1)
  BY <1>3, <1>4 DEF Fifo!can_fit, MIN_MSG_SIZE
<1> QED BY <1>5, <1>6

(* Every get that takes messages makes room for a batch. *)
LEMMA RoomAfterGet ==
    ASSUME OneSize, NEW q \in Seq(Message), NEW limits, Fifo!Count(limits, q) > 0,
           Fifo!Bytes(q) <= max_size_bytes, Len(q) <= maxsize, Batch # {}
    PROVE  Room(Fifo!Rest(limits, q))
<1> DEFINE n == Fifo!Count(limits, q)
           r == Fifo!Rest(limits, q)
<1>1. PICK batch \in Batch : TRUE
  OBVIOUS
<1>2. n \in 1..Len(q) /\ n \in Nat /\ Len(q) \in Nat /\ q[1] \in Message
  BY Fifo!CountInRange
<1>3. Fifo!Bytes(q) = Fifo!Sums(q)[n] + Fifo!Bytes(r)
  BY MessagesSized, Fifo!BytesOfRest
<1>4. Fifo!Sums(q)[n] >= HeaderSize + MsgSize(q[1])
  BY <1>2, SumsOfFrames
<1>5. r \in Seq(Message)
  BY Fifo!RestIsSuffix
<1>6. Len(r) = Len(q) - n
  <2>1. \A k \in n + 1..Len(q) : q[k] \in Message
    BY <1>2
  <2> HIDE DEF n
  <2>2. Len(SubSeq(q, n + 1, Len(q))) = IF n + 1 <= Len(q) THEN Len(q) - (n + 1) + 1 ELSE 0
    BY <1>2, <2>1, SubSeqProperties
  <2>3. r = SubSeq(q, n + 1, Len(q))
    BY DEF Fifo!Rest, n
  <2> QED BY <1>2, <2>2, <2>3
<1>7. Fifo!Bytes(batch) = HeaderSize + MsgSize(q[1]) /\ Len(batch) = 1
  BY <1>1, <1>2, BatchBytes
<1>8. /\ Fifo!Bytes(r) \in Nat /\ HeaderSize \in Nat /\ MsgSize(q[1]) \in Nat
      /\ Fifo!Sums(q)[n] \in Nat /\ Len(r) \in Nat /\ maxsize \in Nat /\ max_size_bytes \in Nat
  BY <1>2, <1>5, MessagesSized, Fifo!BytesTyped, Fifo!SumsTyped, SizeAssumption, CapacityAssumption
<1> HIDE DEF n, r
<1>9. Fifo!Bytes(r) + Fifo!Bytes(batch) <= max_size_bytes
  BY <1>3, <1>4, <1>7, <1>8
<1>10. Len(r) + Len(batch) <= maxsize
  BY <1>2, <1>6, <1>7, <1>8
<1>11. Fifo!Fits(r, batch)
  BY <1>9, <1>10 DEF Fifo!Fits, Fifo!can_fit
<1> QED BY <1>11 DEF Room, r
-----------------------------------------------------------------------------
(* Who is up stays up, but for the thread that leaves.                     *)
LEMMA UpKept ==
    ASSUME Typed, NEW t \in Thread, NEW next, Moves(t, next), NEW threads \in SUBSET Thread,
           Up(threads),
           t \notin threads \/ next \in {"awake", "locked"} \/ pc[t] \notin {"awake", "locked"}
    PROVE  Up(threads)'
<1>1. PICK u \in threads : pc[u] \in {"awake", "locked"}
  BY DEF Up
<1>2. pc'[u] \in {"awake", "locked"}
  BY <1>1 DEF Moves
<1> QED BY <1>2 DEF Up

(* Nobody falls asleep but the thread that waits.                          *)
LEMMA AsleepShrinks ==
    ASSUME Typed, NEW t \in Thread, NEW next, Moves(t, next), NEW threads \in SUBSET Thread,
           t \notin threads \/ next # "asleep"
    PROVE  Asleep(threads)' \subseteq Asleep(threads)
BY DEF Asleep, Moves

(* A signal reaches somebody, or those it could reach are up already.      *)
LEMMA SignalRaises ==
    ASSUME Typed, NEW t \in Thread, pc[t] = "locked", NEW next,
           NEW threads \in SUBSET Thread, SignalAndGo(threads, t, next),
           Waiting(threads) # {}
    PROVE  Up(threads)'
<1>1. ASSUME NEW w \in Asleep(threads), pc' = [pc EXCEPT ![t] = next, ![w] = "awake"]
      PROVE  Up(threads)'
  <2>1. w \in threads /\ w \in Thread
    BY <1>1 DEF Asleep
  <2>2. pc'[w] = "awake"
    BY <1>1, <2>1 DEF Typed
  <2> QED BY <2>1, <2>2 DEF Up
<1>2. CASE Asleep(threads) = {} /\ pc' = [pc EXCEPT ![t] = next]
  <2>1. PICK w \in threads : pc[w] \in {"asleep", "awake"}
    BY DEF Waiting
  <2>2. pc[w] = "awake" /\ w # t /\ w \in Thread
    BY <1>2, <2>1 DEF Asleep
  <2>3. pc'[w] = "awake"
    BY <1>2, <2>2 DEF Typed
  <2> QED BY <2>1, <2>3 DEF Up
<1> QED BY <1>1, <1>2 DEF SignalAndGo

LEMMA Kinds ==
    /\ Producer \in SUBSET Thread /\ Consumer \in SUBSET Thread
    /\ \A p \in Producer : p \in Thread /\ p \notin Consumer
    /\ \A c \in Consumer : c \in Thread /\ c \notin Producer
BY ThreadAssumption DEF Thread

LEMMA CountsTell ==
    ASSUME CountsExact
    PROVE  /\ not_empty_n_waiters > 0 <=> Waiting(Consumer) # {}
           /\ not_full_n_waiters > 0 <=> Waiting(Producer) # {}
           /\ not_full_n_waiters # 0 <=> Waiting(Producer) # {}
<1>1. ASSUME NEW threads \in SUBSET Thread
      PROVE  Cardinality(Waiting(threads)) > 0 <=> Waiting(threads) # {}
  <2>1. IsFiniteSet(Waiting(threads)) /\ Cardinality(Waiting(threads)) \in Nat
    BY WaitingFinite
  <2>2. Cardinality(Waiting(threads)) = 0 <=> Waiting(threads) = {}
    BY <2>1, FS_EmptySet
  <2> QED BY <2>1, <2>2
<1>2. not_full_n_waiters \in Nat
  BY Kinds, WaitingFinite DEF CountsExact
<1> QED BY <1>1, <1>2, Kinds DEF CountsExact

LEMMA SleepersWait ==
    ASSUME NEW threads \in SUBSET Thread, Asleep(threads) # {}
    PROVE  Waiting(threads) # {}
BY DEF Asleep, Waiting
-----------------------------------------------------------------------------
LEMMA InitUp == Init => SomebodyIsUp
<1> SUFFICES ASSUME Init PROVE SomebodyIsUp
  OBVIOUS
<1>1. Asleep(Consumer) = {} /\ Asleep(Producer) = {}
  BY Kinds DEF Init, Asleep
<1> QED BY <1>1 DEF SomebodyIsUp

(* A step that neither touches the queue nor leaves it. *)
LEMMA QuietUp ==
    ASSUME WInv, NEW t \in Thread, NEW next, Moves(t, next), queue' = queue, next # "asleep",
           next \in {"awake", "locked"} \/ pc[t] \notin {"awake", "locked"}
    PROVE  SomebodyIsUp'
<1>1. Typed
  BY DEF WInv, IInv
<1>2. /\ Asleep(Consumer)' \subseteq Asleep(Consumer)
      /\ Asleep(Producer)' \subseteq Asleep(Producer)
  BY <1>1, Kinds, AsleepShrinks
<1>3. (Up(Consumer) => Up(Consumer)') /\ (Up(Producer) => Up(Producer)')
  BY <1>1, Kinds, UpKept
<1>4. Room(queue)' = Room(queue)
  BY DEF Room, Fifo!Fits, Fifo!can_fit
<1> QED BY <1>2, <1>3, <1>4 DEF WInv, SomebodyIsUp

(* A producer that finds no room. *)
LEMMA FullUp ==
    ASSUME OneSize, WInv, NEW p \in Producer, pc[p] = "locked", ~Fifo!Fits(queue, call[p]),
           NEW next, Moves(p, next), queue' = queue
    PROVE  SomebodyIsUp'
<1>1. Typed /\ queue \in Seq(Message) /\ call[p] \in Batch
  BY DEF WInv, IInv, Typed, CallsTyped
<1>2. ~Room(queue) /\ ~Room(queue)'
  <2>1. ~Room(queue)
    BY <1>1, RoomForAll
  <2> QED BY <2>1 DEF Room, Fifo!Fits, Fifo!can_fit
<1>3. Asleep(Consumer)' \subseteq Asleep(Consumer)
  BY <1>1, Kinds, AsleepShrinks
<1>4. Up(Consumer) => Up(Consumer)'
  BY <1>1, Kinds, UpKept
<1> QED BY <1>2, <1>3, <1>4 DEF WInv, SomebodyIsUp

(* A consumer that finds no message. *)
LEMMA EmptyUp ==
    ASSUME WInv, NEW c \in Consumer, queue = <<>>, NEW next, Moves(c, next), queue' = queue
    PROVE  SomebodyIsUp'
<1>1. Typed
  BY DEF WInv, IInv
<1>2. Room(queue)' = Room(queue)
  BY DEF Room, Fifo!Fits, Fifo!can_fit
<1>3. Asleep(Producer)' \subseteq Asleep(Producer)
  BY <1>1, Kinds, AsleepShrinks
<1>4. Up(Producer) => Up(Producer)'
  BY <1>1, Kinds, UpKept
<1> QED BY <1>2, <1>3, <1>4 DEF WInv, SomebodyIsUp

LEMMA PutWriteUp ==
    ASSUME OneSize, IInv, NEW p \in Producer, PutWrite(p)
    PROVE  SomebodyIsUp'
<1>1. /\ Typed /\ CountsExact /\ p \in Thread /\ pc[p] = "locked" /\ WakeAfterPut(p)
      /\ queue' = queue \o call[p] /\ call[p] \in Batch /\ queue \in Seq(Message)
  BY Kinds DEF IInv, Typed, CallsTyped, PutWrite
<1>2. Moves(p, "out")
  BY <1>1, WakeMoves
<1>3. queue' # <<>> /\ queue' \in Seq(Message)
  <2>1. call[p] \in Seq(Message) /\ Len(call[p]) = 1
    BY <1>1, BatchAssumption DEF OneSize
  <2>2. queue' \in Seq(Message) /\ Len(queue') = Len(queue) + 1 /\ Len(queue) \in Nat
    <3>1. /\ queue \o call[p] \in Seq(Message)
          /\ Len(queue \o call[p]) = Len(queue) + Len(call[p])
      BY <1>1, <2>1, ConcatProperties, Zenon
    <3>2. Len(queue) \in Nat
      BY <1>1
    <3> QED BY <1>1, <2>1, <3>1, <3>2
  <2>3. Len(queue') # 0
    BY <2>2
  <2> QED BY <2>2, <2>3
<1>4. /\ Asleep(Consumer)' \subseteq Asleep(Consumer)
      /\ Asleep(Producer)' \subseteq Asleep(Producer)
  BY <1>1, <1>2, Kinds, AsleepShrinks
<1>5. CASE Waiting(Consumer) # {}
  <2>1. SignalAndGo(Consumer, p, "out")
    BY <1>1, <1>5, CountsTell DEF WakeAfterPut
  <2>2. Up(Consumer)'
    BY <1>1, <1>5, <2>1, Kinds, SignalRaises
  <2> QED BY <1>3, <2>2 DEF SomebodyIsUp
<1>6. CASE Waiting(Consumer) = {}
  <2>1. Asleep(Consumer)' = {}
    BY <1>4, <1>6, Kinds, SleepersWait
  <2>2. ASSUME Asleep(Producer)' # {}, Room(queue')
        PROVE  Up(Producer)'
    <3>1. Waiting(Producer) # {}
      BY <1>4, <2>2, Kinds, SleepersWait
    <3>2. Fifo!can_fit(queue', MIN_MSG_SIZE, 1)
      BY <1>3, <2>2, RoomForAll
    <3>3. SignalAndGo(Producer, p, "out")
      BY <1>1, <1>6, <3>1, <3>2, CountsTell DEF WakeAfterPut
    <3> QED BY <1>1, <3>1, <3>3, Kinds, SignalRaises
  <2>3. Room(queue)' = Room(queue')
    BY DEF Room, Fifo!Fits, Fifo!can_fit
  <2> QED BY <2>1, <2>2, <2>3 DEF SomebodyIsUp
<1> QED BY <1>5, <1>6

LEMMA GetReadUp ==
    ASSUME OneSize, IInv, BytesBounded, NEW c \in Consumer, GetRead(c),
           Fifo!Count(call[c], queue) > 0
    PROVE  SomebodyIsUp'
<1>1. /\ Typed /\ CountsExact /\ c \in Thread /\ pc[c] = "locked" /\ WakeAfterGet(c)
      /\ queue' = Fifo!Rest(call[c], queue) /\ queue # <<>> /\ call[c] \in Request
      /\ queue \in Seq(Message)
  BY Kinds DEF IInv, Typed, CallsTyped, GetRead
<1>2. Moves(c, "out")
  BY <1>1, WakeMoves
<1>4. /\ Asleep(Consumer)' \subseteq Asleep(Consumer)
      /\ Asleep(Producer)' \subseteq Asleep(Producer)
  BY <1>1, <1>2, Kinds, AsleepShrinks
<1>5. Room(queue)' = Room(queue')
  BY DEF Room, Fifo!Fits, Fifo!can_fit
<1>6. CASE Waiting(Producer) # {}
  <2>1. SignalAndGo(Producer, c, "out")
    BY <1>1, <1>6, CountsTell DEF WakeAfterGet
  <2>2. Up(Producer)'
    BY <1>1, <1>6, <2>1, Kinds, SignalRaises
  <2>3. Room(queue')
    <3>1. Batch # {}
      <4>1. PICK w \in Producer : pc[w] \in {"asleep", "awake"}
        BY <1>6 DEF Waiting
      <4> QED BY <4>1 DEF IInv, CallsTyped
    <3>2. Fifo!Bytes(queue) <= max_size_bytes /\ Len(queue) <= maxsize
      BY DEF IInv, BytesBounded, NumberBounded
    <3> QED BY <1>1, <3>1, <3>2, RoomAfterGet
  <2> QED BY <1>5, <2>2, <2>3 DEF SomebodyIsUp
<1>7. CASE Waiting(Producer) = {}
  <2>1. Asleep(Producer)' = {}
    BY <1>4, <1>7, Kinds, SleepersWait
  <2>2. ASSUME Asleep(Consumer)' # {}, queue' # <<>>
        PROVE  Up(Consumer)'
    <3>1. Waiting(Consumer) # {}
      BY <1>4, <2>2, Kinds, SleepersWait
    <3>2. SignalAndGo(Consumer, c, "out")
      BY <1>1, <1>7, <2>2, <3>1, CountsTell DEF WakeAfterGet
    <3> QED BY <1>1, <3>1, <3>2, Kinds, SignalRaises
  <2> QED BY <2>1, <2>2 DEF SomebodyIsUp
<1> QED BY <1>6, <1>7
-----------------------------------------------------------------------------
LEMMA NextUp ==
    ASSUME Uniform, WInv, [Next]_vars
    PROVE  SomebodyIsUp'
<1> Typed
  BY DEF WInv, IInv
<1>1. ASSUME NEW t \in Thread, NEW parameters, NEW block, Call(t, parameters, block)
      PROVE  SomebodyIsUp'
  <2>1. Moves(t, "locking") /\ queue' = queue /\ pc[t] = "out"
    BY <1>1, GoMoves DEF Call, States
  <2> QED BY <2>1, QuietUp
<1>2. ASSUME NEW t \in Thread, Lock(t) \/ Relock(t)
      PROVE  SomebodyIsUp'
  <2>1. Moves(t, "locked") /\ queue' = queue
    BY <1>2, GoMoves DEF Lock, Relock, States
  <2> QED BY <2>1, QuietUp
<1>3. ASSUME NEW t \in Thread, Expire(t) \/ WakeSpuriously(t)
      PROVE  SomebodyIsUp'
  <2>1. Moves(t, "awake") /\ queue' = queue
    BY <1>3, GoMoves DEF Expire, WakeSpuriously, States
  <2> QED BY <2>1, QuietUp
<1>4. ASSUME NEW p \in Producer, QueuePut(p)
      PROVE  SomebodyIsUp'
  <2>1. CASE PutFull(p)
    <3>1. Moves(p, "out") /\ queue' = queue /\ pc[p] = "locked" /\ ~Fifo!Fits(queue, call[p])
      BY <2>1, Kinds, GoMoves DEF PutFull, States
    <3> QED BY <3>1, FullUp DEF Uniform
  <2>2. CASE PutWait(p)
    <3>1. pc[p] = "locked" /\ queue' = queue /\ ~Fifo!Fits(queue, call[p]) /\ p \in Thread
      BY <2>2, Kinds DEF PutWait
    <3>2. Moves(p, "asleep")
      BY <2>2, <3>1, Kinds, GoMoves, SignalMoves DEF PutWait, States
    <3> QED BY <3>1, <3>2, FullUp DEF Uniform
  <2> QED BY <1>4, <2>1, <2>2, PutWriteUp DEF QueuePut, WInv, Uniform
<1>5. ASSUME NEW c \in Consumer, QueueGet(c)
      PROVE  SomebodyIsUp'
  <2>1. CASE GetEmpty(c)
    <3>1. Moves(c, "out") /\ queue' = queue /\ queue = <<>>
      BY <2>1, Kinds, GoMoves DEF GetEmpty, States
    <3> QED BY <3>1, EmptyUp
  <2>2. CASE GetWait(c)
    <3>1. Moves(c, "asleep") /\ queue' = queue /\ queue = <<>>
      BY <2>2, Kinds, GoMoves DEF GetWait, States
    <3> QED BY <3>1, EmptyUp
  <2>3. CASE GetRead(c)
    <3>1. queue \in Seq(Message) /\ queue # <<>> /\ call[c] \in Request
      BY <2>3 DEF WInv, IInv, Typed, CallsTyped, GetRead
    <3>2. Fifo!Count(call[c], queue) \in 1..Len(queue)
      BY <3>1, GetTakes DEF Uniform
    <3>3. Fifo!Count(call[c], queue) > 0
      BY <3>1, <3>2
    <3> QED BY <2>3, <3>3, GetReadUp DEF WInv, Uniform
  <2> QED BY <1>5, <2>1, <2>2, <2>3 DEF QueueGet
<1>6. CASE UNCHANGED vars
  <2>1. UNCHANGED <<queue, pc>>
    BY <1>6 DEF vars
  <2> QED BY <2>1 DEF WInv, SomebodyIsUp, Asleep, Up, Room, Fifo!Fits, Fifo!can_fit
<1>7. CASE NewCall
  BY <1>1, <1>7, Kinds DEF NewCall
<1> QED BY <1>2, <1>3, <1>4, <1>5, <1>6, <1>7 DEF Next

(* Every signal is in the hands of somebody who is up, whatever wakes,     *)
(* times out or gets to the mutex first.                                   *)
THEOREM SignalsHandedOn == ASSUME Uniform PROVE Spec => []SomebodyIsUp
<1>1. Init => WInv
  BY InitIInv, InitBytes, InitUp DEF WInv
<1>2. WInv /\ [Next]_vars => WInv'
  BY NextIInv, NextBytes, NextUp DEF WInv
<1>3. WInv => SomebodyIsUp
  BY DEF WInv
<1> QED BY <1>1, <1>2, <1>3, PTL DEF Spec

(* So no consumer of queue_get is left asleep beside messages.             *)
THEOREM ConsumersServed == ASSUME Uniform PROVE Spec => []NoConsumerLeftAsleep
<1>1. SomebodyIsUp => NoConsumerLeftAsleep
  BY Kinds DEF SomebodyIsUp, NoConsumerLeftAsleep, Quiescent, Up, Asleep
<1> QED BY <1>1, SignalsHandedOn, PTL

(* And no producer of queue_put beside room for its message.               *)
THEOREM ProducersServed == ASSUME Uniform PROVE Spec => []NoProducerLeftAsleep
<1>1. IInv /\ SomebodyIsUp => NoProducerLeftAsleep
  <2> SUFFICES ASSUME IInv, SomebodyIsUp, Quiescent, NEW p \in Producer, pc[p] = "asleep",
                      Fifo!Fits(queue, call[p])
               PROVE  FALSE
    BY DEF NoProducerLeftAsleep
  <2>1. call[p] \in Batch
    BY DEF IInv, CallsTyped
  <2>2. Asleep(Producer) # {} /\ Room(queue)
    BY <2>1 DEF Asleep, Room
  <2>3. ~Up(Producer) /\ ~Up(Consumer)
    BY Kinds DEF Quiescent, Up
  <2> QED BY <2>2, <2>3 DEF SomebodyIsUp
<1> QED BY <1>1, SignalsHandedOn, Invariance, PTL
=============================================================================

--------------------------- MODULE QueueUseProofs ---------------------------
(***************************************************************************)
(* QueueSync among crashes and in one use or another.  For any number of   *)
(* threads, killed or not: safety is that of QueueSync, and nobody gets    *)
(* past a dead holder of the mutex.  And where threads of one kind alone   *)
(* wait, no wakeup is lost.                                                *)
(***************************************************************************)
EXTENDS QueueCrash, OneSidedQueue, QueueSyncProofs

(* What one live thread does is a step of QueueSync. *)
LEMMA StepIsNext ==
    ASSUME NEW t \in Thread, StepOf(t)
    PROVE  Next
<1>1. CASE CallBy(t)
  BY <1>1 DEF CallBy, Next, NewCall
<1>2. CASE Works(t)
  BY <1>2 DEF Works, Next
<1>3. CASE Lock(t) \/ Relock(t) \/ Expire(t) \/ WakeSpuriously(t)
  BY <1>3 DEF Next
<1> QED BY <1>1, <1>2, <1>3 DEF StepOf

LEMMA CrashStep == [CrashNext]_crashvars => [Next]_vars
<1> SUFFICES ASSUME [CrashNext]_crashvars PROVE [Next]_vars
  OBVIOUS
<1>1. ASSUME NEW t \in Thread, Kill(t) PROVE UNCHANGED vars
  BY <1>1 DEF Kill
<1>2. CASE UNCHANGED crashvars
  BY <1>2 DEF crashvars
<1> QED BY <1>1, <1>2, StepIsNext DEF CrashNext

(* Kill changes none of the variables of QueueSync. *)
LEMMA CrashesAddNothing == CrashSpec => Spec
<1>1. CrashInit => Init
  BY DEF CrashInit
<1> QED BY <1>1, CrashStep, PTL DEF CrashSpec, Spec

(* Whatever processes are killed in queue_put or queue_get, the queue      *)
(* stays within its capacity, the mutex has one holder, the waiter counts  *)
(* are those of the waiters, dead ones included, and every call acts on    *)
(* the queue at one instant.                                               *)
THEOREM CrashesKeepSafety ==
    CrashSpec => [](MutualExclusion /\ CountsExact /\ WithinCapacity) /\ IsFifoQueue
BY CrashesAddNothing, MutexCorrect, CountsCorrect, CapacityCorrect, ImplementsFifoQueue, PTL
-----------------------------------------------------------------------------
KilledTyped == killed \subseteq Mortal

LEMMA KilledAreMortal == CrashSpec => []KilledTyped
<1>1. CrashInit => KilledTyped
  BY DEF CrashInit, KilledTyped
<1>2. KilledTyped /\ [CrashNext]_crashvars => KilledTyped'
  BY DEF KilledTyped, CrashNext, crashvars, Kill, StepOf, Lives
<1> QED BY <1>1, <1>2, PTL DEF CrashSpec

LEMMA StepsAreWedged ==
    ASSUME IInv, KilledTyped, mutex \in killed, CrashNext
    PROVE  Wedged
<1>1. mutex \in Thread /\ mutex # Nobody
  BY MortalAssumption, ThreadAssumption DEF KilledTyped
<1>2. ASSUME NEW t \in Thread, Kill(t) PROVE Wedged
  BY <1>2 DEF Kill, vars, Wedged
<1>3. ASSUME NEW t \in Thread, StepOf(t) PROVE Wedged
  <2>1. t # mutex /\ pc[t] # "locked"
    <3>1. t \notin killed
      BY <1>3 DEF StepOf, Lives
    <3> QED BY <3>1 DEF IInv, MutualExclusion
  <2>2. ~Works(t)
    BY <2>1 DEF Works, QueuePut, QueueGet, PutFull, PutWait, PutWrite, GetEmpty, GetWait, GetRead
  <2>3. ~Lock(t) /\ ~Relock(t)
    BY <1>1 DEF Lock, Relock, MutexFree
  <2>4. CASE CallBy(t)
    <3>1. pc[t] = "out" /\ Go(t, "locking") /\ UNCHANGED <<queue, result, mutex>>
      BY <2>4 DEF CallBy, Call
    <3> QED BY <3>1 DEF Go, Wedged, IInv, Typed
  <2>5. CASE Expire(t) \/ WakeSpuriously(t)
    <3>1. Go(t, "awake") /\ UNCHANGED <<queue, result, mutex>>
      BY <2>5 DEF Expire, WakeSpuriously
    <3> QED BY <3>1 DEF Go, Wedged, IInv, Typed
  <2> QED BY <1>3, <2>2, <2>3, <2>4, <2>5 DEF StepOf
<1> QED BY <1>2, <1>3 DEF CrashNext

(* Once the holder of q->mutex is killed no call returns and the queue     *)
(* does not change any more: the mutex is not robust, and a timeout bounds *)
(* the wait on a condition variable, not the one for the mutex.            *)
THEOREM TheDeadBlockAll == CrashSpec => NobodyPassesTheDead
<1>1. IInv /\ KilledTyped /\ [CrashNext]_crashvars =>
         [(mutex \in killed) => Wedged]_crashvars
  BY StepsAreWedged
<1> QED BY <1>1, CrashesAddNothing, Invariance, KilledAreMortal, PTL
        DEF CrashSpec, NobodyPassesTheDead
-----------------------------------------------------------------------------
(* Where threads of one kind alone wait, nobody else can use up a signal,  *)
(* or be sent one: the signal is with a thread of the kind it is for.      *)
OnlyConsumersWait == \A p \in Producer : ~may_wait[p]
OnlyProducersWait == \A c \in Consumer : ~may_wait[c]
PutOf(some)       == \A p \in Producer : pc[p] # "out" => call[p] \in some

RoomFor(q) == \E batch \in batches : Fifo!Fits(q, batch)

ConsumerIsUp == Asleep(Consumer) # {} /\ queue # <<>> => Up(Consumer)
ProducerIsUp == Asleep(Producer) # {} /\ RoomFor(queue) => Up(Producer)

ConsumersAlone == /\ IInv /\ OnlyConsumersWait
                  /\ Waiting(Producer) = {} /\ ConsumerIsUp
ProducersAlone == /\ IInv /\ OnlyProducersWait /\ PutOf(batches)
                  /\ Waiting(Consumer) = {} /\ ProducerIsUp

LEMMA WaitersStayAway ==
    ASSUME Typed, NEW t \in Thread, NEW next, Moves(t, next), NEW threads \in SUBSET Thread,
           Waiting(threads) = {}, t \notin threads \/ next \notin {"asleep", "awake"}
    PROVE  Waiting(threads)' = {}
BY DEF Waiting, Moves

LEMMA InitAlone ==
    ASSUME Init
    PROVE  ConsumersAlone /\ ProducersAlone
<1>1. \A threads \in SUBSET Thread : Waiting(threads) = {} /\ Asleep(threads) = {}
  BY DEF Init, Waiting, Asleep
<1>2. OnlyConsumersWait /\ OnlyProducersWait /\ PutOf(batches)
  BY Kinds DEF Init, OnlyConsumersWait, OnlyProducersWait, PutOf
<1> QED BY <1>1, <1>2, Kinds, InitIInv
        DEF ConsumersAlone, ProducersAlone, ConsumerIsUp, ProducerIsUp

(* A step of a thread that is not of the kind that waits, or of one that   *)
(* neither falls asleep nor leaves, and that leaves the queue as it is.    *)
LEMMA OthersUp ==
    ASSUME Typed, NEW t \in Thread, NEW next, Moves(t, next),
           UNCHANGED <<queue, batches>>,
           NEW threads \in SUBSET Thread,
           \/ t \notin threads
           \/ next # "asleep" /\ (next \in {"awake", "locked"} \/ pc[t] \notin {"awake", "locked"})
    PROVE  /\ Asleep(threads)' \subseteq Asleep(threads)
           /\ Up(threads) => Up(threads)'
           /\ RoomFor(queue)' = RoomFor(queue)
<1>1. Asleep(threads)' \subseteq Asleep(threads)
  BY AsleepShrinks
<1>2. Up(threads) => Up(threads)'
  BY UpKept
<1>3. RoomFor(queue)' = RoomFor(queue)
  BY DEF RoomFor, Fifo!Fits, Fifo!can_fit
<1> QED BY <1>1, <1>2, <1>3

(* The steps of QueueSync by what they do to the queue and to who waits.   *)
Quiet(t, next) ==
    /\ Moves(t, next) /\ queue' = queue
    /\ \/ next = "locking" /\ pc[t] = "out"
       \/ next = "locked"
       \/ next = "awake" /\ pc[t] \in {"asleep", "awake"}

LEMMA StepKinds ==
    ASSUME IInv, [Next]_vars
    PROVE  \/ \E t \in Thread, next \in States : Quiet(t, next)
           \/ \E p \in Producer : QueuePut(p)
           \/ \E c \in Consumer : QueueGet(c)
           \/ UNCHANGED vars
<1> Typed
  BY DEF IInv
<1>1. ASSUME NEW t \in Thread, NEW parameters, NEW block, Call(t, parameters, block)
      PROVE  \E u \in Thread, next \in States : Quiet(u, next)
  <2>1. "locking" \in States /\ Quiet(t, "locking")
    BY <1>1, GoMoves DEF Call, States, Quiet
  <2> QED BY <2>1
<1>2. ASSUME NEW t \in Thread, Lock(t) \/ Relock(t)
      PROVE  "locked" \in States /\ Quiet(t, "locked")
  BY <1>2, GoMoves DEF Lock, Relock, States, Quiet
<1>3. ASSUME NEW t \in Thread, Expire(t) \/ WakeSpuriously(t)
      PROVE  "awake" \in States /\ Quiet(t, "awake")
  BY <1>3, GoMoves DEF Expire, WakeSpuriously, States, Quiet
<1>4. CASE NewCall
  BY <1>1, <1>4, Kinds DEF NewCall
<1> QED BY <1>2, <1>3, <1>4 DEF Next

LEMMA QuietOthers ==
    ASSUME Typed, NEW t \in Thread, NEW next \in States, Quiet(t, next),
           UNCHANGED batches, NEW threads \in SUBSET Thread
    PROVE  /\ Asleep(threads)' \subseteq Asleep(threads)
           /\ Up(threads) => Up(threads)'
           /\ RoomFor(queue)' = RoomFor(queue)
           /\ Waiting(threads) = {} => Waiting(threads)' = {}
<1>1. /\ Moves(t, next) /\ queue' = queue /\ next # "asleep"
      /\ next \in {"awake", "locked"} \/ pc[t] \notin {"awake", "locked"}
  BY DEF Quiet
<1>2. Waiting(threads) = {} => t \notin threads \/ next \notin {"asleep", "awake"}
  BY DEF Quiet, Waiting
<1> QED BY <1>1, <1>2, OthersUp, WaitersStayAway

(* A consumer that waits is woken by every put and by every get that       *)
(* leaves messages, since no producer is counted.                          *)
LEMMA NextConsumersAlone ==
    ASSUME ConsumersAlone, UNCHANGED batches, [Next /\ OnlyConsumersWait']_vars
    PROVE  ConsumersAlone'
<1>1. /\ Typed /\ CountsExact /\ OnlyConsumersWait /\ Waiting(Producer) = {}
      /\ ConsumerIsUp /\ IInv
  BY DEF ConsumersAlone, IInv
<1>2. IInv' /\ OnlyConsumersWait'
  BY <1>1, NextIInv DEF OnlyConsumersWait, vars
<1>3. not_full_n_waiters = 0
  BY <1>1, FS_EmptySet DEF CountsExact
<1>4. ASSUME NEW t \in Thread, NEW next \in States, Quiet(t, next)
      PROVE  Waiting(Producer)' = {} /\ ConsumerIsUp'
  BY <1>1, <1>4, Kinds, QuietOthers DEF ConsumerIsUp, Quiet
<1>5. ASSUME NEW p \in Producer, QueuePut(p)
      PROVE  Waiting(Producer)' = {} /\ ConsumerIsUp'
  <2>1. p \in Thread /\ p \notin Consumer /\ ~may_wait[p] /\ pc[p] = "locked"
    BY <1>1, <1>5, Kinds DEF OnlyConsumersWait, QueuePut, PutFull, PutWait, PutWrite
  <2>2. PutFull(p) \/ PutWrite(p)
    BY <1>5, <2>1 DEF QueuePut, PutWait
  <2>3. Moves(p, "out")
    BY <1>1, <2>1, <2>2, GoMoves, WakeMoves DEF PutFull, PutWrite, States
  <2>4. Waiting(Producer)' = {}
    BY <1>1, <2>1, <2>3, Kinds, WaitersStayAway
  <2>5. CASE PutFull(p)
    <3>1. queue' = queue
      BY <2>5 DEF PutFull
    <3> QED BY <1>1, <2>1, <2>3, <2>4, <3>1, Kinds, OthersUp DEF ConsumerIsUp
  <2>6. CASE PutWrite(p)
    <3>1. WakeAfterPut(p)
      BY <2>6 DEF PutWrite
    <3>2. ASSUME Asleep(Consumer)' # {} PROVE Up(Consumer)'
      <4>1. Waiting(Consumer) # {}
        BY <1>1, <2>1, <2>3, <3>2, Kinds, AsleepShrinks, SleepersWait
      <4>2. SignalAndGo(Consumer, p, "out")
        BY <1>1, <3>1, <4>1, CountsTell DEF WakeAfterPut
      <4> QED BY <1>1, <2>1, <4>1, <4>2, Kinds, SignalRaises
    <3> QED BY <2>4, <3>2 DEF ConsumerIsUp
  <2> QED BY <2>2, <2>5, <2>6
<1>6. ASSUME NEW c \in Consumer, QueueGet(c)
      PROVE  Waiting(Producer)' = {} /\ ConsumerIsUp'
  <2>1. c \in Thread /\ c \notin Producer /\ pc[c] = "locked"
    BY <1>6, Kinds DEF QueueGet, GetEmpty, GetWait, GetRead
  <2>2. CASE GetEmpty(c) \/ GetWait(c)
    <3>1. Moves(c, "out") \/ Moves(c, "asleep")
      BY <1>1, <2>1, <2>2, GoMoves DEF GetEmpty, GetWait, States
    <3>2. queue' = <<>>
      BY <2>2 DEF GetEmpty, GetWait
    <3> QED BY <1>1, <2>1, <3>1, <3>2, Kinds, WaitersStayAway DEF ConsumerIsUp
  <2>3. CASE GetRead(c)
    <3>1. WakeAfterGet(c)
      BY <2>3 DEF GetRead
    <3>2. Moves(c, "out")
      BY <1>1, <2>1, <3>1, WakeMoves
    <3>3. ASSUME Asleep(Consumer)' # {}, queue' # <<>> PROVE Up(Consumer)'
      <4>1. Waiting(Consumer) # {}
        BY <1>1, <2>1, <3>2, <3>3, Kinds, AsleepShrinks, SleepersWait
      <4>2. SignalAndGo(Consumer, c, "out")
        BY <1>1, <1>3, <3>1, <3>3, <4>1, CountsTell DEF WakeAfterGet
      <4> QED BY <1>1, <2>1, <4>1, <4>2, Kinds, SignalRaises
    <3>4. Waiting(Producer)' = {}
      BY <1>1, <2>1, <3>2, Kinds, WaitersStayAway
    <3> QED BY <3>3, <3>4 DEF ConsumerIsUp
  <2> QED BY <1>6, <2>2, <2>3 DEF QueueGet
<1>7. ASSUME UNCHANGED vars
      PROVE  Waiting(Producer)' = {} /\ ConsumerIsUp'
  BY <1>1, <1>7 DEF vars, ConsumerIsUp, Waiting, Asleep, Up
<1>8. Waiting(Producer)' = {} /\ ConsumerIsUp'
  BY <1>1, <1>4, <1>5, <1>6, <1>7, StepKinds
<1> QED BY <1>2, <1>8 DEF ConsumersAlone

(* Where batches take the same room, there is room for all or for none;    *)
(* and if there is, there is what queue_put looks for before it wakes      *)
(* another producer.                                                       *)
LEMMA EqualRoom ==
    ASSUME EqualBatches, batches \subseteq Batch, NEW q \in Seq(Message), RoomFor(q)
    PROVE  /\ \A batch \in batches : Fifo!Fits(q, batch)
           /\ Fifo!can_fit(q, MIN_MSG_SIZE, 1)
<1>1. PICK b \in batches : Fifo!Fits(q, b)
  BY DEF RoomFor
<1>2. /\ Fifo!Bytes(q) + Fifo!Bytes(b) <= max_size_bytes
      /\ Len(q) + Len(b) <= maxsize
  BY <1>1 DEF Fifo!Fits, Fifo!can_fit
<1>3. \A batch \in batches : Fifo!Bytes(batch) = Fifo!Bytes(b) /\ Len(batch) = Len(b)
  BY <1>1 DEF EqualBatches
<1>4. /\ Fifo!Bytes(q) \in Nat /\ Len(q) \in Nat /\ MIN_MSG_SIZE \in Nat
      /\ max_size_bytes \in Nat /\ maxsize \in Nat
  BY MessagesSized, Fifo!BytesTyped, SizeAssumption, CapacityAssumption DEF MIN_MSG_SIZE
<1>5. b \in Seq(Message) /\ Fifo!Bytes(b) \in Nat /\ Len(b) \in Nat
  BY <1>1, BatchAssumption, MessagesSized, Fifo!BytesTyped
<1>6. Fifo!Bytes(b) >= MIN_MSG_SIZE /\ Len(b) >= 1
  BY <1>1 DEF EqualBatches
<1>7. \A batch \in batches : Fifo!Fits(q, batch)
  BY <1>2, <1>3 DEF Fifo!Fits, Fifo!can_fit
<1>8. Fifo!can_fit(q, MIN_MSG_SIZE, 1)
  BY <1>2, <1>4, <1>5, <1>6 DEF Fifo!can_fit
<1> QED BY <1>7, <1>8

(* A get that has no room for the first message takes none.                *)
LEMMA RestOfNone ==
    ASSUME NEW q \in Seq(Message), NEW limits, ~(Fifo!Count(limits, q) > 0)
    PROVE  Fifo!Rest(limits, q) = q
<1>1. Fifo!Count(limits, q) = 0
  BY Fifo!CountInRange
<1>2. SubSeq(q, 1, Len(q)) = q
  OBVIOUS
<1> QED BY <1>1, <1>2 DEF Fifo!Rest

(* A producer that waits is woken by every get that takes a message and by *)
(* every put that leaves room, since no consumer is counted.               *)
LEMMA NextProducersAlone ==
    ASSUME EqualBatches, batches \subseteq Batch, UNCHANGED batches, ProducersAlone,
           [Next /\ OnlyProducersWait' /\ PutOf(batches)']_vars
    PROVE  ProducersAlone'
<1>1. /\ Typed /\ CountsExact /\ OnlyProducersWait /\ Waiting(Consumer) = {}
      /\ ProducerIsUp /\ IInv /\ PutOf(batches)
  BY DEF ProducersAlone, IInv
<1>2. IInv' /\ OnlyProducersWait' /\ PutOf(batches)'
  BY <1>1, NextIInv DEF OnlyProducersWait, PutOf, vars
<1>3. not_empty_n_waiters = 0
  BY <1>1, FS_EmptySet DEF CountsExact
<1>4. ASSUME NEW t \in Thread, NEW next \in States, Quiet(t, next)
      PROVE  Waiting(Consumer)' = {} /\ ProducerIsUp'
  BY <1>1, <1>4, Kinds, QuietOthers DEF ProducerIsUp
<1>5. ASSUME NEW p \in Producer, QueuePut(p)
      PROVE  Waiting(Consumer)' = {} /\ ProducerIsUp'
  <2>1. /\ p \in Thread /\ p \notin Consumer /\ pc[p] = "locked" /\ queue \in Seq(Message)
        /\ call[p] \in batches
    BY <1>1, <1>5, Kinds DEF QueuePut, PutFull, PutWait, PutWrite, IInv, Typed, PutOf
  <2>2. CASE PutFull(p) \/ PutWait(p)
    <3>1. queue' = queue /\ ~Fifo!Fits(queue, call[p])
      BY <2>2 DEF PutFull, PutWait
    <3>2. Moves(p, "out") \/ Moves(p, "asleep")
      BY <1>1, <2>1, <2>2, Kinds, GoMoves, SignalMoves DEF PutFull, PutWait, States
    <3>3. Waiting(Consumer)' = {}
      BY <1>1, <2>1, <3>2, Kinds, WaitersStayAway
    <3>4. ~RoomFor(queue)
      BY <2>1, <3>1, EqualRoom
    <3>5. ~RoomFor(queue)'
      BY <3>1, <3>4 DEF RoomFor, Fifo!Fits, Fifo!can_fit
    <3> QED BY <3>3, <3>5 DEF ProducerIsUp
  <2>3. CASE PutWrite(p)
    <3>1. WakeAfterPut(p)
      BY <2>3 DEF PutWrite
    <3>2. Moves(p, "out")
      BY <1>1, <2>1, <3>1, WakeMoves
    <3>3. queue' \in Seq(Message)
      BY <1>2 DEF IInv, Typed
    <3>4. ASSUME Asleep(Producer)' # {}, RoomFor(queue') PROVE Up(Producer)'
      <4>1. Waiting(Producer) # {}
        BY <1>1, <2>1, <3>2, <3>4, Kinds, AsleepShrinks, SleepersWait
      <4>2. Fifo!can_fit(queue', MIN_MSG_SIZE, 1)
        BY <3>3, <3>4, EqualRoom
      <4>3. SignalAndGo(Producer, p, "out")
        BY <1>1, <1>3, <3>1, <4>1, <4>2, CountsTell DEF WakeAfterPut
      <4> QED BY <1>1, <2>1, <4>1, <4>3, Kinds, SignalRaises
    <3>5. Waiting(Consumer)' = {}
      BY <1>1, <2>1, <3>2, Kinds, WaitersStayAway
    <3>6. RoomFor(queue)' = RoomFor(queue')
      BY DEF RoomFor, Fifo!Fits, Fifo!can_fit
    <3> QED BY <3>4, <3>5, <3>6 DEF ProducerIsUp
  <2> QED BY <1>5, <2>2, <2>3 DEF QueuePut
<1>6. ASSUME NEW c \in Consumer, QueueGet(c)
      PROVE  Waiting(Consumer)' = {} /\ ProducerIsUp'
  <2>1. /\ c \in Thread /\ c \notin Producer /\ ~may_wait[c] /\ pc[c] = "locked"
        /\ queue \in Seq(Message)
    BY <1>1, <1>6, Kinds DEF OnlyProducersWait, QueueGet, GetEmpty, GetWait, GetRead, IInv, Typed
  <2>2. GetEmpty(c) \/ GetRead(c)
    BY <1>6, <2>1 DEF QueueGet, GetWait
  <2>3. Moves(c, "out")
    BY <1>1, <2>1, <2>2, GoMoves, WakeMoves DEF GetEmpty, GetRead, States
  <2>4. Waiting(Consumer)' = {}
    BY <1>1, <2>1, <2>3, Kinds, WaitersStayAway
  <2>5. CASE queue' = queue
    BY <1>1, <2>1, <2>3, <2>4, <2>5, Kinds, OthersUp DEF ProducerIsUp
  <2>6. CASE queue' # queue
    <3>1. GetRead(c)
      BY <2>2, <2>6 DEF GetEmpty
    <3>2. WakeAfterGet(c) /\ queue' = Fifo!Rest(call[c], queue)
      BY <3>1 DEF GetRead
    <3>3. Fifo!Count(call[c], queue) > 0
      BY <2>1, <2>6, <3>2, RestOfNone
    <3>4. ASSUME Asleep(Producer)' # {} PROVE Up(Producer)'
      <4>1. Waiting(Producer) # {}
        BY <1>1, <2>1, <2>3, <3>4, Kinds, AsleepShrinks, SleepersWait
      <4>2. SignalAndGo(Producer, c, "out")
        BY <1>1, <3>2, <3>3, <4>1, CountsTell DEF WakeAfterGet
      <4> QED BY <1>1, <2>1, <4>1, <4>2, Kinds, SignalRaises
    <3> QED BY <2>4, <3>4 DEF ProducerIsUp
  <2> QED BY <2>5, <2>6
<1>7. ASSUME UNCHANGED vars
      PROVE  Waiting(Consumer)' = {} /\ ProducerIsUp'
  BY <1>1, <1>7 DEF vars, ProducerIsUp, Waiting, Asleep, Up, RoomFor, Fifo!Fits, Fifo!can_fit
<1>8. Waiting(Consumer)' = {} /\ ProducerIsUp'
  BY <1>1, <1>4, <1>5, <1>6, <1>7, StepKinds
<1> QED BY <1>2, <1>8 DEF ProducersAlone

-----------------------------------------------------------------------------
UseInv == /\ batches \in Choices
          /\ patient = Consumer => ConsumersAlone
          /\ patient = Producer /\ EqualBatches => ProducersAlone

LEMMA UseInvariance == UseSpec => []UseInv
<1>1. UseInit => UseInv
  BY InitAlone DEF UseInit, UseInv
<1>2. ASSUME UseInv, [UseNext]_usevars PROVE UseInv'
  <2>1. UNCHANGED <<patient, batches>> /\ [Next /\ KeptTo']_vars
    BY <1>2 DEF UseNext, usevars
  <2>2. batches \subseteq Batch
    BY <1>2, ChoicesAssumption DEF UseInv
  <2>3. ASSUME patient = Consumer PROVE ConsumersAlone'
    <3>1. KeptTo' => OnlyConsumersWait'
      BY <2>1, <2>3, Kinds DEF KeptTo, OnlyConsumersWait
    <3> QED BY <1>2, <2>1, <2>3, <3>1, NextConsumersAlone DEF UseInv
  <2>4. ASSUME patient = Producer, EqualBatches PROVE ProducersAlone'
    <3>1. KeptTo' => OnlyProducersWait' /\ PutOf(batches)'
      BY <2>1, <2>4, Kinds DEF KeptTo, OnlyProducersWait, PutOf
    <3> QED BY <1>2, <2>1, <2>2, <2>4, <3>1, NextProducersAlone DEF UseInv
  <2>5. EqualBatches' => EqualBatches
    BY <2>1 DEF EqualBatches
  <2> QED BY <1>2, <2>1, <2>3, <2>4, <2>5 DEF UseInv
<1> QED BY <1>1, <1>2, PTL DEF UseSpec

(* Producers that put with put_nowait beside consumers that block: however *)
(* their batches differ, no consumer is left asleep beside messages.       *)
THEOREM ConsumersServedByPuts == UseSpec => []ConsumersServedAlone
<1>1. UseInv => ConsumersServedAlone
  BY Kinds DEF UseInv, ConsumersServedAlone, ConsumersAlone, ConsumerIsUp, NoConsumerLeftAsleep,
               Quiescent, Up, Asleep
<1> QED BY <1>1, UseInvariance, PTL

(* Producers that block beside consumers that get with get_nowait: where   *)
(* batches take the same room, none is left asleep beside room for its own.*)
THEOREM ProducersServedByGets == UseSpec => []ProducersServedAlone
<1>1. UseInv => ProducersServedAlone
  <2> SUFFICES ASSUME UseInv, patient = Producer, EqualBatches, Quiescent,
                      NEW p \in Producer, pc[p] = "asleep", Fifo!Fits(queue, call[p])
               PROVE  FALSE
    BY DEF ProducersServedAlone, NoProducerLeftAsleep
  <2>1. ProducersAlone
    BY DEF UseInv
  <2>2. call[p] \in batches
    BY <2>1 DEF ProducersAlone, PutOf
  <2>3. Asleep(Producer) # {} /\ RoomFor(queue)
    BY <2>2 DEF Asleep, RoomFor
  <2>4. ~Up(Producer)
    BY Kinds DEF Quiescent, Up
  <2> QED BY <2>1, <2>3, <2>4 DEF ProducersAlone, ProducerIsUp
<1> QED BY <1>1, UseInvariance, PTL
=============================================================================

--------------------------- MODULE PyQueueProofs ---------------------------
(***************************************************************************)
(* The receive buffers of get_many, for any sizes of messages, any number  *)
(* of consumers and any capacity: they stay within their bound and only    *)
(* grow, and the retries add nothing to what QueueSync allows.             *)
(***************************************************************************)
EXTENDS PyQueue, QueueSyncProofs

(* A consumer inside the queue asked for what fits its receive buffer.     *)
Asked == \A c \in Consumer : pc[c] # "out" =>
            \E n \in MaxMessages : call[c] = Limits(message_buffer[c], n)

PyTyped == /\ message_buffer \in [Consumer -> BufferSize]
           /\ retry \in [Consumer -> MaxMessages \cup {0}]
           /\ overtaken \in [Consumer -> BOOLEAN]

PyInv == IInv /\ BytesBounded /\ PyTyped /\ Asked
-----------------------------------------------------------------------------
(* What a get says it would have needed is queued; and when its buffer was *)
(* too small, that is more than it had.                                    *)
LEMMA ReplySize ==
    ASSUME NEW q \in Seq(Message), NEW limits, limits.msg_buffer_size \in Nat
    PROVE  LET reply == Fifo!Reply(limits, q)
           IN  /\ reply.messages_size \in Nat
               /\ reply.messages_size <= Fifo!Bytes(q)
               /\ reply.status = "Q_MSG_BUFFER_TOO_SMALL" =>
                     reply.messages_size > limits.msg_buffer_size
<1> DEFINE n == Fifo!Count(limits, q)
           small_ == Fifo!WantsMore(limits, q, n)
           reply == Fifo!Reply(limits, q)
           taken == IF small_ THEN n + 1 ELSE n
<1>1. n \in 0..Len(q) /\ Len(q) \in Nat /\ ~Fifo!TakesMore(limits, q, n)
  BY Fifo!CountInRange
<1>2. small_ => n < Len(q)
  BY DEF Fifo!WantsMore
<1>3. taken \in 0..Len(q)
  <2> HIDE DEF n, small_
  <2> QED BY <1>1, <1>2
<1>4. reply.messages_size = Fifo!Bytes(Fifo!Prefix(q, taken))
  BY DEF Fifo!Reply
<1>5. reply.status = "Q_MSG_BUFFER_TOO_SMALL" => small_
  BY DEF Fifo!Reply
<1>6. /\ Fifo!Bytes(Fifo!Prefix(q, taken)) \in Nat
      /\ Fifo!Bytes(Fifo!Prefix(q, taken)) <= Fifo!Bytes(q)
  BY <1>3, MessagesSized, Fifo!PrefixBytes
<1>7. ASSUME small_ PROVE Fifo!Bytes(Fifo!Prefix(q, taken)) > limits.msg_buffer_size
  <2>1. ~(Fifo!Bytes(Fifo!Prefix(q, n + 1)) <= limits.msg_buffer_size)
    BY <1>1, <1>7 DEF Fifo!TakesMore
  <2>2. taken = n + 1
    BY <1>7
  <2> HIDE DEF taken, n
  <2> QED BY <1>6, <2>1, <2>2
<1> HIDE DEF taken, small_, reply
<1>8. /\ reply.messages_size \in Nat /\ reply.messages_size <= Fifo!Bytes(q)
      /\ reply.status = "Q_MSG_BUFFER_TOO_SMALL" => reply.messages_size > limits.msg_buffer_size
  BY <1>4, <1>5, <1>6, <1>7
<1> QED BY <1>8 DEF reply

(* Half as much again is no less, and within the bound if that is.         *)
LEMMA HalfAsMuchAgain ==
    ASSUME NEW m \in Nat
    PROVE  /\ (m * 3) \div 2 \in Nat /\ (m * 3) \div 2 >= m
           /\ m <= max_size_bytes => (m * 3) \div 2 <= (3 * max_size_bytes) \div 2
BY CapacityAssumption
-----------------------------------------------------------------------------
(* A new buffer is within its bound, and as large as was asked for.        *)
LEMMA Reallocated ==
    ASSUME PyTyped, NEW c \in Consumer, NEW m \in Nat,
           m = INITIAL_RECV_BUFFER_SIZE \/ m <= (3 * max_size_bytes) \div 2,
           reallocate_msg_buffer(c, m)
    PROVE  /\ message_buffer' \in [Consumer -> BufferSize]
           /\ message_buffer'[c] >= m
           /\ message_buffer'[c] >= INITIAL_RECV_BUFFER_SIZE
           /\ \A d \in Consumer \ {c} : message_buffer'[d] = message_buffer[d]
<1> DEFINE new == IF m < INITIAL_RECV_BUFFER_SIZE THEN INITIAL_RECV_BUFFER_SIZE ELSE m
<1>1. INITIAL_RECV_BUFFER_SIZE \in Nat
  BY BufferAssumption
<1>2. new \in BufferSize /\ new >= m /\ new >= INITIAL_RECV_BUFFER_SIZE
  BY <1>1 DEF BufferSize
<1>3. message_buffer' = [message_buffer EXCEPT ![c] = new]
  BY DEF reallocate_msg_buffer
<1> HIDE DEF new
<1> QED BY <1>2, <1>3 DEF PyTyped

LEMMA BufferIsNat ==
    ASSUME NEW size \in BufferSize
    PROVE  size \in Nat
BY BufferAssumption DEF BufferSize

(* What the buffer grows to after a get that found it too small: there is  *)
(* room in it for what that get would have needed.                         *)
LEMMA Demanded ==
    ASSUME PyInv, NEW c \in Consumer, GetRead(c), TooSmall,
           reallocate_msg_buffer(c, DemandedSize)
    PROVE  /\ message_buffer' \in [Consumer -> BufferSize]
           /\ message_buffer'[c] > message_buffer[c]
           /\ message_buffer'[c] >= result'.messages_size
           /\ \A d \in Consumer \ {c} : message_buffer'[d] = message_buffer[d]
<1> DEFINE reply == Fifo!Reply(call[c], queue)
           m == reply.messages_size
<1>1. queue \in Seq(Message) /\ PyTyped /\ Fifo!Bytes(queue) <= max_size_bytes
  BY DEF PyInv, IInv, Typed, BytesBounded
<1>2. message_buffer[c] \in Nat /\ call[c].msg_buffer_size = message_buffer[c]
  <2>1. message_buffer[c] \in BufferSize
    BY <1>1 DEF PyTyped
  <2>2. pc[c] = "locked"
    BY DEF GetRead
  <2>3. PICK n \in MaxMessages : call[c] = Limits(message_buffer[c], n)
    BY <2>2 DEF PyInv, Asked
  <2> QED BY <2>1, <2>3, BufferIsNat DEF Limits
<1>3. result' = reply
  BY DEF GetRead, Return
<1>4. m \in Nat /\ m <= Fifo!Bytes(queue) /\ m > message_buffer[c]
  <2>1. reply.status = "Q_MSG_BUFFER_TOO_SMALL"
    BY <1>3 DEF TooSmall
  <2> HIDE DEF reply
  <2> QED BY <1>1, <1>2, <2>1, ReplySize DEF reply
<1>5. DemandedSize = (m * 3) \div 2
  BY <1>3 DEF DemandedSize
<1> HIDE DEF m
<1>6. Fifo!Bytes(queue) \in Nat
  BY <1>1, MessagesSized, Fifo!BytesTyped
<1>7. m <= max_size_bytes
  BY <1>1, <1>4, <1>6, CapacityAssumption
<1>8. /\ (m * 3) \div 2 \in Nat /\ (m * 3) \div 2 >= m
      /\ (m * 3) \div 2 <= (3 * max_size_bytes) \div 2
  BY <1>4, <1>7, HalfAsMuchAgain
<1>9. /\ message_buffer' \in [Consumer -> BufferSize]
      /\ message_buffer'[c] >= (m * 3) \div 2
      /\ \A d \in Consumer \ {c} : message_buffer'[d] = message_buffer[d]
  BY <1>1, <1>5, <1>8, Reallocated
<1>10. message_buffer'[c] \in Nat
  BY <1>9, BufferIsNat
<1>11. message_buffer'[c] > message_buffer[c] /\ message_buffer'[c] >= m
  BY <1>2, <1>4, <1>8, <1>9, <1>10
<1> QED BY <1>3, <1>9, <1>11 DEF m

(* The other consumers inside the queue go on asking for what they did.    *)
LEMMA AskedKept ==
    ASSUME Typed, Asked, NEW t \in Thread, NEW next, Moves(t, next),
           \A c \in Consumer \ {t} : call'[c] = call[c] /\ message_buffer'[c] = message_buffer[c],
           t \in Consumer =>
               \/ next = "out"
               \/ pc[t] # "out" /\ call'[t] = call[t] /\ message_buffer'[t] = message_buffer[t]
               \/ \E n \in MaxMessages : call'[t] = Limits(message_buffer'[t], n)
    PROVE  Asked'
<1> SUFFICES ASSUME NEW c \in Consumer, pc'[c] # "out"
             PROVE  \E n \in MaxMessages : call'[c] = Limits(message_buffer'[c], n)
  BY DEF Asked, Limits
<1>1. CASE c = t
  BY <1>1 DEF Moves, Asked
<1>2. CASE c # t
  <2>1. pc[c] # "out" /\ call'[c] = call[c] /\ message_buffer'[c] = message_buffer[c]
    BY <1>2 DEF Moves, Thread
  <2> QED BY <2>1 DEF Asked
<1> QED BY <1>1, <1>2
-----------------------------------------------------------------------------
(* What every step of the Python queue is to be shown to be and to keep.   *)
Grows == \A c \in Consumer : message_buffer'[c] >= message_buffer[c]

Good == [Next]_vars /\ PyTyped' /\ Asked' /\ Grows

LEMMA SameBuffers ==
    ASSUME PyTyped, UNCHANGED message_buffer
    PROVE  Grows
BY BufferIsNat DEF PyTyped, Grows

LEMMA InitPy == PyInit => PyInv
<1> SUFFICES ASSUME PyInit PROVE PyInv
  OBVIOUS
<1>1. IInv /\ BytesBounded
  BY InitIInv, InitBytes DEF PyInit
<1>2. PyTyped
  <2>1. 0 \in BufferSize
    BY CapacityAssumption DEF BufferSize
  <2> QED BY <2>1 DEF PyInit, PyTyped
<1>3. Asked
  BY Kinds DEF PyInit, Init, Asked
<1> QED BY <1>1, <1>2, <1>3 DEF PyInv

(* A call of queue_get, the first or a retry. *)
LEMMA QueueGetCalled ==
    ASSUME PyInv, NEW c \in Consumer, NEW n \in MaxMessages, NEW block \in BOOLEAN,
           message_buffer' \in [Consumer -> BufferSize],
           \A d \in Consumer \ {c} : message_buffer'[d] = message_buffer[d],
           QueueGetCall(c, n, block)
    PROVE  Next /\ Asked'
<1> DEFINE limits == Limits(message_buffer'[c], n)
<1>1. limits \in Request
  <2>1. message_buffer'[c] \in BufferSize
    OBVIOUS
  <2>2. limits \in [msg_buffer_size     : BufferSize,
                    max_messages_to_get : MaxMessages,
                    max_bytes_to_get    : {max_size_bytes}]
    BY <2>1 DEF Limits
  <2> QED BY <2>2, RequestAssumption
<1>2. Call(c, limits, block)
  BY DEF QueueGetCall
<1> HIDE DEF limits
<1>3. Next
  BY <1>1, <1>2 DEF Next, NewCall
<1>4. Typed /\ Asked /\ c \in Thread
  BY Kinds DEF PyInv, IInv
<1>5. Moves(c, "locking") /\ call' = [call EXCEPT ![c] = limits]
  BY <1>2, <1>4, GoMoves DEF Call, States
<1>6. call'[c] = limits /\ \A d \in Consumer \ {c} : call'[d] = call[d]
  BY <1>4, <1>5, Kinds DEF Typed
<1>7. Asked'
  BY <1>4, <1>5, <1>6, AskedKept DEF limits
<1> QED BY <1>3, <1>7

LEMMA GetManyGood ==
    ASSUME PyInv, NEW c \in Consumer, NEW n \in MaxMessages, NEW block \in BOOLEAN,
           get_many(c, n, block)
    PROVE  Good
<1>1. PyTyped /\ QueueGetCall(c, n, block) /\ UNCHANGED <<retry, overtaken>>
  BY DEF PyInv, get_many
<1>2. /\ message_buffer' \in [Consumer -> BufferSize] /\ Grows
      /\ \A d \in Consumer \ {c} : message_buffer'[d] = message_buffer[d]
  <2>1. CASE message_buffer[c] = 0
    <3>1. reallocate_msg_buffer(c, INITIAL_RECV_BUFFER_SIZE) /\ INITIAL_RECV_BUFFER_SIZE \in Nat
      BY <2>1, BufferAssumption DEF get_many
    <3>2. /\ message_buffer' \in [Consumer -> BufferSize]
          /\ message_buffer'[c] >= INITIAL_RECV_BUFFER_SIZE
          /\ \A d \in Consumer \ {c} : message_buffer'[d] = message_buffer[d]
      BY <1>1, <3>1, Reallocated
    <3>3. \A d \in Consumer : message_buffer[d] \in Nat /\ message_buffer'[d] \in Nat
      BY <1>1, <3>2, BufferIsNat DEF PyTyped
    <3>4. Grows
      BY <2>1, <3>1, <3>2, <3>3 DEF Grows
    <3> QED BY <3>2, <3>4
  <2>2. CASE message_buffer[c] # 0
    <3>1. UNCHANGED message_buffer
      BY <2>2 DEF get_many
    <3> QED BY <1>1, <3>1, SameBuffers DEF PyTyped
  <2> QED BY <2>1, <2>2
<1>3. Next /\ Asked'
  BY <1>1, <1>2, QueueGetCalled
<1>4. PyTyped'
  BY <1>1, <1>2 DEF PyTyped
<1> QED BY <1>2, <1>3, <1>4 DEF Good

LEMMA RetryGood ==
    ASSUME PyInv, NEW c \in Consumer, Retry(c)
    PROVE  Good
<1>1. /\ PyTyped /\ QueueGetCall(c, retry[c], FALSE) /\ UNCHANGED py
      /\ retry[c] \in MaxMessages
  BY DEF PyInv, PyTyped, Retry
<1>2. /\ UNCHANGED <<message_buffer, retry, overtaken>>
      /\ message_buffer' \in [Consumer -> BufferSize]
      /\ \A d \in Consumer \ {c} : message_buffer'[d] = message_buffer[d]
  BY <1>1 DEF py, PyTyped
<1>3. Next /\ Asked'
  BY <1>1, <1>2, QueueGetCalled
<1>4. PyTyped' /\ Grows
  BY <1>1, <1>2, SameBuffers DEF PyTyped
<1> QED BY <1>3, <1>4 DEF Good

(* A step of the C++ queue that leaves the Python one alone, and ends no   *)
(* get.                                                                    *)
LEMMA PlainGood ==
    ASSUME PyInv, NEW t \in Thread, NEW next, Moves(t, next), UNCHANGED py, Next,
           \A c \in Consumer \ {t} : call'[c] = call[c],
           t \in Consumer => pc[t] # "out" /\ call'[t] = call[t]
    PROVE  Good
<1>1. /\ UNCHANGED <<message_buffer, retry, overtaken>>
      /\ Typed /\ PyTyped /\ Asked
  BY DEF PyInv, IInv, py
<1>2. PyTyped' /\ Grows
  BY <1>1, SameBuffers DEF PyTyped
<1>3. Asked'
  BY <1>1, AskedKept
<1> QED BY <1>2, <1>3 DEF Good

LEMMA PutsGood ==
    ASSUME PyInv, NEW p \in Producer,
           \/ \E batch \in Batch, block \in BOOLEAN : put_many(p, batch, block)
           \/ PyQueuePut(p)
    PROVE  Good
<1>1. p \in Thread /\ p \notin Consumer /\ Typed /\ \A c \in Consumer : c \in Thread /\ c # p
  BY Kinds DEF PyInv, IInv
<1>2. ASSUME NEW batch \in Batch, NEW block \in BOOLEAN, put_many(p, batch, block)
      PROVE  Good
  <2>1. Call(p, batch, block) /\ UNCHANGED py
    BY <1>2 DEF put_many
  <2>2. Moves(p, "locking") /\ \A c \in Consumer \ {p} : call'[c] = call[c]
    BY <1>1, <2>1, GoMoves DEF Call, States, Typed
  <2>3. Next
    BY <2>1 DEF Next, NewCall
  <2> QED BY <1>1, <2>1, <2>2, <2>3, PlainGood
<1>3. ASSUME PyQueuePut(p)
      PROVE  Good
  <2>1. QueuePut(p) /\ UNCHANGED py /\ Next
    BY <1>3 DEF PyQueuePut, Next
  <2>2. \A c \in Consumer \ {p} : call'[c] = call[c]
    BY <1>1, <2>1 DEF QueuePut, PutFull, PutWait, PutWrite, Return, Typed
  <2>3. Moves(p, "out") \/ Moves(p, "asleep")
    <3>1. CASE PutFull(p)
      BY <1>1, <3>1, GoMoves DEF PutFull, States
    <3>2. CASE PutWait(p)
      <4>1. pc[p] = "locked" /\ (SignalAndGo(Consumer, p, "asleep") \/ Go(p, "asleep"))
        BY <3>2 DEF PutWait
      <4> QED BY <1>1, <4>1, Kinds, GoMoves, SignalMoves DEF States
    <3>3. CASE PutWrite(p)
      BY <1>1, <3>3, WakeMoves DEF PutWrite
    <3> QED BY <2>1, <3>1, <3>2, <3>3 DEF QueuePut
  <2> QED BY <1>1, <2>1, <2>2, <2>3, PlainGood
<1> QED BY <1>2, <1>3

LEMMA WaitsGood ==
    ASSUME PyInv, NEW t \in Thread, Waits(t)
    PROVE  Good
<1>1. Typed /\ UNCHANGED py /\ call' = call /\ pc[t] # "out" /\ Next
  BY DEF PyInv, IInv, Waits, Next, Lock, Relock, Expire, WakeSpuriously
<1>2. Moves(t, "locked") \/ Moves(t, "awake")
  BY <1>1, GoMoves DEF Waits, Lock, Relock, Expire, WakeSpuriously, States
<1> QED BY <1>1, <1>2, PlainGood

(* The end of a queue_get: the buffer grows or stays. *)
LEMMA GetEnds ==
    ASSUME PyInv, NEW c \in Consumer, GetRead(c) \/ GetEmpty(c),
           \A d \in Consumer \ {c} : message_buffer'[d] = message_buffer[d]
    PROVE  Next /\ Asked'
<1>1. Typed /\ Asked /\ c \in Thread /\ \A d \in Consumer : d \in Thread
  BY Kinds DEF PyInv, IInv
<1>2. Next
  BY DEF Next, QueueGet
<1>3. Moves(c, "out")
  BY <1>1, GoMoves, WakeMoves DEF GetRead, GetEmpty, States
<1>4. \A d \in Consumer \ {c} : call'[d] = call[d]
  BY <1>1 DEF GetRead, GetEmpty, Return, Typed
<1> QED BY <1>1, <1>2, <1>3, <1>4, AskedKept

LEMMA GetsGood ==
    ASSUME PyInv, NEW c \in Consumer, PyQueueGet(c)
    PROVE  Good
<1>1. PyTyped /\ Asked /\ Typed /\ IInv
  BY DEF PyInv, IInv
<1>2. ASSUME GetRead(c), TooSmall, reallocate_msg_buffer(c, DemandedSize)
      PROVE  /\ message_buffer' \in [Consumer -> BufferSize] /\ Grows
             /\ \A d \in Consumer \ {c} : message_buffer'[d] = message_buffer[d]
  <2>1. /\ message_buffer' \in [Consumer -> BufferSize]
        /\ message_buffer'[c] > message_buffer[c]
        /\ \A d \in Consumer \ {c} : message_buffer'[d] = message_buffer[d]
    BY <1>2, Demanded
  <2>2. \A d \in Consumer : message_buffer[d] \in Nat /\ message_buffer'[d] \in Nat
    BY <1>1, <2>1, BufferIsNat DEF PyTyped
  <2> QED BY <2>1, <2>2 DEF Grows
<1>3. ASSUME UNCHANGED message_buffer
      PROVE  /\ message_buffer' \in [Consumer -> BufferSize] /\ Grows
             /\ \A d \in Consumer \ {c} : message_buffer'[d] = message_buffer[d]
  BY <1>1, <1>3, SameBuffers DEF PyTyped
<1>4. CASE GetAgain(c)
  <2>1. /\ GetRead(c) /\ TooSmall /\ reallocate_msg_buffer(c, DemandedSize)
        /\ retry' = [retry EXCEPT ![c] = call[c].max_messages_to_get]
        /\ overtaken' = [overtaken EXCEPT ![c] = FALSE]
    BY <1>4 DEF GetAgain
  <2>2. call[c].max_messages_to_get \in MaxMessages
    <3>1. PICK n \in MaxMessages : call[c] = Limits(message_buffer[c], n)
      BY <1>1, <2>1 DEF Asked, GetRead
    <3> QED BY <3>1 DEF Limits
  <2>3. retry' \in [Consumer -> MaxMessages \cup {0}] /\ overtaken' \in [Consumer -> BOOLEAN]
    BY <1>1, <2>1, <2>2 DEF PyTyped
  <2> QED BY <1>2, <2>1, <2>3, GetEnds DEF Good, PyTyped
<1>5. CASE GetMessages(c)
  <2>1. /\ GetRead(c)
        /\ (TooSmall /\ reallocate_msg_buffer(c, DemandedSize)) \/ UNCHANGED message_buffer
        /\ retry' = [retry EXCEPT ![c] = 0]
        /\ UNCHANGED overtaken \/ Overtake(c)
    BY <1>5 DEF GetMessages
  <2>2. retry' \in [Consumer -> MaxMessages \cup {0}]
    BY <1>1, <2>1 DEF PyTyped
  <2>3. overtaken' \in [Consumer -> BOOLEAN]
    <3>1. CASE Overtake(c)
      <4>1. \A d \in Consumer : (d # c /\ (overtaken[d] \/ retry[d] # 0)) \in BOOLEAN
        OBVIOUS
      <4> QED BY <3>1, <4>1, Zenon DEF Overtake
    <3> QED BY <1>1, <2>1, <3>1 DEF PyTyped
  <2> QED BY <1>2, <1>3, <2>1, <2>2, <2>3, GetEnds DEF Good, PyTyped
<1>6. CASE RaiseEmpty(c)
  <2>1. /\ GetEmpty(c) /\ retry' = [retry EXCEPT ![c] = 0]
        /\ UNCHANGED message_buffer /\ UNCHANGED overtaken
    BY <1>6 DEF RaiseEmpty
  <2>2. retry' \in [Consumer -> MaxMessages \cup {0}]
    BY <1>1, <2>1 DEF PyTyped
  <2> QED BY <1>1, <1>3, <2>1, <2>2, GetEnds DEF Good, PyTyped
<1>7. CASE GetWait(c) /\ UNCHANGED py
  <2>1. /\ pc[c] = "locked" /\ call' = call /\ c \in Thread /\ Next
        /\ Go(c, "asleep")
    BY <1>7, Kinds DEF GetWait, Next, QueueGet
  <2>2. Moves(c, "asleep")
    BY <1>1, <2>1, GoMoves DEF States
  <2> QED BY <1>7, <2>1, <2>2, PlainGood
<1> QED BY <1>4, <1>5, <1>6, <1>7 DEF PyQueueGet

LEMMA UnpickleGood ==
    ASSUME PyInv, NEW c \in Consumer, NEW d \in Consumer, Unpickle(c, d)
    PROVE  Good
<1>1. /\ PyTyped /\ Asked /\ message_buffer[c] = 0 /\ pc[c] = "out"
      /\ message_buffer' = [message_buffer EXCEPT ![c] = message_buffer[d]]
      /\ UNCHANGED <<vars, retry, overtaken>>
  BY DEF PyInv, Unpickle
<1>2. PyTyped'
  BY <1>1 DEF PyTyped
<1>3. Grows
  <2>1. \A b \in Consumer : message_buffer[b] \in Nat
    BY <1>1, BufferIsNat DEF PyTyped
  <2> QED BY <1>1, <2>1 DEF Grows, PyTyped
<1>4. Asked'
  BY <1>1 DEF Asked, vars, PyTyped
<1> QED BY <1>1, <1>2, <1>3, <1>4 DEF Good

LEMMA StepGood ==
    ASSUME PyInv, [PyNext]_pyvars
    PROVE  Good
<1>1. CASE UNCHANGED pyvars
  <2>1. UNCHANGED vars /\ UNCHANGED <<pc, call>> /\ UNCHANGED <<message_buffer, retry, overtaken>>
    BY <1>1 DEF pyvars, vars, py
  <2>2. PyTyped' /\ Asked' /\ PyTyped
    BY <2>1 DEF PyInv, PyTyped, Asked, Limits
  <2> QED BY <2>1, <2>2, SameBuffers DEF Good
<1>2. CASE NewPyCall
  BY <1>2, PutsGood, GetManyGood DEF NewPyCall
<1>3. CASE PyNext
  BY <1>2, <1>3, PutsGood, RetryGood, GetsGood, UnpickleGood, WaitsGood DEF PyNext
<1> QED BY <1>1, <1>3

LEMMA PyInvariance == PySpec => []PyInv
<1>1. PyInv /\ [PyNext]_pyvars => PyInv'
  BY StepGood, NextIInv, NextBytes DEF PyInv, Good
<1> QED BY <1>1, InitPy, PTL DEF PySpec

(* With its retries and its buffers the Python queue makes no call that    *)
(* queue_put and queue_get do not allow: all that is proved of QueueSync   *)
(* holds of it.                                                            *)
THEOREM PyImplementsSync == PySpec => Spec
<1>1. PyInv /\ [PyNext]_pyvars => [Next]_vars
  BY StepGood DEF Good
<1>2. PyInit => Init
  BY DEF PyInit
<1> QED BY <1>1, <1>2, PyInvariance, PTL DEF PySpec, Spec

(* No receive buffer gets larger than half as much again as the queue,     *)
(* whatever get_many meets.                                                *)
THEOREM PyTypesCorrect == PySpec => []PyTypeOK
<1>1. TypeOK /\ PyInv => PyTypeOK
  BY DEF PyInv, PyTyped, PyTypeOK
<1> QED BY <1>1, PyImplementsSync, TypeCorrect, PyInvariance, PTL

(* A buffer is never given up for a smaller one, and every retry of        *)
(* get_many has a larger one than the get it follows: that is why its      *)
(* recursion ends.                                                         *)
THEOREM BuffersGrow == PySpec => BufferGrows
<1>1. ASSUME PyInv, [PyNext]_pyvars
      PROVE  \A c \in Consumer : /\ message_buffer'[c] >= message_buffer[c]
                                 /\ GetAgain(c) => message_buffer'[c] > message_buffer[c]
  <2>1. Grows
    BY <1>1, StepGood DEF Good
  <2>2. ASSUME NEW c \in Consumer, GetAgain(c)
        PROVE  message_buffer'[c] > message_buffer[c]
    BY <1>1, <2>2, Demanded DEF GetAgain
  <2> QED BY <2>1, <2>2 DEF Grows
<1> QED BY <1>1, PyInvariance, PTL DEF PySpec, BufferGrows
-----------------------------------------------------------------------------
(* What a consumer that is to retry can count on: it asks for a message at *)
(* least, for as many as before, and unless another consumer took messages *)
(* meanwhile the first one is still there and has room in the buffer.      *)
Knows(c) ==
    retry[c] # 0 =>
        /\ max_size_bytes > 0
        /\ pc[c] # "out" => call[c].max_messages_to_get = retry[c]
        /\ ~overtaken[c] => /\ queue # <<>>
                            /\ message_buffer[c] >= HeaderSize + MsgSize(queue[1])

RetryKnows == \A c \in Consumer : Knows(c)

(* What is put comes behind what is there. *)
LEMMA HeadStays ==
    ASSUME NEW q \in Seq(Message), NEW r \in Seq(Message), q # <<>>
    PROVE  q \o r # <<>> /\ (q \o r)[1] = q[1]
<1>1. Len(q) \in Nat /\ Len(q) # 0 /\ Len(r) \in Nat
  BY EmptySeq
<1>2. /\ Len(q \o r) = Len(q) + Len(r)
      /\ \A k \in 1..Len(q) : (q \o r)[k] = q[k]
  BY ConcatProperties
<1>3. 1 \in 1..Len(q) /\ Len(q \o r) # 0
  BY <1>1, <1>2
<1> QED BY <1>2, <1>3

(* A step that takes nothing from the queue and is no end of a get.        *)
LEMMA CalmKnows ==
    ASSUME PyInv, RetryKnows, PyTyped', Grows, UNCHANGED <<retry, overtaken>>,
           queue' = queue \/ \E batch \in Batch : queue' = queue \o batch,
           \A c \in Consumer : retry[c] # 0 /\ pc'[c] # "out" =>
               \/ pc[c] # "out" /\ call'[c] = call[c]
               \/ call'[c].max_messages_to_get = retry[c]
    PROVE  RetryKnows'
<1> SUFFICES ASSUME NEW c \in Consumer, retry'[c] # 0 PROVE Knows(c)'
  BY DEF RetryKnows, Knows
<1>1. retry[c] # 0 /\ overtaken'[c] = overtaken[c] /\ Knows(c)
  BY DEF RetryKnows
<1>2. pc'[c] # "out" => call'[c].max_messages_to_get = retry'[c]
  BY <1>1 DEF Knows
<1>3. ASSUME ~overtaken[c]
      PROVE  queue' # <<>> /\ message_buffer'[c] >= HeaderSize + MsgSize(queue'[1])
  <2>1. queue # <<>> /\ message_buffer[c] >= HeaderSize + MsgSize(queue[1])
    BY <1>1, <1>3 DEF Knows
  <2>2. queue \in Seq(Message) /\ \A batch \in Batch : batch \in Seq(Message)
    BY BatchAssumption DEF PyInv, IInv, Typed
  <2>3. queue' # <<>> /\ queue'[1] = queue[1]
    BY <2>1, <2>2, HeadStays
  <2>4. message_buffer'[c] \in Nat /\ message_buffer[c] \in Nat
    BY BufferIsNat DEF PyInv, PyTyped
  <2>5. HeaderSize \in Nat /\ MsgSize(queue[1]) \in Nat
    BY <2>1, <2>2, MessagesSized, Fifo!FirstMessage, SizeAssumption
  <2> QED BY <2>1, <2>3, <2>4, <2>5 DEF Grows
<1> QED BY <1>1, <1>2, <1>3 DEF Knows

(* A get that is made again leaves the first message where it is, and the  *)
(* buffer has room for it.                                                 *)
LEMMA AgainKnows ==
    ASSUME PyInv, RetryKnows, NEW c \in Consumer, GetAgain(c)
    PROVE  RetryKnows'
<1> DEFINE limits == call[c]
<1>1. /\ queue \in Seq(Message) /\ queue # <<>> /\ PyTyped /\ Typed /\ c \in Thread
      /\ pc[c] = "locked" /\ result' = Fifo!Reply(limits, queue)
      /\ queue' = Fifo!Rest(limits, queue)
      /\ call' = [call EXCEPT ![c] = NoCall]
  BY Kinds DEF PyInv, IInv, Typed, GetAgain, GetRead, Return
<1>2. /\ TooSmall /\ NothingRead /\ GetRead(c) /\ reallocate_msg_buffer(c, DemandedSize)
      /\ retry' = [retry EXCEPT ![c] = limits.max_messages_to_get]
      /\ overtaken' = [overtaken EXCEPT ![c] = FALSE]
  BY DEF GetAgain
<1>3. Fifo!Count(limits, queue) = 0 /\ queue' = queue
  <2>1. Fifo!Prefix(queue, Fifo!Count(limits, queue)) = <<>>
    BY <1>1, <1>2 DEF NothingRead, Fifo!Reply
  <2> QED BY <1>1, <2>1, Fifo!NothingTaken
<1>4. Moves(c, "out")
  BY <1>1, <1>2, WakeMoves DEF GetRead
<1>5. Fifo!WantsMore(limits, queue, 0)
  BY <1>1, <1>2, <1>3 DEF TooSmall, Fifo!Reply
<1>6. result'.messages_size = HeaderSize + MsgSize(queue[1])
  <2>1. result'.messages_size = Fifo!Bytes(Fifo!Prefix(queue, 0 + 1))
    BY <1>1, <1>3, <1>5 DEF Fifo!Reply
  <2> QED BY <1>1, <2>1, MessagesSized, Fifo!FirstMessage
<1>7. /\ message_buffer'[c] >= HeaderSize + MsgSize(queue[1])
      /\ \A d \in Consumer \ {c} : message_buffer'[d] = message_buffer[d]
  BY <1>2, <1>6, Demanded
<1>8. max_size_bytes > 0
  <2>1. limits.max_bytes_to_get = max_size_bytes
    <3>1. PICK n \in MaxMessages : limits = Limits(message_buffer[c], n)
      BY <1>1 DEF PyInv, Asked
    <3> QED BY <3>1 DEF Limits
  <2>2. 0 < limits.max_bytes_to_get
    BY <1>1, <1>5, MessagesSized, Fifo!FirstMessage DEF Fifo!WantsMore
  <2> QED BY <2>1, <2>2, CapacityAssumption
<1> SUFFICES ASSUME NEW d \in Consumer, retry'[d] # 0 PROVE Knows(d)'
  BY DEF RetryKnows, Knows
<1>9. CASE d = c
  <2>1. pc'[c] = "out"
    BY <1>4 DEF Moves
  <2> QED BY <1>1, <1>3, <1>7, <1>8, <1>9, <2>1 DEF Knows
<1>10. CASE d # c
  <2>1. /\ retry'[d] = retry[d] /\ overtaken'[d] = overtaken[d]
        /\ message_buffer'[d] = message_buffer[d] /\ call'[d] = call[d]
    BY <1>1, <1>2, <1>7, <1>10, Kinds DEF PyTyped, Typed
  <2>2. pc'[d] # "out" => pc[d] # "out"
    BY <1>4, <1>10, Kinds DEF Moves
  <2> QED BY <1>3, <1>8, <2>1, <2>2 DEF RetryKnows, Knows
<1> QED BY <1>9, <1>10

(* Other ends of a get: a retry is over, and those of other consumers are  *)
(* overtaken if there were messages. *)
LEMMA EndKnows ==
    ASSUME PyInv, RetryKnows, NEW c \in Consumer, GetMessages(c) \/ RaiseEmpty(c)
    PROVE  RetryKnows'
<1>1. /\ queue \in Seq(Message) /\ PyTyped /\ Typed /\ c \in Thread /\ pc[c] = "locked"
      /\ retry' = [retry EXCEPT ![c] = 0]
      /\ call' = [call EXCEPT ![c] = NoCall]
  BY Kinds DEF PyInv, IInv, Typed, GetMessages, RaiseEmpty, GetRead, GetEmpty, Return
<1>2. Moves(c, "out")
  BY <1>1, GoMoves, WakeMoves DEF GetMessages, RaiseEmpty, GetRead, GetEmpty, States
<1> SUFFICES ASSUME NEW d \in Consumer, retry'[d] # 0 PROVE Knows(d)'
  BY DEF RetryKnows, Knows
<1>3. d # c /\ retry'[d] = retry[d] /\ call'[d] = call[d]
  BY <1>1, Kinds DEF PyTyped, Typed
<1>4. pc'[d] # "out" => pc[d] # "out"
  BY <1>2, <1>3, Kinds DEF Moves
<1>5. message_buffer'[d] = message_buffer[d]
  <2>1. CASE GetMessages(c)
    BY <1>1, <1>3, <2>1, Demanded DEF GetMessages
  <2> QED BY <2>1 DEF RaiseEmpty
<1>6. overtaken'[d] \/ (overtaken'[d] = overtaken[d] /\ queue' = queue)
  <2>1. CASE GetMessages(c)
    <3>1. CASE NothingRead
      <4>1. /\ UNCHANGED overtaken /\ queue' = Fifo!Rest(call[c], queue)
            /\ result' = Fifo!Reply(call[c], queue)
        BY <2>1, <3>1 DEF GetMessages, GetRead, Return
      <4>2. Fifo!Prefix(queue, Fifo!Count(call[c], queue)) = <<>>
        BY <3>1, <4>1 DEF NothingRead, Fifo!Reply
      <4> QED BY <1>1, <4>1, <4>2, Fifo!NothingTaken
    <3>2. CASE ~NothingRead
      <4>1. overtaken' = [b \in Consumer |-> b # c /\ (overtaken[b] \/ retry[b] # 0)]
        BY <2>1, <3>2 DEF GetMessages, Overtake
      <4>2. overtaken'[d] = (d # c /\ (overtaken[d] \/ retry[d] # 0))
        BY <4>1, Zenon
      <4> QED BY <1>3, <4>2
    <3> QED BY <3>1, <3>2
  <2>2. CASE RaiseEmpty(c)
    BY <2>2 DEF RaiseEmpty, GetEmpty
  <2> QED BY <2>1, <2>2
<1> QED BY <1>3, <1>4, <1>5, <1>6 DEF RetryKnows, Knows

LEMMA NextKnows ==
    ASSUME PyInv, RetryKnows, [PyNext]_pyvars
    PROVE  RetryKnows'
<1>1. /\ Typed /\ PyTyped' /\ Grows
      /\ \A c \in Consumer : c \in Thread /\ c \notin Producer
      /\ \A p \in Producer : p \in Thread
  BY StepGood, Kinds DEF PyInv, IInv, Good
<1>2. ASSUME NEW p \in Producer, NEW batch, NEW block, put_many(p, batch, block)
      PROVE  RetryKnows'
  <2>1. /\ UNCHANGED <<queue, retry, overtaken>>
        /\ \A c \in Consumer : pc'[c] = pc[c] /\ call'[c] = call[c]
    BY <1>1, <1>2 DEF put_many, py, Call, Go, Typed
  <2> QED BY <1>1, <2>1, CalmKnows
<1>3. ASSUME NEW p \in Producer, PyQueuePut(p)
      PROVE  RetryKnows'
  <2>1. QueuePut(p) /\ UNCHANGED <<retry, overtaken>>
    BY <1>3 DEF PyQueuePut, py
  <2>2. queue' = queue \/ \E batch \in Batch : queue' = queue \o batch
    BY <2>1 DEF QueuePut, PutFull, PutWait, PutWrite, PyInv, IInv, CallsTyped
  <2>3. \A c \in Consumer : call'[c] = call[c]
    BY <1>1, <2>1 DEF QueuePut, PutFull, PutWait, PutWrite, Return, Typed
  <2>4. \A c \in Consumer : pc'[c] # "out" => pc[c] # "out"
    <3>1. pc[p] = "locked" /\ p \in Thread
      BY <1>1, <2>1 DEF QueuePut, PutFull, PutWait, PutWrite
    <3>2. CASE PutFull(p)
      BY <1>1, <3>2 DEF PutFull, Go, Typed
    <3>3. CASE PutWait(p)
      <4>1. SignalAndGo(Consumer, p, "asleep") \/ Go(p, "asleep")
        BY <3>3 DEF PutWait
      <4>2. Moves(p, "asleep")
        BY <1>1, <3>1, <4>1, Kinds, GoMoves, SignalMoves DEF States
      <4> QED BY <1>1, <4>2 DEF Moves
    <3>4. CASE PutWrite(p)
      <4>1. Moves(p, "out")
        BY <1>1, <3>1, <3>4, WakeMoves DEF PutWrite
      <4> QED BY <1>1, <4>1 DEF Moves
    <3> QED BY <2>1, <3>2, <3>3, <3>4 DEF QueuePut
  <2> QED BY <1>1, <2>1, <2>2, <2>3, <2>4, CalmKnows
<1>4. ASSUME NEW c \in Consumer, NEW n \in MaxMessages, NEW block,
             get_many(c, n, block) \/ Retry(c)
      PROVE  RetryKnows'
  <2>1. /\ UNCHANGED <<queue, retry, overtaken>> /\ c \in Thread
        /\ \E m, b : QueueGetCall(c, m, b) /\ (retry[c] # 0 => m = retry[c])
    BY <1>1, <1>4 DEF get_many, Retry, py, QueueGetCall, Call
  <2>2. PICK m, b : QueueGetCall(c, m, b) /\ (retry[c] # 0 => m = retry[c])
    BY <2>1
  <2>3. \A d \in Consumer \ {c} : pc'[d] = pc[d] /\ call'[d] = call[d]
    BY <1>1, <2>2 DEF QueueGetCall, Call, Go, Typed
  <2>4. call'[c] = Limits(message_buffer'[c], m)
    BY <1>1, <2>1, <2>2 DEF QueueGetCall, Call, Typed
  <2>5. retry[c] # 0 => call'[c].max_messages_to_get = retry[c]
    BY <2>2, <2>4 DEF Limits
  <2> QED BY <1>1, <2>1, <2>3, <2>5, CalmKnows
<1>5. ASSUME NEW c \in Consumer, PyQueueGet(c)
      PROVE  RetryKnows'
  <2>1. CASE GetWait(c) /\ UNCHANGED py
    <3>1. /\ UNCHANGED <<queue, retry, overtaken, call>> /\ pc[c] = "locked"
          /\ pc' = [pc EXCEPT ![c] = "asleep"]
      BY <2>1 DEF GetWait, py, Go
    <3>2. \A d \in Consumer : pc'[d] # "out" => pc[d] # "out"
      BY <1>1, <3>1 DEF Typed
    <3> QED BY <1>1, <3>1, <3>2, CalmKnows
  <2> QED BY <1>5, <2>1, AgainKnows, EndKnows DEF PyQueueGet
<1>6. ASSUME NEW t \in Thread, Waits(t)
      PROVE  RetryKnows'
  <2>1. UNCHANGED <<queue, retry, overtaken, call>> /\ pc[t] # "out"
    BY <1>6 DEF Waits, py, Lock, Relock, Expire, WakeSpuriously
  <2>2. Moves(t, "locked") \/ Moves(t, "awake")
    BY <1>1, <1>6, GoMoves DEF Waits, Lock, Relock, Expire, WakeSpuriously, States
  <2>3. \A d \in Consumer : pc'[d] # "out" => pc[d] # "out"
    BY <1>1, <2>1, <2>2 DEF Moves
  <2> QED BY <1>1, <2>1, <2>3, CalmKnows
<1>7. ASSUME UNCHANGED <<vars, retry, overtaken>>
      PROVE  RetryKnows'
  <2>1. UNCHANGED <<queue, pc, call, retry, overtaken>>
    BY <1>7 DEF vars
  <2> QED BY <1>1, <2>1, CalmKnows
<1>8. CASE NewPyCall
  BY <1>2, <1>4, <1>8 DEF NewPyCall
<1>9. ASSUME NEW c \in Consumer, Retry(c) PROVE RetryKnows'
  <2>1. retry[c] \in MaxMessages
    BY <1>9 DEF Retry, PyInv, PyTyped
  <2> QED BY <1>4, <1>9, <2>1
<1>10. ASSUME NEW c \in Consumer, NEW d \in Consumer, Unpickle(c, d) PROVE RetryKnows'
  BY <1>7, <1>10 DEF Unpickle
<1>11. CASE UNCHANGED pyvars
  BY <1>7, <1>11 DEF pyvars, py
<1> QED BY <1>3, <1>5, <1>6, <1>8, <1>9, <1>10, <1>11 DEF PyNext

LEMMA KnowsInvariance == PySpec => []RetryKnows
<1>1. PyInit => RetryKnows
  BY DEF PyInit, RetryKnows, Knows
<1> QED BY <1>1, NextKnows, PyInvariance, PTL DEF PySpec

(* A retry of get_many comes back with messages unless another consumer    *)
(* took some since the get it follows: the first message is still there,   *)
(* and the buffer was enlarged for it.                                     *)
THEOREM RetriesServed == PySpec => RetryServed
<1>1. ASSUME PyInv, RetryKnows, [PyNext]_pyvars, NEW c \in Consumer,
             retry[c] # 0, pc[c] = "locked", pc'[c] = "out", ~overtaken[c]
      PROVE  result'.messages # <<>>
  <2>1. /\ Typed /\ queue \in Seq(Message) /\ [Next]_vars /\ c \in Thread /\ c \notin Producer
        /\ mutex = c /\ MutualExclusion
    BY <1>1, StepGood, Kinds DEF PyInv, IInv, Typed, Good, MutualExclusion
  <2>2. /\ queue # <<>> /\ message_buffer[c] >= HeaderSize + MsgSize(queue[1])
        /\ max_size_bytes > 0 /\ call[c].max_messages_to_get = retry[c]
    BY <1>1 DEF RetryKnows, Knows
  <2>3. GetRead(c)
    <3>1. ~UNCHANGED pc
      BY <1>1
    <3>2. ASSUME NEW t \in Thread, NEW parameters, NEW block, Call(t, parameters, block)
          PROVE  FALSE
      BY <1>1, <2>1, <3>2 DEF Call, Go, Typed
    <3>3. ASSUME NEW p \in Producer, QueuePut(p) PROVE FALSE
      <4>1. pc[p] = "locked" /\ p \in Thread
        BY <3>3, Kinds DEF QueuePut, PutFull, PutWait, PutWrite
      <4> QED BY <2>1, <4>1 DEF MutualExclusion
    <3>4. ASSUME NEW d \in Consumer, QueueGet(d) PROVE GetRead(c)
      <4>1. pc[d] = "locked" /\ d \in Thread
        BY <3>4, Kinds DEF QueueGet, GetEmpty, GetWait, GetRead
      <4>2. d = c
        BY <2>1, <4>1 DEF MutualExclusion
      <4> QED BY <2>2, <3>4, <4>2 DEF QueueGet, GetEmpty, GetWait
    <3>5. ASSUME NEW t \in Thread, Lock(t) \/ Relock(t) \/ Expire(t) \/ WakeSpuriously(t)
          PROVE  FALSE
      BY <1>1, <2>1, <3>5 DEF Lock, Relock, Expire, WakeSpuriously, Go, Typed
    <3> QED BY <2>1, <3>1, <3>2, <3>3, <3>4, <3>5, Kinds DEF Next, NewCall, vars
  <2>4. call[c] = Limits(message_buffer[c], retry[c])
    <3>1. PICK n \in MaxMessages : call[c] = Limits(message_buffer[c], n)
      BY <1>1 DEF PyInv, Asked
    <3> QED BY <2>2, <3>1 DEF Limits
  <2>5. retry[c] \in Nat \ {0}
    BY <1>1, LimitsAssumption DEF PyInv, PyTyped
  <2>6. Fifo!Count(call[c], queue) \in 1..Len(queue)
    <3>1. /\ 0 < call[c].max_messages_to_get /\ 0 < call[c].max_bytes_to_get
          /\ HeaderSize + MsgSize(queue[1]) <= call[c].msg_buffer_size
      <4>1. message_buffer[c] \in Nat /\ HeaderSize \in Nat /\ MsgSize(queue[1]) \in Nat
        BY <1>1, <2>1, <2>2, BufferIsNat, MessagesSized, Fifo!FirstMessage, SizeAssumption
        DEF PyInv, PyTyped
      <4> QED BY <2>2, <2>4, <2>5, <4>1, CapacityAssumption DEF Limits
    <3> QED BY <2>1, <2>2, <3>1, MessagesSized, Fifo!FirstTaken
  <2>7. result'.messages = Fifo!Prefix(queue, Fifo!Count(call[c], queue))
    BY <2>3 DEF GetRead, Return, Fifo!Reply
  <2> QED BY <2>1, <2>6, <2>7, Fifo!NothingTaken
<1>2. ASSUME PyInv, RetryKnows, [PyNext]_pyvars
      PROVE  \A c \in Consumer :
                retry[c] # 0 /\ pc[c] = "locked" /\ pc'[c] = "out" /\ ~overtaken[c]
                    => result'.messages # <<>>
  BY <1>1, <1>2
<1> QED BY <1>2, PyInvariance, KnowsInvariance, PTL DEF PySpec, RetryServed
-----------------------------------------------------------------------------
(* No wakeup is lost among retries, where SomebodyIsUp holds of queue_put  *)
(* and queue_get without them: a consumer that is to retry is up as well.  *)
ServerUp == Up(Consumer) \/ \E c \in Consumer : retry[c] # 0

ServerIsUp ==
    /\ Asleep(Consumer) # {} /\ queue # <<>> =>
          ServerUp \/ (Room(queue) /\ Up(Producer))
    /\ Asleep(Producer) # {} /\ Room(queue) =>
          Up(Producer) \/ (queue # <<>> /\ ServerUp)

LEMMA UpServes ==
    ASSUME SomebodyIsUp'
    PROVE  ServerIsUp'
BY DEF SomebodyIsUp, ServerIsUp, ServerUp

(* A step that neither touches the queue nor has a thread fall asleep, and *)
(* after which somebody is up if somebody was.                             *)
LEMMA QuietServes ==
    ASSUME Typed, ServerIsUp, NEW t \in Thread, NEW next \in States \ {"asleep"},
           Moves(t, next), queue' = queue,
           next \in {"awake", "locked"} \/ pc[t] = "out" \/ t \in Consumer,
           next \in {"awake", "locked"} \/ pc[t] = "out" \/ t \in Producer
               \/ \E c \in Consumer : retry'[c] # 0,
           \A c \in Consumer : retry[c] # 0 => \E d \in Consumer : retry'[d] # 0
    PROVE  ServerIsUp'
<1>1. /\ Asleep(Consumer)' \subseteq Asleep(Consumer)
      /\ Asleep(Producer)' \subseteq Asleep(Producer)
  BY Kinds, AsleepShrinks
<1>2. Up(Producer) => Up(Producer)'
  BY Kinds, UpKept
<1>3. ServerUp => ServerUp'
  <2>1. CASE \E c \in Consumer : retry'[c] # 0
    BY <2>1 DEF ServerUp
  <2>2. CASE ~\E c \in Consumer : retry'[c] # 0
    <3>1. Up(Consumer) => Up(Consumer)'
      BY <2>2, Kinds, UpKept
    <3> QED BY <2>2, <3>1 DEF ServerUp
  <2> QED BY <2>1, <2>2
<1>4. Room(queue)' = Room(queue)
  BY DEF Room, Fifo!Fits, Fifo!can_fit
<1> QED BY <1>1, <1>2, <1>3, <1>4 DEF ServerIsUp

(* A producer that finds no room, as in queue_put without retries.         *)
LEMMA FullServes ==
    ASSUME OneSize, PyInv, ServerIsUp, NEW p \in Producer, pc[p] = "locked",
           ~Fifo!Fits(queue, call[p]), NEW next, Moves(p, next), queue' = queue, retry' = retry
    PROVE  ServerIsUp'
<1>1. Typed /\ queue \in Seq(Message) /\ call[p] \in Batch
  BY DEF PyInv, IInv, Typed, CallsTyped
<1>2. ~Room(queue)
  BY <1>1, RoomForAll
<1>3. Room(queue)' = Room(queue)
  BY DEF Room, Fifo!Fits, Fifo!can_fit
<1>4. Asleep(Consumer)' \subseteq Asleep(Consumer)
  BY <1>1, Kinds, AsleepShrinks
<1>5. Up(Consumer) => Up(Consumer)'
  BY <1>1, Kinds, UpKept
<1> QED BY <1>2, <1>3, <1>4, <1>5 DEF ServerIsUp, ServerUp

(* And a consumer that finds no message: its retry is over.                *)
LEMMA EmptyServes ==
    ASSUME Typed, ServerIsUp, NEW c \in Consumer, queue = <<>>, NEW next, Moves(c, next),
           queue' = queue
    PROVE  ServerIsUp'
<1>1. Room(queue)' = Room(queue)
  BY DEF Room, Fifo!Fits, Fifo!can_fit
<1>2. Asleep(Producer)' \subseteq Asleep(Producer)
  BY Kinds, AsleepShrinks
<1>3. Up(Producer) => Up(Producer)'
  BY Kinds, UpKept
<1> QED BY <1>1, <1>2, <1>3 DEF ServerIsUp

(* A get that is made again takes nothing and passes nothing on: its       *)
(* thread stays up.                                                        *)
LEMMA AgainServes ==
    ASSUME PyInv, ServerIsUp, 0 \notin MaxMessages, NEW c \in Consumer, GetAgain(c)
    PROVE  ServerIsUp'
<1>1. /\ queue \in Seq(Message) /\ queue # <<>> /\ PyTyped /\ Typed /\ c \in Thread
      /\ pc[c] = "locked" /\ result' = Fifo!Reply(call[c], queue)
      /\ queue' = Fifo!Rest(call[c], queue) /\ GetRead(c) /\ NothingRead
      /\ retry' = [retry EXCEPT ![c] = call[c].max_messages_to_get]
  BY Kinds DEF PyInv, IInv, Typed, GetAgain, GetRead, Return
<1>2. queue' = queue
  <2>1. Fifo!Prefix(queue, Fifo!Count(call[c], queue)) = <<>>
    BY <1>1 DEF NothingRead, Fifo!Reply
  <2> QED BY <1>1, <2>1, Fifo!NothingTaken
<1>3. Moves(c, "out")
  BY <1>1, WakeMoves DEF GetRead
<1>4. retry'[c] # 0
  <2>1. PICK n \in MaxMessages : call[c] = Limits(message_buffer[c], n)
    BY <1>1 DEF PyInv, Asked
  <2> QED BY <1>1, <2>1 DEF Limits, PyTyped
<1> QED BY <1>1, <1>2, <1>3, <1>4, QuietServes DEF States

(* A get that does not read the queue again has taken messages.            *)
LEMMA MessagesServe ==
    ASSUME OneSize, PyInv, 0 \notin MaxMessages, NEW c \in Consumer, GetMessages(c)
    PROVE  ServerIsUp'
<1> DEFINE limits == call[c]
           n == Fifo!Count(limits, queue)
<1>1. /\ queue \in Seq(Message) /\ queue # <<>> /\ PyTyped /\ Typed
      /\ pc[c] = "locked" /\ result' = Fifo!Reply(limits, queue) /\ GetRead(c)
      /\ ~(TooSmall /\ NothingRead)
  BY DEF PyInv, IInv, Typed, GetMessages, GetRead, Return
<1>2. n \in 0..Len(queue) /\ Len(queue) \in Nat
  BY <1>1, Fifo!CountInRange
<1>3. n # 0
  <2> SUFFICES ASSUME n = 0 PROVE FALSE
    OBVIOUS
  <2>1. Fifo!Bytes(Fifo!Prefix(queue, 0)) = 0 /\ queue[1] \in Message
    BY <1>1, MessagesSized, Fifo!FirstMessage
  <2>2. max_size_bytes > 0
    <3>1. Fifo!Bytes(Fifo!Prefix(queue, 1)) <= Fifo!Bytes(queue)
      <4>1. 1 \in 0..Len(queue)
        BY <1>1, <1>2, EmptySeq
      <4> QED BY <1>1, <4>1, MessagesSized, Fifo!PrefixBytes
    <3>2. Fifo!Bytes(Fifo!Prefix(queue, 1)) = HeaderSize + MsgSize(queue[1])
      BY <1>1, MessagesSized, Fifo!FirstMessage
    <3>3. HeaderSize \in Nat /\ MsgSize(queue[1]) \in Nat /\ MsgSize(queue[1]) >= 1
      BY <2>1, SizeAssumption DEF OneSize
    <3>4. Fifo!Bytes(queue) \in Nat /\ Fifo!Bytes(queue) <= max_size_bytes
      BY <1>1, MessagesSized, Fifo!BytesTyped DEF PyInv, BytesBounded
    <3> QED BY <3>1, <3>2, <3>3, <3>4, CapacityAssumption
  <2>3. 0 < limits.max_messages_to_get /\ 0 < limits.max_bytes_to_get
    <3>1. PICK k \in MaxMessages : limits = Limits(message_buffer[c], k)
      BY <1>1 DEF PyInv, Asked
    <3>2. k \in Nat \ {0}
      BY <3>1, LimitsAssumption
    <3> QED BY <2>2, <3>1, <3>2, CapacityAssumption DEF Limits
  <2>4. Len(queue) > 0
    BY <1>1, EmptySeq
  <2>5. Fifo!WantsMore(limits, queue, 0)
    BY <2>1, <2>3, <2>4 DEF Fifo!WantsMore
  <2>6. TooSmall
    BY <1>1, <2>5 DEF TooSmall, Fifo!Reply
  <2>7. NothingRead
    <3>1. result'.messages = SubSeq(queue, 1, 0)
      BY <1>1 DEF Fifo!Reply, Fifo!Prefix
    <3> QED BY <3>1 DEF NothingRead
  <2> QED BY <1>1, <2>6, <2>7
<1>4. Fifo!Count(call[c], queue) > 0
  <2> HIDE DEF n
  <2>1. n > 0
    BY <1>2, <1>3
  <2> QED BY <2>1 DEF n
<1>5. IInv /\ BytesBounded
  BY DEF PyInv
<1> QED BY <1>1, <1>4, <1>5, GetReadUp, UpServes

LEMMA NextServes ==
    ASSUME OneSize, 0 \notin MaxMessages, PyInv, ServerIsUp, [PyNext]_pyvars
    PROVE  ServerIsUp'
<1>1. /\ Typed /\ IInv
      /\ \A c \in Consumer : c \in Thread /\ c \notin Producer
      /\ \A p \in Producer : p \in Thread /\ p \notin Consumer
  BY Kinds DEF PyInv, IInv
<1>2. ASSUME NEW t \in Thread, NEW parameters, NEW block, Call(t, parameters, block),
             retry' = retry
      PROVE  ServerIsUp'
  <2>1. Moves(t, "locking") /\ queue' = queue /\ pc[t] = "out"
    BY <1>1, <1>2, GoMoves DEF Call, States
  <2> QED BY <1>1, <1>2, <2>1, QuietServes DEF States
<1>3. ASSUME NEW t \in Thread, Waits(t)
      PROVE  ServerIsUp'
  <2>1. queue' = queue /\ retry' = retry
    BY <1>3 DEF Waits, py, Lock, Relock, Expire, WakeSpuriously
  <2>2. Moves(t, "locked") \/ Moves(t, "awake")
    BY <1>1, <1>3, GoMoves DEF Waits, Lock, Relock, Expire, WakeSpuriously, States
  <2> QED BY <1>1, <2>1, <2>2, QuietServes DEF States
<1>4. ASSUME NEW p \in Producer, PyQueuePut(p)
      PROVE  ServerIsUp'
  <2>1. QueuePut(p) /\ retry' = retry
    BY <1>4 DEF PyQueuePut, py
  <2>2. CASE PutFull(p)
    <3>1. Moves(p, "out") /\ queue' = queue /\ pc[p] = "locked" /\ ~Fifo!Fits(queue, call[p])
      BY <1>1, <2>2, GoMoves DEF PutFull, States
    <3> QED BY <2>1, <3>1, FullServes
  <2>3. CASE PutWait(p)
    <3>1. pc[p] = "locked" /\ queue' = queue /\ ~Fifo!Fits(queue, call[p])
      BY <2>3 DEF PutWait
    <3>2. SignalAndGo(Consumer, p, "asleep") \/ Go(p, "asleep")
      BY <2>3 DEF PutWait
    <3>3. Moves(p, "asleep")
      BY <1>1, <3>1, <3>2, Kinds, GoMoves, SignalMoves DEF States
    <3> QED BY <2>1, <3>1, <3>3, FullServes
  <2> QED BY <1>1, <2>1, <2>2, <2>3, PutWriteUp, UpServes DEF QueuePut
<1>5. ASSUME NEW c \in Consumer, PyQueueGet(c)
      PROVE  ServerIsUp'
  <2>1. CASE RaiseEmpty(c)
    <3>1. Moves(c, "out") /\ queue' = queue /\ queue = <<>>
      BY <1>1, <2>1, GoMoves DEF RaiseEmpty, GetEmpty, States
    <3> QED BY <1>1, <3>1, EmptyServes
  <2>2. CASE GetWait(c)
    <3>1. Moves(c, "asleep") /\ queue' = queue /\ queue = <<>>
      BY <1>1, <2>2, GoMoves DEF GetWait, States
    <3> QED BY <1>1, <3>1, EmptyServes
  <2> QED BY <1>5, <2>1, <2>2, AgainServes, MessagesServe DEF PyQueueGet
<1>6. ASSUME UNCHANGED <<vars, retry>>
      PROVE  ServerIsUp'
  <2>1. UNCHANGED <<queue, pc, retry>>
    BY <1>6 DEF vars
  <2> QED BY <2>1 DEF ServerIsUp, ServerUp, Asleep, Up, Room, Fifo!Fits, Fifo!can_fit
<1>7. CASE NewPyCall
  <2>1. ASSUME NEW p \in Producer, NEW batch, NEW block, put_many(p, batch, block)
        PROVE  ServerIsUp'
    BY <1>1, <1>2, <2>1 DEF put_many, py
  <2>2. ASSUME NEW c \in Consumer, NEW n, NEW block, get_many(c, n, block)
        PROVE  ServerIsUp'
    BY <1>1, <1>2, <2>2 DEF get_many, QueueGetCall
  <2> QED BY <1>7, <2>1, <2>2 DEF NewPyCall
<1>8. ASSUME NEW c \in Consumer, Retry(c) PROVE ServerIsUp'
  BY <1>1, <1>2, <1>8 DEF Retry, QueueGetCall, py
<1>9. ASSUME NEW c \in Consumer, NEW d \in Consumer, Unpickle(c, d) PROVE ServerIsUp'
  BY <1>6, <1>9 DEF Unpickle
<1>10. CASE UNCHANGED pyvars
  BY <1>6, <1>10 DEF pyvars, py
<1> QED BY <1>3, <1>4, <1>5, <1>7, <1>8, <1>9, <1>10 DEF PyNext

(* With messages of one size, put one at a time, no thread is left asleep  *)
(* beside work among the retries of get_many: the get that takes nothing   *)
(* because its buffer is too small keeps the signal that woke it until its *)
(* retry.  A get that asks for no messages would let it go.                *)
THEOREM RetriesPassSignalsOn ==
    ASSUME OneSize, 0 \notin MaxMessages
    PROVE  PySpec => []NobodyLeftAsleep
<1>1. PyInit => ServerIsUp
  <2> SUFFICES ASSUME PyInit PROVE ServerIsUp
    OBVIOUS
  <2>1. Asleep(Consumer) = {} /\ Asleep(Producer) = {}
    BY Kinds DEF PyInit, Init, Asleep
  <2> QED BY <2>1 DEF ServerIsUp
<1>2. PyInv /\ ServerIsUp /\ [PyNext]_pyvars => ServerIsUp'
  BY NextServes
<1>3. PyInv /\ ServerIsUp => NobodyLeftAsleep
  <2> SUFFICES ASSUME PyInv, ServerIsUp, Idle, NEW t \in Thread, pc[t] = "asleep"
               PROVE  IF t \in Producer THEN ~Fifo!Fits(queue, call[t]) ELSE queue = <<>>
    BY DEF NobodyLeftAsleep
  <2>1. ~ServerUp /\ ~Up(Producer)
    BY Kinds DEF Idle, Quiescent, ServerUp, Up
  <2>2. CASE t \in Producer
    <3>1. call[t] \in Batch /\ Asleep(Producer) # {}
      BY <2>2 DEF PyInv, IInv, CallsTyped, Asleep
    <3> QED BY <2>1, <2>2, <3>1 DEF ServerIsUp, Room
  <2>3. CASE t \notin Producer
    <3>1. Asleep(Consumer) # {}
      BY <2>3 DEF Asleep, Thread
    <3> QED BY <2>1, <2>3, <3>1 DEF ServerIsUp
  <2> QED BY <2>2, <2>3
<1> QED BY <1>1, <1>2, <1>3, PyInvariance, PTL DEF PySpec
=============================================================================

------------------------------ MODULE PyQueue ------------------------------
(***************************************************************************)
(* The queue as Python callers see it, faster_fifo.pyx: each consumer has  *)
(* a receive buffer of its own, and when that has no room for even one     *)
(* message get_many enlarges it and calls queue_get again.  Between the    *)
(* two calls the mutex is free.  put_many adds nothing to queue_put.       *)
(***************************************************************************)
EXTENDS QueueSync

CONSTANTS INITIAL_RECV_BUFFER_SIZE,
          MaxMessages,   (* the max_messages_to_get of the calls           *)
          Unreadable     (* the messages `loads` raises an exception for   *)

ASSUME BufferAssumption  == INITIAL_RECV_BUFFER_SIZE \in Nat \ {0}
ASSUME LimitsAssumption  == MaxMessages \subseteq Nat

(* The sizes a receive buffer may get: the initial one, and half as much   *)
(* again as is needed of what is queued.                                   *)
BufferSize == {INITIAL_RECV_BUFFER_SIZE} \cup 0..(3 * max_size_bytes) \div 2

ASSUME RequestAssumption ==
    [msg_buffer_size     : BufferSize,
     max_messages_to_get : MaxMessages,
     max_bytes_to_get    : {max_size_bytes}] \subseteq Request

VARIABLES message_buffer,  (* the size of each receive buffer, 0 for None  *)
          retry,           (* what a retry asks for; 0 outside of a retry  *)
          overtaken        (* history: another consumer has taken messages *)
                           (* since the call that the retry follows        *)

py     == <<message_buffer, retry, overtaken>>
pyvars == <<vars, py>>

PyInit == /\ Init
          /\ message_buffer = [c \in Consumer |-> 0]
          /\ retry = [c \in Consumer |-> 0]
          /\ overtaken = [c \in Consumer |-> FALSE]
-----------------------------------------------------------------------------
put_many(p, batch, block) == Call(p, batch, block) /\ UNCHANGED py

Limits(buffer_size, max_messages_to_get) ==
    [msg_buffer_size     |-> buffer_size,
     max_messages_to_get |-> max_messages_to_get,
     max_bytes_to_get    |-> max_size_bytes]

QueueGetCall(c, max_messages_to_get, block) ==
    Call(c, Limits(message_buffer'[c], max_messages_to_get), block)

(* A mutant: every buffer has the initial size. *)
reallocate_msg_buffer_initial(c, new_size) ==
    message_buffer' = [message_buffer EXCEPT ![c] = INITIAL_RECV_BUFFER_SIZE]

reallocate_msg_buffer(c, new_size) ==
    message_buffer' = [message_buffer EXCEPT
                          ![c] = IF new_size < INITIAL_RECV_BUFFER_SIZE
                                 THEN INITIAL_RECV_BUFFER_SIZE ELSE new_size]

get_many(c, max_messages_to_get, block) ==
    /\ retry[c] = 0
    /\ IF message_buffer[c] = 0
       THEN reallocate_msg_buffer(c, INITIAL_RECV_BUFFER_SIZE)
       ELSE UNCHANGED message_buffer
    /\ QueueGetCall(c, max_messages_to_get, block)
    /\ UNCHANGED <<retry, overtaken>>

(* TLSBuffer: the queue of d is pickled for the process of c, and what     *)
(* arrives there is a new buffer of the size that d's has.                 *)
Unpickle(c, d) == /\ message_buffer[c] = 0 /\ pc[c] = "out"
                  /\ message_buffer[d] # 0
                  /\ message_buffer' = [message_buffer EXCEPT ![c] = message_buffer[d]]
                  /\ UNCHANGED <<vars, retry, overtaken>>

(* get_many_nowait *)
Retry(c) == /\ retry[c] # 0
            /\ UNCHANGED py
            /\ QueueGetCall(c, retry[c], FALSE)

Overtake(c) ==
    overtaken' = [d \in Consumer |-> d # c /\ (overtaken[d] \/ retry[d] # 0)]

(* Mutants: three times what is needed; half as much again as what was     *)
(* read; the size in front of the message is forgotten.                    *)
DemandedSize_thrice == result'.messages_size * 3
DemandedSize_read   == (Fifo!Bytes(result'.messages) * 3) \div 2
DemandedSize_bare   == ((result'.messages_size - HeaderSize) * 3) \div 2

DemandedSize == (result'.messages_size * 3) \div 2

TooSmall    == result'.status = "Q_MSG_BUFFER_TOO_SMALL"
NothingRead == result'.messages = <<>>
LoadsRaises == \E k \in 1..Len(result'.messages) : result'.messages[k] \in Unreadable

(* A mutant: the larger buffer is for the next call of the user. *)
GetAgain_gives_up(c) ==
    /\ GetRead(c) /\ TooSmall /\ NothingRead
    /\ reallocate_msg_buffer(c, DemandedSize)
    /\ retry' = [retry EXCEPT ![c] = 0]
    /\ UNCHANGED overtaken

(* The buffer had no room for the first message: a bigger one, and again. *)
GetAgain(c) ==
    /\ GetRead(c) /\ TooSmall /\ NothingRead
    /\ reallocate_msg_buffer(c, DemandedSize)
    /\ retry' = [retry EXCEPT ![c] = call[c].max_messages_to_get]
    /\ overtaken' = [overtaken EXCEPT ![c] = FALSE]

(* parse_messages gives out the messages; only then does the buffer grow.  *)
(* A call that read nothing, or a message that loads raises an exception   *)
(* for, ends in that exception.                                            *)
GetMessages(c) ==
    /\ GetRead(c) /\ ~(TooSmall /\ NothingRead)
    /\ IF TooSmall /\ ~LoadsRaises
       THEN reallocate_msg_buffer(c, DemandedSize)
       ELSE UNCHANGED message_buffer
    /\ retry' = [retry EXCEPT ![c] = 0]
    /\ IF NothingRead THEN UNCHANGED overtaken ELSE Overtake(c)

(* raise Empty() *)
RaiseEmpty(c) == /\ GetEmpty(c)
                 /\ retry' = [retry EXCEPT ![c] = 0]
                 /\ UNCHANGED <<message_buffer, overtaken>>

PyQueueGet(c) == \/ GetAgain(c) \/ GetMessages(c) \/ RaiseEmpty(c)
                 \/ GetWait(c) /\ UNCHANGED py

PyQueuePut(p) == QueuePut(p) /\ UNCHANGED py

NewPyCall ==
    \/ \E p \in Producer, batch \in Batch, block \in BOOLEAN : put_many(p, batch, block)
    \/ \E c \in Consumer, n \in MaxMessages, block \in BOOLEAN : get_many(c, n, block)

Waits(t) == /\ Lock(t) \/ Relock(t) \/ Expire(t) \/ WakeSpuriously(t)
            /\ UNCHANGED py

PyNext == \/ NewPyCall
          \/ \E c \in Consumer : Retry(c) \/ PyQueueGet(c)
          \/ \E c, d \in Consumer : Unpickle(c, d)
          \/ \E p \in Producer : PyQueuePut(p)
          \/ \E t \in Thread : Waits(t)

PySpec == PyInit /\ [][PyNext]_pyvars

(* The fairness of QueueSync, and a thread that retries gets to run. *)
PyFairness ==
    /\ \A t \in Thread : /\ WF_pyvars(Lock(t) /\ UNCHANGED py)
                         /\ WF_pyvars(Relock(t) /\ UNCHANGED py)
                         /\ SF_pyvars(Expire(t) /\ UNCHANGED py)
    /\ \A p \in Producer : WF_pyvars(PyQueuePut(p))
    /\ \A c \in Consumer : WF_pyvars(PyQueueGet(c)) /\ WF_pyvars(Retry(c))

PyFairSpec == PySpec /\ PyFairness
-----------------------------------------------------------------------------
(* The types: a receive buffer is of the initial size, however large that  *)
(* is, or no larger than half as much again as the whole queue.            *)
PyTypeOK ==
    /\ TypeOK
    /\ message_buffer \in [Consumer -> BufferSize]
    /\ retry \in [Consumer -> MaxMessages \cup {0}]
    /\ overtaken \in [Consumer -> BOOLEAN]

(* "The size of the buffer is increased gradually to match demand": it is  *)
(* never given up for a smaller one, and each retry has a larger one.      *)
BufferGrows ==
    [][\A c \in Consumer : /\ message_buffer'[c] >= message_buffer[c]
                           /\ GetAgain(c) => message_buffer'[c] > message_buffer[c]]_pyvars

(* The message a retry was made for is the next one it gets, unless        *)
(* another consumer got hold of the mutex in between: a retry comes back   *)
(* with nothing only when it was overtaken.                                *)
RetryServed ==
    [][\A c \in Consumer :
          retry[c] # 0 /\ pc[c] = "locked" /\ pc'[c] = "out" /\ ~overtaken[c]
              => result'.messages # <<>>]_pyvars

Idle == Quiescent /\ \A c \in Consumer : retry[c] = 0

(* A queue_get that takes nothing, because its buffer is too small, does   *)
(* not pass on to a producer the signal that woke it.  The retry does: in  *)
(* the end no producer is left asleep beside room for its batch, and no    *)
(* consumer beside messages.                                               *)
NobodyLeftAsleep ==
    Idle => \A t \in Thread : pc[t] = "asleep" =>
        IF t \in Producer THEN ~Fifo!Fits(queue, call[t]) ELSE queue = <<>>

InGetMany(c) == pc[c] # "out" \/ retry[c] # 0

(* get_many calls itself only so often: it returns, however often it is    *)
(* overtaken, unless new calls go on for ever.                             *)
EveryGetReturns ==
    \A c \in Consumer : (InGetMany(c) ~> ~InGetMany(c)) \/ []<><<NewPyCall>>_pyvars
=============================================================================

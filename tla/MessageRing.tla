---------------------------- MODULE MessageRing ----------------------------
(***************************************************************************)
(* The two critical sections of cpp_lib/faster_fifo.cpp, queue_put and     *)
(* queue_get, on the real circular buffer, one store to shared memory at a *)
(* time, and the parse_messages of faster_fifo.pyx that takes the bytes    *)
(* apart again.  One call at a time: the mutex that makes it so, and the   *)
(* waiting inside it, are LockedRing's.  Here each call finds out at once  *)
(* whether it may proceed, as it does after its last wait; and its local   *)
(* variables are cleared when it returns.                                  *)
(***************************************************************************)
EXTENDS Integers, Sequences

CONSTANTS Blank,           (* a byte of memory nobody wrote                *)
          Message,         (* the serialized messages, as sequences of bytes *)
          HeaderSize,      (* sizeof(size_t)                               *)
          max_size_bytes, maxsize,
          Batch,           (* the batches queue_put is called with         *)
          Request          (* the limits queue_get is called with          *)

ASSUME HeaderAssumption  == HeaderSize \in Nat \ {0}
ASSUME CapacityAssumption == max_size_bytes \in Nat \ {0} /\ maxsize \in Nat
ASSUME BatchAssumption   == Batch \subseteq Seq(Message)
ASSUME RequestAssumption == Request \subseteq [msg_buffer_size     : Nat,
                                               max_messages_to_get : Nat,
                                               max_bytes_to_get    : Nat]

VARIABLES buffer, head, tail, size, data,   (* the circular buffer        *)
          num_elem,                          (* how many messages it holds *)
          pc,                                (* where the call stands      *)
          msgs, i,                           (* queue_put: batch, index    *)
          request, msg_size, msg_buffer,     (* queue_get: limits, size of *)
          messages_read, bytes_read,         (*   the next message, output *)
          messages_size,                     (*   buffer, counters         *)
          result                             (* what the last call returned *)

ring  == <<buffer, head, tail, size, data>>
put   == <<msgs, i>>
get   == <<request, msg_size, msg_buffer, messages_read, bytes_read, messages_size>>
vars  == <<ring, num_elem, pc, put, get, result>>

MsgSize(m) == Len(m)

(* A size_t in memory is HeaderSize bytes that only together say which. *)
SizeBytes(n) == [k \in 1..HeaderSize |-> <<"size", n, k>>]
Sizes        == { MsgSize(m) : m \in Message }
SizeOf(bytes) == CHOOSE n \in Sizes : bytes = SizeBytes(n)

Byte == {Blank} \cup (UNION { { SizeBytes(n)[k] : k \in 1..HeaderSize } : n \in Sizes })
                \cup (UNION { { m[k] : k \in 1..Len(m) } : m \in Message })

ASSUME MessageAssumption == Message \subseteq Seq(Byte)

Ring == INSTANCE CircularBuffer
            WITH Block <- Message \cup { SizeBytes(n) : n \in Sizes }

(* Walk num_messages frames from the start of the bytes. *)
SizeAt(bytes, offset) == SizeOf(SubSeq(bytes, offset + 1, offset + HeaderSize))

Offsets(num_messages, bytes) ==
    LET offset[k \in 0..num_messages] ==
            IF k = 0 THEN 0
            ELSE offset[k - 1] + HeaderSize + SizeAt(bytes, offset[k - 1])
    IN  offset

parse_messages(num_messages, bytes) ==
    LET offset == Offsets(num_messages, bytes)
    IN  [messages |-> [k \in 1..num_messages |->
                          SubSeq(bytes, offset[k - 1] + HeaderSize + 1, offset[k])],
         total_bytes |-> offset[num_messages]]

(* The queue the callers see while a call is under way: a batch counts     *)
(* only when queue_put is done with it, and what queue_get has taken so    *)
(* far is still in it until queue_get returns.                             *)
Popped       == messages_read + (IF pc = "uncount" THEN 1 ELSE 0)
FramesQueued == num_elem - (IF pc = "uncount" THEN 1 ELSE 0)

VisibleQueue == parse_messages(Popped, msg_buffer).messages
                  \o parse_messages(FramesQueued - i, Ring!Contents).messages

Fifo == INSTANCE FifoQueue WITH queue <- VisibleQueue

NoRequest == [msg_buffer_size |-> 0, max_messages_to_get |-> 0, max_bytes_to_get |-> 0]

Init == /\ Ring!Init
        /\ num_elem = 0
        /\ pc = "unlocked"
        /\ msgs = <<>> /\ i = 0
        /\ request = NoRequest /\ msg_size = 0 /\ msg_buffer = <<>>
        /\ messages_read = 0 /\ bytes_read = 0 /\ messages_size = 0
        /\ result = Fifo!Idle
-----------------------------------------------------------------------------
(* A mutant: room for one more message is enough for any number. *)
can_fit_one(data_size, additional_size) == /\ size + data_size <= max_size_bytes
                                           /\ num_elem < maxsize

can_fit(data_size, additional_size) == /\ size + data_size <= max_size_bytes
                                       /\ num_elem + additional_size <= maxsize

(* A mutant: the sizes written in front of the messages are forgotten. *)
total_size_bare(batch) == Fifo!Bytes(batch) - HeaderSize * Len(batch)

total_size(batch) == Fifo!Bytes(batch)

(* LockGuard: the call is alone until it returns. *)
StartPut(batch) == /\ pc' = "put_locked" /\ msgs' = batch
                   /\ result' = Fifo!Putting(batch)
                   /\ UNCHANGED <<ring, num_elem, i, get>>

LockPut(batch) == pc = "unlocked" /\ StartPut(batch)

BeginPut == /\ pc = "put_locked"
            /\ can_fit(total_size(msgs), Len(msgs))
            /\ pc' = "put"
            /\ UNCHANGED <<ring, num_elem, put, get, result>>

PutFull == /\ pc = "put_locked"
           /\ ~can_fit(total_size(msgs), Len(msgs))
           /\ pc' = "unlocked" /\ msgs' = <<>>
           /\ result' = Fifo!PutReply("Q_FULL")
           /\ UNCHANGED <<ring, num_elem, i, get>>

WriteSize == /\ pc = "put" /\ i < Len(msgs)
             /\ Ring!circular_buffer_write(SizeBytes(MsgSize(msgs[i + 1])))
             /\ pc' = "write_message"
             /\ UNCHANGED <<num_elem, put, get, result>>

WriteMessage == /\ pc = "write_message"
                /\ Ring!circular_buffer_write(msgs[i + 1])
                /\ pc' = "count"
                /\ UNCHANGED <<num_elem, put, get, result>>

(* A mutant: a batch counts as one message. *)
CountMessage_once == /\ pc = "count"
                     /\ num_elem' = IF i = 0 THEN num_elem + 1 ELSE num_elem
                     /\ i' = i + 1
                     /\ pc' = "put"
                     /\ UNCHANGED <<ring, msgs, get, result>>

CountMessage == /\ pc = "count"
                /\ num_elem' = num_elem + 1
                /\ i' = i + 1
                /\ pc' = "put"
                /\ UNCHANGED <<ring, msgs, get, result>>

EndPut == /\ pc = "put" /\ i = Len(msgs)
          /\ pc' = "unlocked" /\ msgs' = <<>> /\ i' = 0
          /\ result' = Fifo!PutReply("Q_SUCCESS")
          /\ UNCHANGED <<ring, num_elem, get>>
-----------------------------------------------------------------------------
StartGet(limits) == /\ pc' = "get_locked" /\ request' = limits
                    /\ result' = Fifo!Getting(limits)
                    /\ UNCHANGED <<ring, num_elem, put, msg_size, msg_buffer,
                                   messages_read, bytes_read, messages_size>>

LockGet(limits) == pc = "unlocked" /\ StartGet(limits)

BeginGet == /\ pc = "get_locked"
            /\ size > 0
            /\ pc' = "get"
            /\ UNCHANGED <<ring, num_elem, put, get, result>>

GetEmpty == /\ pc = "get_locked"
            /\ size <= 0
            /\ pc' = "unlocked" /\ request' = NoRequest
            /\ result' = Fifo!EmptyReply
            /\ UNCHANGED <<ring, num_elem, put, msg_size, msg_buffer,
                           messages_read, bytes_read, messages_size>>

(* A mutant: a get of n messages stops one short. *)
ReadMore_one_short == /\ messages_read + 1 < request.max_messages_to_get
                      /\ bytes_read < request.max_bytes_to_get

ReadMore == /\ messages_read < request.max_messages_to_get
            /\ bytes_read < request.max_bytes_to_get

(* A mutant: the last message's size is not counted. *)
TooSmall_bare(needed) == request.msg_buffer_size < needed - HeaderSize

TooSmall(needed) == request.msg_buffer_size < needed

(* Look at the size of the next message and see whether it fits. *)
PeekSize ==
    /\ pc = "get" /\ ReadMore
    /\ Ring!circular_buffer_read(HeaderSize, FALSE)
    /\ msg_size' = SizeOf(data')
    /\ messages_size' = messages_size + HeaderSize + msg_size'
    /\ pc' = IF TooSmall(messages_size') THEN "too_small" ELSE "pop"
    /\ UNCHANGED <<num_elem, put, request, msg_buffer, messages_read, bytes_read, result>>

PopMessage ==
    /\ pc = "pop"
    /\ LET read_num_bytes == HeaderSize + msg_size
       IN  /\ Ring!circular_buffer_read(read_num_bytes, TRUE)
           /\ bytes_read' = bytes_read + read_num_bytes
    /\ msg_buffer' = msg_buffer \o data'
    /\ pc' = "uncount"
    /\ UNCHANGED <<num_elem, put, request, msg_size, messages_read, messages_size, result>>

(* A mutant: the loop breaks before the last message is counted. *)
UncountMessage_late ==
    /\ pc = "uncount"
    /\ messages_read' = IF size <= 0 THEN messages_read ELSE messages_read + 1
    /\ num_elem' = num_elem - 1
    /\ pc' = IF size <= 0 THEN "drained" ELSE "get"
    /\ UNCHANGED <<ring, put, request, msg_size, msg_buffer, bytes_read, messages_size, result>>

UncountMessage ==
    /\ pc = "uncount"
    /\ messages_read' = messages_read + 1
    /\ num_elem' = num_elem - 1
    /\ pc' = IF size <= 0 THEN "drained" ELSE "get"
    /\ UNCHANGED <<ring, put, request, msg_size, msg_buffer, bytes_read, messages_size, result>>

(* Has the loop of queue_get ended: out of messages, of room, at a limit? *)
LoopEnded == pc \in {"drained", "too_small"} \/ (pc = "get" /\ ~ReadMore)

EndGet ==
    /\ LoopEnded
    /\ result' = [op            |-> "get",
                  status        |-> IF pc = "too_small" THEN "Q_MSG_BUFFER_TOO_SMALL"
                                                        ELSE "Q_SUCCESS",
                  messages      |-> parse_messages(messages_read, msg_buffer).messages,
                  messages_size |-> messages_size]
    /\ pc' = "unlocked"
    /\ request' = NoRequest /\ msg_size' = 0 /\ msg_buffer' = <<>>
    /\ messages_read' = 0 /\ bytes_read' = 0 /\ messages_size' = 0
    /\ UNCHANGED <<ring, num_elem, put>>

Next == \/ \E batch \in Batch : LockPut(batch)
        \/ BeginPut \/ PutFull \/ WriteSize \/ WriteMessage \/ CountMessage \/ EndPut
        \/ \E limits \in Request : LockGet(limits)
        \/ BeginGet \/ GetEmpty \/ PeekSize \/ PopMessage \/ UncountMessage \/ EndGet

Spec == Init /\ [][Next]_vars
-----------------------------------------------------------------------------
(* The types: the counters stay within the capacities after every single   *)
(* store, so that no size_t wraps and no reader of qsize() or data_size(), *)
(* which take no lock, sees a number that never was one.                   *)
TypeOK == /\ Ring!TypeOK
          /\ num_elem \in 0..maxsize
          /\ pc \in {"unlocked", "put_locked", "put", "write_message", "count",
                     "get_locked", "get", "pop", "uncount", "drained", "too_small"}
          /\ msgs \in Batch \cup {<<>>} /\ i \in 0..Len(msgs)
          /\ request \in Request \cup {NoRequest}
          /\ msg_size \in Sizes \cup {0} /\ msg_buffer \in Seq(Byte)
          /\ messages_read \in 0..maxsize
          /\ bytes_read \in 0..max_size_bytes /\ messages_size \in 0..max_size_bytes

(* The bytes of the frame that is being written and not counted yet. *)
Uncounted == CASE pc = "write_message" -> HeaderSize
               [] pc = "count"         -> HeaderSize + MsgSize(msgs[i + 1])
               [] OTHER                -> 0

(* size and num_elem are kept apart and never compared: whatever wrapped,  *)
(* and however many puts and gets came before, the num_elem frames from    *)
(* head on, each as long as the size in front of it says, are exactly the  *)
(* bytes queued, so that the next peek finds a size and not a message.     *)
WholeFrames ==
    size = parse_messages(FramesQueued, Ring!Contents).total_bytes + Uncounted

(* queue_get never writes past the caller's buffer, and fills it without   *)
(* gaps from the start.                                                    *)
NoOverrun == /\ bytes_read <= request.msg_buffer_size
             /\ bytes_read = Len(msg_buffer)

(* Of the two errors faster_fifo.pyx guards against: a get that is done    *)
(* has at least one message, unless the buffer has no room for the first   *)
(* or none was asked for, which is the one case where the first error is   *)
(* raised; and parse_messages ends where the bytes read do.                *)
NeverMisread ==
    LoopEnded =>
        /\ \/ messages_read > 0
           \/ pc = "too_small"
           \/ request.max_messages_to_get = 0 \/ request.max_bytes_to_get = 0
        /\ parse_messages(messages_read, msg_buffer).total_bytes = bytes_read

(* queue_put and queue_get meet the obligations of the circular buffer,    *)
(* which checks none of them: no write without room, no read past the end. *)
MeetsRing == Ring!Spec

(* However many stores a call takes, it puts the whole batch or nothing,   *)
(* and takes exactly the longest run of the oldest messages its limits     *)
(* allow, intact and in order.                                             *)
IsFifoQueue == Fifo!Spec
=============================================================================

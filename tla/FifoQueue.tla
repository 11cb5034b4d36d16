----------------------------- MODULE FifoQueue -----------------------------
(***************************************************************************)
(* What faster_fifo.Queue promises its callers, without bytes, locks or    *)
(* waiting: a first-in first-out sequence of messages, bounded in bytes    *)
(* and in number.  A put adds its whole batch or raises Full; a get takes  *)
(* as many messages "as there are available AND can fit in the             *)
(* pre-allocated memory buffer" (README), or raises Empty.  One call at a  *)
(* time begins, with what it asks for, and does all of its work in one     *)
(* step that returns `result`; or it waits, and another one begins.        *)
(***************************************************************************)
EXTENDS Messages

CONSTANTS Batch,           (* the batches that are put                     *)
          Request          (* the limits of those who get                  *)

VARIABLES queue, result

vars == <<queue, result>>
-----------------------------------------------------------------------------
EmptyReply == [op |-> "get", status |-> "Q_EMPTY", messages |-> <<>>, messages_size |-> 0]

PutReply(status) == [op |-> "put", status |-> status]

(* No call has begun yet, or one has and not returned. *)
Idle             == [op |-> "none"]
Putting(batch)   == [op |-> "putting", asked |-> batch]
Getting(request) == [op |-> "getting", asked |-> request]
-----------------------------------------------------------------------------
Init == queue = <<>> /\ result = Idle

BeginPut(batch) == result' = Putting(batch) /\ UNCHANGED queue

BeginGet(request) == result' = Getting(request) /\ UNCHANGED queue

Put(batch) == /\ result = Putting(batch)
              /\ Fits(queue, batch)
              /\ queue' = queue \o batch
              /\ result' = PutReply("Q_SUCCESS")

PutFull(batch) == /\ result = Putting(batch)
                  /\ ~Fits(queue, batch)
                  /\ result' = PutReply("Q_FULL")
                  /\ UNCHANGED queue

Get(request) == /\ result = Getting(request)
                /\ queue # <<>>
                /\ queue' = Rest(request, queue)
                /\ result' = Reply(request, queue)

GetEmpty(request) == /\ result = Getting(request)
                     /\ queue = <<>>
                     /\ result' = EmptyReply
                     /\ UNCHANGED queue

Next == \/ \E batch \in Batch : BeginPut(batch) \/ Put(batch) \/ PutFull(batch)
        \/ \E request \in Request : BeginGet(request) \/ Get(request) \/ GetEmpty(request)

Spec == Init /\ [][Next]_vars
=============================================================================

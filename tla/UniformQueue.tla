---------------------------- MODULE UniformQueue ----------------------------
(***************************************************************************)
(* The use of the queue for which its signals suffice: every put has one   *)
(* message, all messages have one size, which is at least what queue_put   *)
(* takes for the smallest, and every get has room for one.                 *)
(***************************************************************************)
EXTENDS QueueSync

(* One message per put, all of one size. *)
OneSize ==
    /\ \A batch \in Batch : Len(batch) = 1
    /\ \A m1, m2 \in Message : MsgSize(m1) = MsgSize(m2)
    /\ \A m \in Message : MsgSize(m) >= 1

(* A get asks for a message at least, and has room for it. *)
RoomForOne ==
    \A limits \in Request :
        /\ limits.max_messages_to_get \in Nat \ {0}
        /\ limits.max_bytes_to_get \in Nat \ {0}
        /\ limits.msg_buffer_size \in Nat
        /\ \A m \in Message : HeaderSize + MsgSize(m) <= limits.msg_buffer_size

Uniform == OneSize /\ RoomForOne

(* Some thread is on its way out of the wait or in the critical section.   *)
Up(threads) == \E t \in threads : pc[t] \in {"awake", "locked"}

Room(q) == \E batch \in Batch : Fifo!Fits(q, batch)

(* Why no wakeup is lost: each signal is in the hands of somebody who will *)
(* pass it on.  Where a consumer sleeps beside messages, another consumer  *)
(* is up, or a producer that will find room and then signal; and where a   *)
(* producer sleeps beside room, another producer is up, or a consumer that *)
(* will find a message.                                                    *)
SomebodyIsUp ==
    /\ Asleep(Consumer) # {} /\ queue # <<>> =>
          Up(Consumer) \/ (Room(queue) /\ Up(Producer))
    /\ Asleep(Producer) # {} /\ Room(queue) =>
          Up(Producer) \/ (queue # <<>> /\ Up(Consumer))
=============================================================================

------------------------------ MODULE Shutdown ------------------------------
(***************************************************************************)
(* close() and is_closed() of faster_fifo.pyx set and read a shared flag   *)
(* that no other operation of the queue looks at.  What they are for is in *)
(* the programs of the tests: producers that repeat a put until it is not  *)
(* Full, consumers that look at the flag when a get raises Empty, and a    *)
(* main program that joins the producers, closes the queue and joins the   *)
(* consumers.  A put or get is one step, as QueueSync justifies.  The      *)
(* store to the flag may reach other processes late, but after it the main *)
(* program only joins: late visibility is a Close that happens later.      *)
(***************************************************************************)
EXTENDS Integers, Sequences

CONSTANTS Producer, Consumer,
          num_messages,                (* that each producer puts          *)
          MsgSize(_), HeaderSize,
          max_size_bytes, maxsize,
          Request                      (* what the consumers ask for       *)

ASSUME NumAssumption == num_messages \in Nat

VARIABLES queue, closed,
          i,         (* produce: how many messages each producer has put   *)
          consumer,  (* consume: "getting", "empty" before it looks at the *)
                     (*   flag, or "done"                                  *)
          main,      (* what the main program waits for, or does next      *)
          late       (* history: the messages put since the Empty after    *)
                     (*   which a consumer looks, or looked, at the flag   *)

vars == <<queue, closed, i, consumer, main, late>>

Message == Producer \X Nat
Fifo == INSTANCE FifoQueue
            WITH Batch <- { <<m>> : m \in Message }, result <- FALSE

Init == /\ queue = <<>> /\ closed = FALSE
        /\ i = [p \in Producer |-> 0]
        /\ consumer = [c \in Consumer |-> "getting"]
        /\ main = "join producers"
        /\ late = [c \in Consumer |-> {}]
-----------------------------------------------------------------------------
(* A mutant: one message too many. *)
WantsToPut_once_more(p) == i[p] <= num_messages

(* while i < num_messages *)
WantsToPut(p) == i[p] < num_messages

(* The body of the loop of produce(); when there is no room, put waits, or *)
(* raises Full and is repeated.                                            *)
Produce(p) ==
    LET m == <<p, i[p]>>
    IN  /\ WantsToPut(p)
        /\ Fifo!Fits(queue, <<m>>)
        /\ queue' = Append(queue, m)
        /\ i' = [i EXCEPT ![p] = i[p] + 1]
        /\ late' = [c \in Consumer |-> IF consumer[c] = "getting"
                                        THEN {} ELSE late[c] \cup {m}]
        /\ UNCHANGED <<closed, consumer, main>>

(* get_many returns messages. *)
GetMessages(c) == /\ consumer[c] = "getting"
                  /\ queue # <<>>
                  /\ \E limits \in Request : queue' = Fifo!Rest(limits, queue)
                  /\ UNCHANGED <<closed, i, consumer, main, late>>

(* get_many has waited in vain and raises Empty. *)
GetEmpty(c) == /\ consumer[c] = "getting"
               /\ queue = <<>>
               /\ consumer' = [consumer EXCEPT ![c] = "empty"]
               /\ UNCHANGED <<queue, closed, i, main, late>>

LookAtFlag(c) ==
    /\ consumer' = [consumer EXCEPT ![c] = IF closed THEN "done" ELSE "getting"]
    /\ late' = IF closed THEN late ELSE [late EXCEPT ![c] = {}]
    /\ UNCHANGED <<queue, closed, i, main>>

(* A mutant: the flag is looked at whatever the get brought. *)
CheckClosed_always(c) == consumer[c] # "done" /\ LookAtFlag(c)

(* except Empty: if q.is_closed(): break *)
CheckClosed(c) == consumer[c] = "empty" /\ LookAtFlag(c)

Joined == \A p \in Producer : ~WantsToPut(p)
Ended  == \A c \in Consumer : consumer[c] = "done"

(* A mutant: the producers are not joined. *)
JoinProducers_not == /\ main = "join producers"
                     /\ main' = "close"
                     /\ UNCHANGED <<queue, closed, i, consumer, late>>

(* p.join() for each producer *)
JoinProducers == /\ main = "join producers" /\ Joined
                 /\ main' = "close"
                 /\ UNCHANGED <<queue, closed, i, consumer, late>>

close == /\ main = "close"
         /\ closed' = TRUE
         /\ main' = "join consumers"
         /\ UNCHANGED <<queue, i, consumer, late>>

(* c.join() for each consumer *)
JoinConsumers == /\ main = "join consumers" /\ Ended
                 /\ main' = "exit"
                 /\ UNCHANGED <<queue, closed, i, consumer, late>>

Consume(c) == GetMessages(c) \/ GetEmpty(c) \/ CheckClosed(c)
Main == JoinProducers \/ close \/ JoinConsumers

Next == \/ \E p \in Producer : Produce(p)
        \/ \E c \in Consumer : Consume(c)
        \/ Main

Spec == Init /\ [][Next]_vars

(* Every process runs; one whose put finds no room goes on trying. *)
FairSpec == /\ Spec
            /\ \A p \in Producer : WF_vars(Produce(p))
            /\ \A c \in Consumer : WF_vars(Consume(c))
            /\ WF_vars(Main)
-----------------------------------------------------------------------------
(* The types, and that no producer puts more than it was asked to.         *)
TypeOK == /\ queue \in Seq(Message) /\ closed \in BOOLEAN
          /\ i \in [Producer -> 0..num_messages]
          /\ consumer \in [Consumer -> {"getting", "empty", "done"}]
          /\ main \in {"join producers", "close", "join consumers", "exit"}
          /\ late \in [Consumer -> SUBSET Message]

(* What the consumers leave behind when they have all ended was put after  *)
(* the last Empty of every one of them and before it looked at the flag:   *)
(* the one window in which messages get lost.                              *)
OnlyLateMessagesLeft ==
    Ended => \A c \in Consumer, n \in 1..Len(queue) : queue[n] \in late[c]

(* Every program of this form ends, with all messages put: no consumer is  *)
(* gone while a producer still needs it to make room.                      *)
Terminates == <>(Joined /\ main = "exit")
=============================================================================

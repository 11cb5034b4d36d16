----------------------------- MODULE QueueSync -----------------------------
(***************************************************************************)
(* The waiting and waking of cpp_lib/faster_fifo.cpp: producers in         *)
(* queue_put and consumers in queue_get, threads or processes, one mutex   *)
(* and two condition variables in shared memory, and timeouts.  What a     *)
(* call does to the queue while it holds the mutex is one step here;       *)
(* LockedRing shows that its stores amount to that step.                   *)
(***************************************************************************)
EXTENDS Integers, Sequences, FiniteSets

CONSTANTS Producer, Consumer,   (* the callers of queue_put and queue_get  *)
          Nobody,               (* who holds the mutex when nobody does    *)
          NoCall,               (* the call of a thread outside the queue  *)
          Message, MsgSize(_), HeaderSize,
          max_size_bytes, maxsize,
          Batch, Request        (* what the calls ask for                  *)

Thread == Producer \cup Consumer

ASSUME ThreadAssumption   == /\ IsFiniteSet(Thread)
                             /\ Producer \cap Consumer = {}
                             /\ Nobody \notin Thread
ASSUME BatchAssumption    == Batch \subseteq Seq(Message)
ASSUME CapacityAssumption == max_size_bytes \in Nat /\ maxsize \in Nat
ASSUME SizeAssumption     == /\ HeaderSize \in Nat
                             /\ \A m \in Message : MsgSize(m) \in Nat

VARIABLES queue,        (* the messages in the circular buffer             *)
          result,       (* what the last call returned, or what the call   *)
                        (* asks for that got the mutex since               *)
          mutex,        (* the thread that holds q->mutex                  *)
          pc,           (* where each thread stands                        *)
          call,         (* the batch or the limits of its call             *)
          may_wait,     (* block && timer_positive(wait_remaining)         *)
          not_empty_n_waiters, not_full_n_waiters

vars == <<queue, result, mutex, pc, call, may_wait,
          not_empty_n_waiters, not_full_n_waiters>>

counts == <<not_empty_n_waiters, not_full_n_waiters>>

Fifo == INSTANCE FifoQueue

(* pc: outside the queue; waiting for the mutex; holding it; in            *)
(* pthread_cond_timedwait, asleep; awake in it, and in need of the mutex.  *)
Init == /\ Fifo!Init
        /\ mutex = Nobody
        /\ pc = [t \in Thread |-> "out"]
        /\ call = [t \in Thread |-> NoCall]
        /\ may_wait = [t \in Thread |-> FALSE]
        /\ not_empty_n_waiters = 0 /\ not_full_n_waiters = 0
-----------------------------------------------------------------------------
Asleep(threads) == { t \in threads : pc[t] = "asleep" }

(* t goes on to `next`; pthread_cond_signal wakes one of those asleep on   *)
(* the condition variable, if there is any: it is not the waiter count     *)
(* that decides.                                                           *)
SignalAndGo(threads, t, next) ==
    \/ \E w \in Asleep(threads) : pc' = [pc EXCEPT ![t] = next, ![w] = "awake"]
    \/ /\ Asleep(threads) = {}
       /\ pc' = [pc EXCEPT ![t] = next]

Go(t, next) == pc' = [pc EXCEPT ![t] = next]

(* ~LockGuard *)
Unlock == mutex' = Nobody

(* A call with `block` false never waits, nor does one with no timeout.    *)
Call(t, parameters, block) ==
    /\ pc[t] = "out"
    /\ Go(t, "locking")
    /\ call' = [call EXCEPT ![t] = parameters]
    /\ may_wait' = [may_wait EXCEPT ![t] = block]
    /\ UNCHANGED <<queue, result, mutex, counts>>

(* For FifoQueue the call begins whenever it gets the mutex. *)
Begun(t) == IF t \in Producer THEN Fifo!Putting(call[t]) ELSE Fifo!Getting(call[t])

(* A mutant: the guard is forgotten. *)
Lock_unguarded(t) == /\ pc[t] = "locking"
                     /\ mutex' = t
                     /\ Go(t, "locked")
                     /\ result' = Begun(t)
                     /\ UNCHANGED <<queue, call, may_wait, counts>>

(* LockGuard *)
Lock(t) == /\ pc[t] = "locking"
           /\ mutex = Nobody
           /\ mutex' = t
           /\ Go(t, "locked")
           /\ result' = Begun(t)
           /\ UNCHANGED <<queue, call, may_wait, counts>>

Return(t, reply) == /\ result' = reply
                    /\ call' = [call EXCEPT ![t] = NoCall]
                    /\ may_wait' = [may_wait EXCEPT ![t] = FALSE]
                    /\ Unlock
-----------------------------------------------------------------------------
(* queue_put *)
PutFull(p) == /\ pc[p] = "locked"
              /\ ~Fifo!Fits(queue, call[p])
              /\ ~may_wait[p]
              /\ Return(p, Fifo!PutReply("Q_FULL"))
              /\ Go(p, "out")
              /\ UNCHANGED <<queue, counts>>

(* "If there are any consumers waiting, wake them up!", then wait. *)
PutWait(p) == /\ pc[p] = "locked"
              /\ ~Fifo!Fits(queue, call[p])
              /\ may_wait[p]
              /\ IF not_empty_n_waiters > 0
                 THEN SignalAndGo(Consumer, p, "asleep")
                 ELSE Go(p, "asleep")
              /\ not_full_n_waiters' = not_full_n_waiters + 1
              /\ Unlock
              /\ UNCHANGED <<queue, result, call, may_wait, not_empty_n_waiters>>

MIN_MSG_SIZE == HeaderSize + 1

(* Mutants: consumers are woken only when the queue was empty; producers   *)
(* do not wake each other.                                                 *)
WakeAfterPut_if_empty(p) ==
    IF not_empty_n_waiters > 0 /\ queue = <<>>
    THEN SignalAndGo(Consumer, p, "out")
    ELSE IF not_full_n_waiters # 0 /\ Fifo!can_fit(queue', MIN_MSG_SIZE, 1)
    THEN SignalAndGo(Producer, p, "out")
    ELSE Go(p, "out")

WakeAfterPut_no_producer(p) ==
    IF not_empty_n_waiters > 0 THEN SignalAndGo(Consumer, p, "out") ELSE Go(p, "out")

(* Wake a consumer or, if none waits and there is room, another producer. *)
WakeAfterPut(p) ==
    IF not_empty_n_waiters > 0
    THEN SignalAndGo(Consumer, p, "out")
    ELSE IF not_full_n_waiters # 0 /\ Fifo!can_fit(queue', MIN_MSG_SIZE, 1)
    THEN SignalAndGo(Producer, p, "out")
    ELSE Go(p, "out")

PutWrite(p) == /\ pc[p] = "locked"
               /\ Fifo!Fits(queue, call[p])
               /\ queue' = queue \o call[p]
               /\ Return(p, Fifo!PutReply("Q_SUCCESS"))
               /\ WakeAfterPut(p)
               /\ UNCHANGED counts
-----------------------------------------------------------------------------
(* queue_get *)
(* A mutant: the clock is looked at before the queue. *)
GetEmpty_late(c) == /\ pc[c] = "locked"
                    /\ ~may_wait[c]
                    /\ Return(c, Fifo!EmptyReply)
                    /\ Go(c, "out")
                    /\ UNCHANGED <<queue, counts>>

GetEmpty(c) == /\ pc[c] = "locked"
               /\ queue = <<>>
               /\ ~may_wait[c]
               /\ Return(c, Fifo!EmptyReply)
               /\ Go(c, "out")
               /\ UNCHANGED <<queue, counts>>

GetWait(c) == /\ pc[c] = "locked"
              /\ queue = <<>>
              /\ may_wait[c]
              /\ Go(c, "asleep")
              /\ not_empty_n_waiters' = not_empty_n_waiters + 1
              /\ Unlock
              /\ UNCHANGED <<queue, result, call, may_wait, not_full_n_waiters>>

(* Mutants: only consumers are woken; only producers are. *)
WakeAfterGet_no_producer(c) ==
    IF queue' # <<>> /\ not_empty_n_waiters > 0
    THEN SignalAndGo(Consumer, c, "out")
    ELSE Go(c, "out")

WakeAfterGet_no_consumer(c) ==
    IF Fifo!Count(call[c], queue) > 0 /\ not_full_n_waiters > 0
    THEN SignalAndGo(Producer, c, "out")
    ELSE Go(c, "out")

(* Wake a producer if one waits and there is room now, or else another     *)
(* consumer if there is more to read.                                      *)
WakeAfterGet(c) ==
    IF Fifo!Count(call[c], queue) > 0 /\ not_full_n_waiters > 0
    THEN SignalAndGo(Producer, c, "out")
    ELSE IF queue' # <<>> /\ not_empty_n_waiters > 0
    THEN SignalAndGo(Consumer, c, "out")
    ELSE Go(c, "out")

GetRead(c) == /\ pc[c] = "locked"
              /\ queue # <<>>
              /\ queue' = Fifo!Rest(call[c], queue)
              /\ Return(c, Fifo!Reply(call[c], queue))
              /\ WakeAfterGet(c)
              /\ UNCHANGED counts
-----------------------------------------------------------------------------
(* wait() *)

(* A mutant: the time that remains is never updated. *)
Expire_renewed(t) == /\ pc[t] \in {"asleep", "awake"}
                     /\ may_wait[t]
                     /\ Go(t, "awake")
                     /\ UNCHANGED <<queue, result, mutex, call, may_wait, counts>>

(* The deadline passes: before a signal, and the thread wakes by itself,   *)
(* or after it, before the thread has the mutex again and reads the clock. *)
Expire(t) == /\ pc[t] \in {"asleep", "awake"}
             /\ may_wait[t]
             /\ may_wait' = [may_wait EXCEPT ![t] = FALSE]
             /\ Go(t, "awake")
             /\ UNCHANGED <<queue, result, mutex, call, counts>>

(* pthread_cond_timedwait may return without a reason. *)
WakeSpuriously(t) == /\ pc[t] = "asleep"
                     /\ Go(t, "awake")
                     /\ UNCHANGED <<queue, result, mutex, call, may_wait, counts>>

(* Mutants: the wrong count goes down; a thread that timed out stays       *)
(* counted.                                                                *)
Uncount_consumer(t) == /\ not_empty_n_waiters' = not_empty_n_waiters - 1
                       /\ UNCHANGED not_full_n_waiters

Uncount_unless_expired(t) ==
    IF ~may_wait[t] THEN UNCHANGED counts
    ELSE IF t \in Consumer
    THEN /\ not_empty_n_waiters' = not_empty_n_waiters - 1
         /\ UNCHANGED not_full_n_waiters
    ELSE /\ not_full_n_waiters' = not_full_n_waiters - 1
         /\ UNCHANGED not_empty_n_waiters

MutexFree == mutex = Nobody

(* It returns once it has the mutex, and only then is the waiter uncounted. *)
Uncount(t) == IF t \in Consumer
              THEN /\ not_empty_n_waiters' = not_empty_n_waiters - 1
                   /\ UNCHANGED not_full_n_waiters
              ELSE /\ not_full_n_waiters' = not_full_n_waiters - 1
                   /\ UNCHANGED not_empty_n_waiters

Relock(t) == /\ pc[t] = "awake"
             /\ MutexFree
             /\ mutex' = t
             /\ Go(t, "locked")
             /\ Uncount(t)
             /\ result' = Begun(t)
             /\ UNCHANGED <<queue, call, may_wait>>
-----------------------------------------------------------------------------
QueuePut(p) == PutFull(p) \/ PutWait(p) \/ PutWrite(p)
QueueGet(c) == GetEmpty(c) \/ GetWait(c) \/ GetRead(c)

(* The threads that call: with a batch, with limits, blocking or not. *)
NewCall == \/ \E p \in Producer, batch \in Batch, block \in BOOLEAN : Call(p, batch, block)
           \/ \E c \in Consumer, limits \in Request, block \in BOOLEAN : Call(c, limits, block)

Next == \/ NewCall
        \/ \E p \in Producer : QueuePut(p)
        \/ \E c \in Consumer : QueueGet(c)
        \/ \E t \in Thread : Lock(t) \/ Relock(t) \/ Expire(t) \/ WakeSpuriously(t)

Spec == Init /\ [][Next]_vars

(* A thread that holds the mutex, or could have it, goes on, and time      *)
(* passes: a deadline is a fixed instant, so it cannot stay ahead for ever *)
(* however often the thread is woken meanwhile.  Nobody has to call.       *)
Fairness == /\ \A t \in Thread : WF_vars(Lock(t)) /\ WF_vars(Relock(t)) /\ SF_vars(Expire(t))
            /\ \A p \in Producer : WF_vars(QueuePut(p))
            /\ \A c \in Consumer : WF_vars(QueueGet(c))

FairSpec == Spec /\ Fairness
-----------------------------------------------------------------------------
TypeOK == /\ queue \in Seq(Message)
          /\ mutex \in Thread \cup {Nobody}
          /\ pc \in [Thread -> {"out", "locking", "locked", "asleep", "awake"}]
          /\ call \in [Thread -> Batch \cup Request \cup {NoCall}]
          /\ may_wait \in [Thread -> BOOLEAN]
          /\ not_empty_n_waiters \in Nat /\ not_full_n_waiters \in Nat

Waiting(threads) == { t \in threads : pc[t] \in {"asleep", "awake"} }

(* The waiter counts say how many threads are inside                       *)
(* pthread_cond_timedwait, those included that were woken, by a signal or  *)
(* by their deadline, and do not have the mutex yet: no order of signals,  *)
(* timeouts and spurious wakeups makes a count drift or go negative.       *)
CountsExact == /\ not_empty_n_waiters = Cardinality(Waiting(Consumer))
               /\ not_full_n_waiters = Cardinality(Waiting(Producer))

(* At most one thread is between lock and unlock, across the release and   *)
(* the reacquisition inside the wait.                                      *)
MutualExclusion == \A t \in Thread : pc[t] = "locked" <=> mutex = t

(* The queue never holds more bytes or messages than it was made for.      *)
WithinCapacity == Fifo!Bytes(queue) <= max_size_bytes /\ Len(queue) <= maxsize

(* Nothing is going on: every call is asleep or has returned.              *)
Quiescent == \A t \in Thread : pc[t] \in {"out", "asleep"}

(* No lost wakeup: when nothing is going on, no consumer is left asleep    *)
(* beside messages until its timeout.                                      *)
NoConsumerLeftAsleep ==
    Quiescent => \A c \in Consumer : pc[c] = "asleep" => queue = <<>>

(* Nor a producer beside room for its batch.                               *)
NoProducerLeftAsleep ==
    Quiescent => \A p \in Producer : pc[p] = "asleep" => ~Fifo!Fits(queue, call[p])

(* Seen from outside, each call that returns did all it was asked for at   *)
(* one instant, and waiting, waking and timing out leave the queue alone.  *)
IsFifoQueue == Fifo!Spec
=============================================================================

----------------------------- MODULE LockedRing -----------------------------
(***************************************************************************)
(* queue_put and queue_get as a whole, for any number of producers and     *)
(* consumers: the critical sections of MessageRing, store by store, under  *)
(* the mutex and with the waits of cpp_lib/faster_fifo.cpp.  QueueSync,    *)
(* where a section is one step, is what this implements.                   *)
(* There is one copy of the local variables of a call, pc and those behind *)
(* it, for the thread inside its section; that it is free whenever a       *)
(* thread enters is among the properties.                                  *)
(***************************************************************************)
EXTENDS MessageRing, FiniteSets

CONSTANTS Producer, Consumer, Nobody, NoCall      (* as in QueueSync       *)

Thread == Producer \cup Consumer

ASSUME ThreadAssumption == /\ IsFiniteSet(Thread)
                           /\ Producer \cap Consumer = {}
                           /\ Nobody \notin Thread

VARIABLES mutex, call, may_wait,                  (* as in QueueSync       *)
          where,             (* where each thread stands                   *)
          not_empty_n_waiters, not_full_n_waiters

counts     == <<not_empty_n_waiters, not_full_n_waiters>>
lockedvars == <<vars, mutex, call, may_wait, where, counts>>

LockedInit == /\ Init
              /\ mutex = Nobody
              /\ call = [t \in Thread |-> NoCall]
              /\ may_wait = [t \in Thread |-> FALSE]
              /\ where = [t \in Thread |-> "out"]
              /\ not_empty_n_waiters = 0 /\ not_full_n_waiters = 0
-----------------------------------------------------------------------------
Go(t, next) == where' = [where EXCEPT ![t] = next]

Asleep(threads) == { t \in threads : where[t] = "asleep" }

(* pthread_cond_signal, by t, which goes on to `next`. *)
SignalAndGo(threads, t, next) ==
    \/ \E w \in Asleep(threads) : where' = [where EXCEPT ![t] = next, ![w] = "awake"]
    \/ Asleep(threads) = {} /\ Go(t, next)

Call(t, parameters, block) ==
    /\ where[t] = "out" /\ Go(t, "locking")
    /\ call' = [call EXCEPT ![t] = parameters]
    /\ may_wait' = [may_wait EXCEPT ![t] = block]
    /\ UNCHANGED <<vars, mutex, counts>>

(* The top of the loop that waits. *)
Start(t) == IF t \in Producer THEN StartPut(call[t]) ELSE StartGet(call[t])

(* A mutant: the mutex is not looked at. *)
Acquire_unguarded(t) == mutex' = t

Acquire(t) == mutex = Nobody /\ mutex' = t

(* LockGuard and ~LockGuard *)
Lock(t) == /\ where[t] = "locking" /\ Go(t, "locked")
           /\ Acquire(t)
           /\ Start(t)
           /\ UNCHANGED <<call, may_wait, counts>>

Unlock(t) == /\ where[t] = "leaving" /\ Go(t, "out")
             /\ mutex' = Nobody
             /\ UNCHANGED <<vars, call, may_wait, counts>>

(* One store, or one look, of the thread that is inside. *)
Store(t) == /\ where[t] = "locked"
            /\ IF t \in Producer
               THEN BeginPut \/ WriteSize \/ WriteMessage \/ CountMessage
               ELSE BeginGet \/ PeekSize \/ PopMessage \/ UncountMessage
            /\ UNCHANGED <<mutex, call, may_wait, where, counts>>

(* A call is done, and its signal sent; it still has the mutex. *)
Return(t) == /\ where[t] = "locked"
             /\ call' = [call EXCEPT ![t] = NoCall]
             /\ may_wait' = [may_wait EXCEPT ![t] = FALSE]
             /\ UNCHANGED <<mutex, counts>>

GiveUp(t) == /\ ~may_wait[t]
             /\ IF t \in Producer THEN PutFull ELSE GetEmpty
             /\ Go(t, "leaving")
             /\ Return(t)

MIN_MSG_SIZE == HeaderSize + 1

(* A mutant: another producer is woken without a look at the room. *)
FinishPut_blindly(p) ==
    /\ EndPut
    /\ IF not_empty_n_waiters > 0
       THEN SignalAndGo(Consumer, p, "leaving")
       ELSE IF not_full_n_waiters # 0
       THEN SignalAndGo(Producer, p, "leaving")
       ELSE Go(p, "leaving")
    /\ Return(p)

FinishPut(p) ==
    /\ EndPut
    /\ IF not_empty_n_waiters > 0
       THEN SignalAndGo(Consumer, p, "leaving")
       ELSE IF not_full_n_waiters # 0 /\ can_fit(MIN_MSG_SIZE, 1)
       THEN SignalAndGo(Producer, p, "leaving")
       ELSE Go(p, "leaving")
    /\ Return(p)

FinishGet(c) ==
    /\ EndGet
    /\ IF messages_read > 0 /\ not_full_n_waiters > 0
       THEN SignalAndGo(Producer, c, "leaving")
       ELSE IF size > 0 /\ not_empty_n_waiters > 0
       THEN SignalAndGo(Consumer, c, "leaving")
       ELSE Go(c, "leaving")
    /\ Return(c)
-----------------------------------------------------------------------------
(* wait(): the call has to begin anew, at the top of the loop. *)
Withdraw == /\ pc' = "unlocked" /\ msgs' = <<>> /\ request' = NoRequest
            /\ UNCHANGED <<ring, num_elem, i, msg_size, msg_buffer, messages_read,
                           bytes_read, messages_size, result>>

BeginWait(t) == /\ where[t] = "locked" /\ may_wait[t]
                /\ Withdraw
                /\ UNCHANGED <<mutex, call, may_wait, counts>>

PutWait(p) == /\ pc = "put_locked" /\ ~can_fit(total_size(msgs), Len(msgs))
              /\ BeginWait(p)
              /\ IF not_empty_n_waiters > 0
                 THEN SignalAndGo(Consumer, p, "to_wait")
                 ELSE Go(p, "to_wait")

GetWait(c) == /\ pc = "get_locked" /\ size <= 0
              /\ BeginWait(c)
              /\ Go(c, "to_wait")

AddWaiter(t, n) == IF t \in Consumer
                   THEN /\ not_empty_n_waiters' = not_empty_n_waiters + n
                        /\ UNCHANGED not_full_n_waiters
                   ELSE /\ not_full_n_waiters' = not_full_n_waiters + n
                        /\ UNCHANGED not_empty_n_waiters

CountWaiter(t) == /\ where[t] = "to_wait" /\ Go(t, "counted")
                  /\ AddWaiter(t, 1)
                  /\ UNCHANGED <<vars, mutex, call, may_wait>>

(* pthread_cond_timedwait gives the mutex back as the thread falls asleep, *)
(* and has it again when it returns.                                       *)
Sleep(t) == /\ where[t] = "counted" /\ Go(t, "asleep")
            /\ mutex' = Nobody
            /\ UNCHANGED <<vars, call, may_wait, counts>>

WakeSpuriously(t) == /\ where[t] = "asleep" /\ Go(t, "awake")
                     /\ UNCHANGED <<vars, mutex, call, may_wait, counts>>

Relock(t) == /\ where[t] = "awake" /\ Go(t, "woken")
             /\ Acquire(t)
             /\ UNCHANGED <<vars, call, may_wait, counts>>

(* The deadline passes before wait() looks at the clock. *)
Expire(t) == /\ where[t] \in {"asleep", "awake", "woken"} /\ may_wait[t]
             /\ where' = [where EXCEPT ![t] = IF @ = "asleep" THEN "awake" ELSE @]
             /\ may_wait' = [may_wait EXCEPT ![t] = FALSE]
             /\ UNCHANGED <<vars, mutex, call, counts>>

UncountWaiter(t) == /\ where[t] = "woken" /\ Go(t, "locked")
                    /\ AddWaiter(t, -1)
                    /\ Start(t)
                    /\ UNCHANGED <<mutex, call, may_wait>>
-----------------------------------------------------------------------------
LockedNext ==
    \/ \E p \in Producer : FinishPut(p) \/ PutWait(p)
    \/ \E c \in Consumer : FinishGet(c) \/ GetWait(c)
    \/ \E p \in Producer, batch \in Batch, block \in BOOLEAN : Call(p, batch, block)
    \/ \E c \in Consumer, limits \in Request, block \in BOOLEAN : Call(c, limits, block)
    \/ \E t \in Thread : \/ Lock(t) \/ Store(t) \/ GiveUp(t) \/ Unlock(t)
                         \/ CountWaiter(t) \/ Sleep(t) \/ WakeSpuriously(t) \/ Relock(t)
                         \/ Expire(t) \/ UncountWaiter(t)

LockedSpec == LockedInit /\ [][LockedNext]_lockedvars
-----------------------------------------------------------------------------
(* In QueueSync a call has left as soon as its signal is sent, and waits   *)
(* from its decision on and until it is at the top of its loop again.      *)
Shown(place) == CASE place = "leaving"               -> "out"
                  [] place \in {"to_wait", "counted"} -> "asleep"
                  [] place = "woken"                 -> "awake"
                  [] OTHER                           -> place

Place == [t \in Thread |-> Shown(where[t])]

Holder == IF \E t \in Thread : where[t] = "locked" THEN mutex ELSE Nobody

(* Those who wait and are not counted yet. *)
ToCount(threads) == IF \E t \in threads : where[t] = "to_wait" THEN 1 ELSE 0

Sync == INSTANCE QueueSync
            WITH queue <- VisibleQueue, mutex <- Holder, pc <- Place,
                 not_empty_n_waiters <- not_empty_n_waiters + ToCount(Consumer),
                 not_full_n_waiters  <- not_full_n_waiters + ToCount(Producer)

Inside == {"locked", "leaving", "to_wait", "counted", "woken"}

(* The mutex keeps all others out from the first line of a call to its     *)
(* return, but for the wait: so the local variables are those of the one   *)
(* thread inside, and free when a thread starts.                           *)
OneInside ==
    /\ \A t \in Thread : where[t] \in Inside <=> mutex = t
    /\ pc # "unlocked" <=> \E t \in Thread : where[t] = "locked"

(* All the stores of a section amount to one step of QueueSync, and to     *)
(* none before the last of them: other threads may call, wake up and time  *)
(* out in between, and never see a part of a batch or of a frame.          *)
ImplementsQueueSync == Sync!Spec
=============================================================================

----------------------------- MODULE QueueCrash -----------------------------
(***************************************************************************)
(* The queue is shared by processes, and a process can be killed at any    *)
(* point of queue_put or queue_get.  The mutex, the condition variables    *)
(* and the waiter counts lie in shared memory and stay as the dead process *)
(* left them: the mutex is not a robust one, so nobody else gets it, and   *)
(* who was waiting stays counted, and may still be sent a signal.          *)
(***************************************************************************)
EXTENDS QueueSync

CONSTANTS Mortal,       (* the threads whose process may be killed         *)
          MaxCrashes    (* bound: so many of them are                      *)

ASSUME MortalAssumption == Mortal \subseteq Thread /\ MaxCrashes \in Nat

VARIABLE killed

crashvars == <<vars, killed>>
-----------------------------------------------------------------------------
(* Who is killed before it has the mutex is as one who never called. *)
Kill(t) == /\ t \in Mortal \ killed
           /\ pc[t] \in {"locked", "asleep", "awake"}
           /\ Cardinality(killed) < MaxCrashes
           /\ killed' = killed \cup {t}
           /\ UNCHANGED vars

(* What one live thread does. *)
CallBy(t) ==
    \/ t \in Producer /\ \E batch \in Batch, block \in BOOLEAN : Call(t, batch, block)
    \/ t \in Consumer /\ \E limits \in Request, block \in BOOLEAN : Call(t, limits, block)

Works(t) == (t \in Producer /\ QueuePut(t)) \/ (t \in Consumer /\ QueueGet(t))

Lives(t) == t \notin killed /\ UNCHANGED killed

StepOf(t) == /\ CallBy(t) \/ Works(t) \/ Lock(t) \/ Relock(t) \/ Expire(t) \/ WakeSpuriously(t)
             /\ Lives(t)

CrashInit == Init /\ killed = {}
CrashNext == \E t \in Thread : Kill(t) \/ StepOf(t)
CrashSpec == CrashInit /\ [][CrashNext]_crashvars

(* The fairness of QueueSync, for those who live. *)
CrashFairness ==
    \A t \in Thread : /\ WF_crashvars(Lock(t) /\ Lives(t))
                      /\ WF_crashvars(Relock(t) /\ Lives(t))
                      /\ WF_crashvars(Works(t) /\ Lives(t))
                      /\ SF_crashvars(Expire(t) /\ Lives(t))

FairCrashSpec == CrashSpec /\ CrashFairness
-----------------------------------------------------------------------------
(* Nobody but the process that was killed in the critical section is hurt: *)
(* every call of the others returns, by its deadline if the signal it      *)
(* waits for went to a dead waiter, unless new calls go on for ever.       *)
EveryCallReturns ==
    \/ \A t \in Thread : pc[t] # "out" ~> (pc[t] = "out" \/ t \in killed)
    \/ <>(mutex \in killed)
    \/ []<><<\E t \in Thread : CallBy(t)>>_crashvars

Wedged == /\ UNCHANGED <<mutex, queue, result>>
          /\ \A t \in Thread : pc[t] # "out" => pc'[t] # "out"

(* If it was, then that is the end of the queue: no timeout helps those    *)
(* who wait for the mutex, no call ever returns, and what is queued stays  *)
(* as it is.                                                               *)
NobodyPassesTheDead ==
    [][(mutex \in killed) => Wedged]_crashvars
=============================================================================

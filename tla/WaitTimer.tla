----------------------------- MODULE WaitTimer -----------------------------
(***************************************************************************)
(* The clock arithmetic of one blocking call of cpp_lib/faster_fifo.cpp:   *)
(* float_seconds_to_timeval, the deadline that wait() computes anew from   *)
(* what the last wait left, and timer_positive.  The clock is the wall     *)
(* clock, so it may be set while a call is under way.  QueueSync keeps of  *)
(* all this only whether the deadline of a call has passed.                *)
(***************************************************************************)
EXTENDS Integers

CONSTANTS million,    (* the microseconds of a second                      *)
          Timeout,    (* the timeouts of the calls, in microseconds        *)
          MaxClock,   (* bounds for model checking: of the clock           *)
          MaxSkew     (* and of what it is set forth or back during waits  *)

ASSUME MillionAssumption == million \in Nat \ {0}
ASSUME TimeoutAssumption == Timeout \subseteq Nat
ASSUME BoundAssumption   == MaxClock \in Nat /\ MaxSkew \in Nat

VARIABLES clock,            (* what gettimeofday returns, in microseconds  *)
          pc,               (* "out", "looks" at the queue, or "waits"     *)
          wait_remaining,   (* what is left of the timeout                 *)
          wait_until,       (* the deadline of the wait under way          *)
          timeout,          (* history: the timeout of the call, how long  *)
          waited, skew      (*   it has waited, how far the clock was set  *)
                            (*   meanwhile                                 *)

vars == <<clock, pc, wait_remaining, wait_until, timeout, waited, skew>>
-----------------------------------------------------------------------------
Timeval == [tv_sec : Int, tv_usec : 0..million - 1]

Microseconds(t) == t.tv_sec * million + t.tv_usec

(* A mutant: the microseconds keep the seconds in them. *)
float_seconds_to_timeval_whole(wait_us) ==
    [tv_sec |-> wait_us \div million, tv_usec |-> wait_us]

float_seconds_to_timeval(wait_us) ==
    [tv_sec |-> wait_us \div million, tv_usec |-> wait_us % million]

gettimeofday == [tv_sec |-> clock \div million, tv_usec |-> clock % million]

timeradd(a, b) ==
    LET usec == a.tv_usec + b.tv_usec
    IN  IF usec >= million
        THEN [tv_sec |-> a.tv_sec + b.tv_sec + 1, tv_usec |-> usec - million]
        ELSE [tv_sec |-> a.tv_sec + b.tv_sec, tv_usec |-> usec]

timersub(a, b) ==
    LET usec == a.tv_usec - b.tv_usec
    IN  IF usec < 0
        THEN [tv_sec |-> a.tv_sec - b.tv_sec - 1, tv_usec |-> usec + million]
        ELSE [tv_sec |-> a.tv_sec - b.tv_sec, tv_usec |-> usec]

(* A mutant: what is left is positive when either part of it is. *)
timer_positive_either(timer) == timer.tv_sec > 0 \/ timer.tv_usec > 0

timer_positive(timer) == \/ timer.tv_sec > 0
                         \/ timer.tv_sec = 0 /\ timer.tv_usec > 0
-----------------------------------------------------------------------------
NoTime == [tv_sec |-> 0, tv_usec |-> 0]

Init == /\ clock \in 0..MaxClock
        /\ pc = "out"
        /\ wait_remaining = NoTime /\ wait_until = NoTime
        /\ timeout = 0 /\ waited = 0 /\ skew = 0

Call(wait_us) == /\ pc = "out"
                 /\ pc' = "looks"
                 /\ wait_remaining' = float_seconds_to_timeval(wait_us)
                 /\ timeout' = wait_us /\ waited' = 0 /\ skew' = 0
                 /\ UNCHANGED <<clock, wait_until>>

(* wait(), up to pthread_cond_timedwait *)
Wait == /\ pc = "looks"
        /\ timer_positive(wait_remaining)
        /\ wait_until' = timeradd(gettimeofday, wait_remaining)
        /\ pc' = "waits"
        /\ UNCHANGED <<clock, wait_remaining, timeout, waited, skew>>

(* A mutant: a thread that was woken has its whole time again. *)
Woken_renewed == /\ pc = "waits"
                 /\ pc' = "looks"
                 /\ UNCHANGED <<clock, wait_remaining, wait_until, timeout, waited, skew>>

(* wait(), from there: signalled, timed out or for no reason, and however  *)
(* long it took to get the mutex back.                                     *)
Woken == /\ pc = "waits"
         /\ wait_remaining' = timersub(wait_until, gettimeofday)
         /\ pc' = "looks"
         /\ UNCHANGED <<clock, wait_until, timeout, waited, skew>>

(* The queue is not empty, or not full, any more. *)
Succeed == /\ pc = "looks"
           /\ pc' = "out"
           /\ UNCHANGED <<clock, wait_remaining, wait_until, timeout, waited, skew>>

(* Q_EMPTY or Q_FULL *)
GiveUp == /\ pc = "looks"
          /\ ~timer_positive(wait_remaining)
          /\ pc' = "out"
          /\ UNCHANGED <<clock, wait_remaining, wait_until, timeout, waited, skew>>

Tick == /\ clock < MaxClock
        /\ clock' = clock + 1
        /\ waited' = IF pc = "waits" THEN waited + 1 ELSE waited
        /\ UNCHANGED <<pc, wait_remaining, wait_until, timeout, skew>>

(* Somebody sets the clock. *)
SetClock(time) ==
    /\ clock' = time
    /\ skew' = IF pc = "waits" THEN skew + time - clock ELSE skew
    /\ skew' \in -MaxSkew..MaxSkew
    /\ UNCHANGED <<pc, wait_remaining, wait_until, timeout, waited>>

Next == \/ \E wait_us \in Timeout : Call(wait_us)
        \/ Wait \/ Woken \/ Succeed \/ GiveUp
        \/ Tick
        \/ \E time \in 0..MaxClock : SetClock(time)

Spec == Init /\ [][Next]_vars
-----------------------------------------------------------------------------
(* The types: every timeval is normalised, which timer_positive counts on. *)
TypeOK == /\ clock \in Nat
          /\ pc \in {"out", "looks", "waits"}
          /\ wait_remaining \in Timeval /\ wait_until \in Timeval
          /\ timeout \in Nat /\ waited \in Nat /\ skew \in Int

(* What the call believes is left, before and during each wait. *)
TimeLeft == IF pc = "waits" THEN Microseconds(wait_until) - clock
                            ELSE Microseconds(wait_remaining)

(* A call may wait any number of times, and each wait starts from what the *)
(* one before left over: no microsecond gets lost or counted twice.  Only  *)
(* setting the clock during a wait changes what is left; the time the call *)
(* spends outside of its waits is never charged.                           *)
TimeKept == pc # "out" => TimeLeft = timeout - waited - skew

(* A call gives up only after it has waited its whole timeout, and never   *)
(* waits again after that, up to the settings of the clock.                *)
GivesUpInTime == [][/\ GiveUp => waited + skew >= timeout
                    /\ Wait   => waited + skew < timeout]_vars
=============================================================================

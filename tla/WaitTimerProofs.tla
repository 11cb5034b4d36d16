-------------------------- MODULE WaitTimerProofs --------------------------
(***************************************************************************)
(* For seconds of any number of microseconds, any timeouts and any         *)
(* settings of the clock: the timevals stay normalised, the time that is   *)
(* left is exact over any number of waits, and a call decides by it.       *)
(***************************************************************************)
EXTENDS WaitTimer, TLAPS

(* Whole seconds cannot make up for less than a second of the other sign. *)
LEMMA WholeSeconds ==
    ASSUME NEW s \in Int
    PROVE  /\ s > 0 => s * million >= million
           /\ s < 0 => s * million <= -million
BY MillionAssumption

LEMMA DivMod ==
    ASSUME NEW us \in Nat
    PROVE  /\ us \div million \in Int
           /\ us % million \in 0..million - 1
           /\ (us \div million) * million + (us % million) = us
BY MillionAssumption

(* A number of microseconds becomes the timeval that stands for it. *)
LEMMA ToTimeval ==
    ASSUME NEW us \in Nat
    PROVE  /\ float_seconds_to_timeval(us) \in Timeval
           /\ Microseconds(float_seconds_to_timeval(us)) = us
BY DivMod DEF float_seconds_to_timeval, Timeval, Microseconds

LEMMA ClockTimeval ==
    ASSUME clock \in Nat
    PROVE  gettimeofday \in Timeval /\ Microseconds(gettimeofday) = clock
BY DivMod DEF gettimeofday, Timeval, Microseconds

LEMMA AddTimevals ==
    ASSUME NEW a \in Timeval, NEW b \in Timeval
    PROVE  /\ timeradd(a, b) \in Timeval
           /\ Microseconds(timeradd(a, b)) = Microseconds(a) + Microseconds(b)
BY MillionAssumption DEF timeradd, Timeval, Microseconds

LEMMA SubtractTimevals ==
    ASSUME NEW a \in Timeval, NEW b \in Timeval
    PROVE  /\ timersub(a, b) \in Timeval
           /\ Microseconds(timersub(a, b)) = Microseconds(a) - Microseconds(b)
BY MillionAssumption DEF timersub, Timeval, Microseconds

(* timer_positive tells right for every normalised timeval, negative ones  *)
(* included, whose microseconds are not negative.                          *)
THEOREM TimerPositive ==
    ASSUME NEW t \in Timeval
    PROVE  /\ Microseconds(t) \in Int
           /\ timer_positive(t) <=> Microseconds(t) > 0
<1>1. t.tv_sec \in Int /\ t.tv_usec \in 0..million - 1
  BY DEF Timeval
<1>2. t.tv_sec * million \in Int
  BY <1>1, MillionAssumption
<1>3. CASE t.tv_sec > 0
  BY <1>1, <1>2, <1>3, WholeSeconds, MillionAssumption DEF timer_positive, Microseconds
<1>4. CASE t.tv_sec = 0
  BY <1>1, <1>2, <1>4, MillionAssumption DEF timer_positive, Microseconds
<1>5. CASE t.tv_sec < 0
  BY <1>1, <1>2, <1>5, WholeSeconds, MillionAssumption DEF timer_positive, Microseconds
<1> QED BY <1>1, <1>2, <1>3, <1>4, <1>5 DEF Microseconds
-----------------------------------------------------------------------------
IInv == TypeOK /\ TimeKept

LEMMA InitIInv ==
    ASSUME Init
    PROVE  IInv
<1>1. NoTime \in Timeval
  BY MillionAssumption DEF NoTime, Timeval
<1> QED BY <1>1, BoundAssumption DEF Init, IInv, TypeOK, TimeKept

LEMMA NextIInv ==
    ASSUME IInv, [Next]_vars
    PROVE  IInv'
<1>0. TypeOK /\ TimeKept /\ gettimeofday \in Timeval /\ Microseconds(gettimeofday) = clock
  BY ClockTimeval DEF IInv, TypeOK
<1>1. ASSUME NEW wait_us \in Timeout, Call(wait_us)
      PROVE  IInv'
  <2>1. /\ wait_us \in Nat
        /\ float_seconds_to_timeval(wait_us) \in Timeval
        /\ Microseconds(float_seconds_to_timeval(wait_us)) = wait_us
    BY TimeoutAssumption, ToTimeval
  <2>2. TypeOK'
    BY <1>0, <1>1, <2>1 DEF Call, TypeOK
  <2>3. TimeKept'
    BY <1>0, <1>1, <2>1 DEF Call, TimeKept, TimeLeft, Microseconds
  <2> QED BY <2>2, <2>3 DEF IInv
<1>2. CASE Wait
  <2>1. /\ wait_until' \in Timeval
        /\ Microseconds(wait_until') = clock + Microseconds(wait_remaining)
    BY <1>0, <1>2, AddTimevals DEF Wait, TypeOK
  <2>2. TypeOK'
    BY <1>0, <1>2, <2>1 DEF Wait, TypeOK
  <2>3. TimeKept'
    BY <1>0, <1>2, <2>1, TimerPositive DEF Wait, TypeOK, TimeKept, TimeLeft, Microseconds
  <2> QED BY <2>2, <2>3 DEF IInv
<1>3. CASE Woken
  <2>1. /\ wait_remaining' \in Timeval
        /\ Microseconds(wait_remaining') = Microseconds(wait_until) - clock
    BY <1>0, <1>3, SubtractTimevals DEF Woken, TypeOK
  <2>2. TypeOK'
    BY <1>0, <1>3, <2>1 DEF Woken, TypeOK
  <2>3. TimeKept'
    BY <1>0, <1>3, <2>1, TimerPositive DEF Woken, TypeOK, TimeKept, TimeLeft, Microseconds
  <2> QED BY <2>2, <2>3 DEF IInv
<1>4. CASE Succeed \/ GiveUp
  BY <1>0, <1>4 DEF IInv, Succeed, GiveUp, TypeOK, TimeKept
<1>5. CASE Tick
  <2>1. Microseconds(wait_until) \in Int
    BY <1>0, TimerPositive DEF TypeOK
  <2> QED BY <1>0, <1>5, <2>1 DEF Tick, IInv, TypeOK, TimeKept, TimeLeft, Microseconds
<1>6. ASSUME NEW time \in 0..MaxClock, SetClock(time)
      PROVE  IInv'
  <2>1. Microseconds(wait_until) \in Int
    BY <1>0, TimerPositive DEF TypeOK
  <2> QED BY <1>0, <1>6, <2>1, BoundAssumption
          DEF SetClock, IInv, TypeOK, TimeKept, TimeLeft, Microseconds
<1>7. CASE UNCHANGED vars
  BY <1>0, <1>7 DEF vars, IInv, TypeOK, TimeKept, TimeLeft, Microseconds
<1> QED BY <1>1, <1>2, <1>3, <1>4, <1>5, <1>6, <1>7 DEF Next

LEMMA Invariance == Spec => []IInv
BY InitIInv, NextIInv, PTL DEF Spec

(* The types hold; every timeval of a call is normalised. *)
THEOREM TypeCorrect == Spec => []TypeOK
<1>1. IInv => TypeOK
  BY DEF IInv
<1> QED BY <1>1, Invariance, PTL

(* What is left of the timeout is exact, over any number of waits. *)
THEOREM TimeKeptCorrect == Spec => []TimeKept
<1>1. IInv => TimeKept
  BY DEF IInv
<1> QED BY <1>1, Invariance, PTL

(* A call gives up when, and only when, it has waited its whole timeout. *)
THEOREM GivesUpCorrect == Spec => GivesUpInTime
<1>1. IInv /\ [Next]_vars =>
        [/\ GiveUp => waited + skew >= timeout
         /\ Wait   => waited + skew < timeout]_vars
  <2> SUFFICES ASSUME IInv
               PROVE  /\ GiveUp => waited + skew >= timeout
                      /\ Wait   => waited + skew < timeout
    OBVIOUS
  <2>1. /\ timeout \in Int /\ waited \in Int /\ skew \in Int
        /\ Microseconds(wait_remaining) \in Int
        /\ timer_positive(wait_remaining) <=> Microseconds(wait_remaining) > 0
    BY TimerPositive DEF IInv, TypeOK
  <2>2. pc = "looks" => Microseconds(wait_remaining) = timeout - waited - skew
    BY DEF IInv, TimeKept, TimeLeft
  <2> QED BY <2>1, <2>2 DEF GiveUp, Wait
<1> QED BY <1>1, Invariance, PTL DEF Spec, GivesUpInTime
=============================================================================

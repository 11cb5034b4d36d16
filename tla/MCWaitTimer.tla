---------------------------- MODULE MCWaitTimer ----------------------------
(* Seconds of three microseconds: the timeouts are none, a fraction of a   *)
(* second, a whole one and one and a fraction, and the clock passes the    *)
(* turn of the second several times.                                       *)
EXTENDS WaitTimer

MCTimeout == {0, 2, 3, 4}
=============================================================================

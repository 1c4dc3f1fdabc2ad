---------------------------- MODULE MCTimerWheel ----------------------------
(* Delays for TLC: from the past to the farthest time that can be told from *)
(* the past.                                                                *)
EXTENDS TimerWheel

AnyDelay == {-2, 0, 1, 5, 13}
=============================================================================

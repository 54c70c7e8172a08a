---------------------------- MODULE MCTimerQueue ----------------------------
(* TimerQueue on small instances: the timer nodes are interchangeable. *)
EXTENDS TimerQueue, TLC

Symmetry == Permutations(Timers)
=============================================================================

---------------------------- MODULE MCTimerQueue ----------------------------
(* The instance of TimerQueue that TLC checks: see the cfg file. *)
EXTENDS TimerQueue
=============================================================================

------------------------- MODULE MCEventLoopThread -------------------------
(* The instance of EventLoopThread that TLC checks: see the cfg file. *)
EXTENDS EventLoopThread
=============================================================================

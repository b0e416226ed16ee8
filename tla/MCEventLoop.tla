---------------------------- MODULE MCEventLoop -----------------------------
(* The instance of EventLoop that TLC checks: see the cfg files. *)
EXTENDS EventLoop
=============================================================================

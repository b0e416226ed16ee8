----------------------------- MODULE MCPollers ------------------------------
(* The instance of Pollers that TLC checks. *)
EXTENDS Pollers

MCRequests == {{}, {"in"}, {"in", "out"}}
MCReady == {{}, {"in"}, {"out"}, {"hup"}}
=============================================================================

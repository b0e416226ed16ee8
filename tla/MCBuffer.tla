------------------------------ MODULE MCBuffer ------------------------------
(* The instance of Buffer that TLC checks: see the cfg file. *)
EXTENDS Buffer
=============================================================================

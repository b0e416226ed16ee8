---------------------------- MODULE MCTcpClient -----------------------------
(* The instance of TcpClient that TLC checks: see the cfg file. *)
EXTENDS TcpClient
=============================================================================

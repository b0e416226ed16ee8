--------------------------- MODULE MCTcpConnection --------------------------
(* The instance of TcpConnection that TLC checks: see the cfg file. *)
EXTENDS TcpConnection
=============================================================================

---------------------------- MODULE MCTcpServer -----------------------------
(* The instances of TcpServer that TLC checks: see the cfg files. *)
EXTENDS TcpServer

CONSTANTS base, io1, io2

NoPool == <<>>
OneThread == <<io1>>
TwoThreads == <<io1, io2>>

ByCallbacks == [c \in Conns |-> None]
ByThread == [c \in Conns |-> CHOOSE t \in Threads : TRUE]
FirstByThread == [ByCallbacks EXCEPT ![1] = CHOOSE t \in Threads : TRUE]
=============================================================================

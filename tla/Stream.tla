------------------------------- MODULE Stream -------------------------------
(***************************************************************************)
(* What a TcpConnection promises to those who send on it: the bytes reach  *)
(* the socket message by message, each caller's messages in the order of   *)
(* his send() calls, and the FIN only when all that was sent before it has *)
(* been written; nothing is written after it.                              *)
(***************************************************************************)
EXTENDS FiniteSets, Integers, SequencesExt

CONSTANTS Callers,       \* those who call send()
          MessageSizes   \* the lengths of messages

VARIABLES sent,     \* the bytes <<caller, message, position>> sent so far
          out,      \* those written to the socket
          fin       \* the FIN is sent

Init == sent = <<>> /\ out = <<>> /\ fin = FALSE

\* What is written stays a prefix of what was sent.
Writing ==
  /\ IsPrefix(out, out')
  /\ IsPrefix(out', sent')
  /\ fin => out' = out

MessagesOf(p) == Cardinality({i \in DOMAIN sent : sent[i][1] = p /\ sent[i][3] = 1})

Send(p, size) ==
  /\ sent' = sent \o [i \in 1 .. size |-> <<p, MessagesOf(p) + 1, i>>]
  /\ Writing
  /\ UNCHANGED fin

Write ==
  /\ UNCHANGED <<sent, fin>>
  /\ Writing

Finish ==
  /\ UNCHANGED sent
  /\ Writing
  /\ out' = sent
  /\ fin' = TRUE

Next == Write \/ Finish \/ \E p \in Callers, size \in MessageSizes : Send(p, size)

Spec == Init /\ [][Next]_<<sent, out, fin>>
=============================================================================

----------------------------- MODULE ByteQueue ------------------------------
(***************************************************************************)
(* What a Buffer promises: a queue of bytes, filled at the end, emptied    *)
(* from the front, that also takes bytes back at the front.                *)
(***************************************************************************)
EXTENDS Integers, Sequences

CONSTANT Chunks     \* the byte strings that are put in

VARIABLES bytes,    \* what is in the queue
          call      \* the last call and the bytes it gave or took

Prefix(n) == [i \in 1 .. n |-> bytes[i]]

Init == bytes = <<>> /\ call = <<"take", <<>>>>

Put(s) ==
  /\ bytes' = bytes \o s
  /\ call' = <<"put", s>>

PutFront(s) ==
  /\ bytes' = s \o bytes
  /\ call' = <<"putFront", s>>

Take(n) ==
  /\ bytes' = [i \in 1 .. Len(bytes) - n |-> bytes[n + i]]
  /\ call' = <<"take", Prefix(n)>>

Next ==
  \/ \E s \in Chunks : Put(s) \/ PutFront(s)
  \/ \E n \in 0 .. Len(bytes) : Take(n)

Spec == Init /\ [][Next]_<<bytes, call>>
=============================================================================

------------------------------ MODULE Executor ------------------------------
(***************************************************************************)
(* What an EventLoop promises to those who hand it functors: a FIFO that   *)
(* any thread may append to, whose elements are executed one at a time, in *)
(* the order of submission, none lost and none executed twice.             *)
(***************************************************************************)
EXTENDS Sequences

CONSTANT Functors       \* the functors handed to the loop

VARIABLES queue,        \* submitted and not yet executed, oldest first
          done          \* executed, in the order of execution

Init == queue = <<>> /\ done = <<>>

Submit(f) ==
  /\ queue' = Append(queue, f)
  /\ UNCHANGED done

Execute ==
  /\ queue # <<>>
  /\ done' = Append(done, Head(queue))
  /\ queue' = Tail(queue)

Next == Execute \/ \E f \in Functors : Submit(f)

Spec == Init /\ [][Next]_<<queue, done>>
=============================================================================

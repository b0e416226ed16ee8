-------------------------- MODULE EventLoop_proofs --------------------------
(***************************************************************************)
(* Proofs about EventLoop, for any sets of threads, functors and channels. *)
(***************************************************************************)
EXTENDS EventLoop, SequenceTheorems, TLAPS

(***************************************************************************)
(* Taking the head off the first of two sequences takes the head off their *)
(* concatenation.                                                          *)
(***************************************************************************)
LEMMA TailOfConcat ==
  ASSUME NEW S, NEW s \in Seq(S), NEW u \in Seq(S), s # <<>>
  PROVE  /\ s \o u # <<>>
         /\ Head(s \o u) = Head(s)
         /\ Tail(s \o u) = Tail(s) \o u
  OBVIOUS

(***************************************************************************)
(* Appending to the second of two sequences appends to their concatenation.*)
(***************************************************************************)
LEMMA AppendToConcat ==
  ASSUME NEW S, NEW s \in Seq(S), NEW u \in Seq(S), NEW e \in S
  PROVE  s \o Append(u, e) = Append(s \o u, e)
  OBVIOUS

(***************************************************************************)
(* What a sequence holds after Append.                                     *)
(***************************************************************************)
LEMMA RangeOfAppend ==
  ASSUME NEW S, NEW s \in Seq(S), NEW e \in S
  PROVE  Range(Append(s, e)) = Range(s) \cup {e}
<1>1. /\ DOMAIN s = 1 .. Len(s)
      /\ DOMAIN Append(s, e) = 1 .. Len(s) + 1
      /\ Append(s, e)[Len(s) + 1] = e
      /\ \A i \in 1 .. Len(s) : Append(s, e)[i] = s[i]
      /\ Len(s) \in Nat
  OBVIOUS
<1>2. 1 .. Len(s) + 1 = (1 .. Len(s)) \cup {Len(s) + 1}
  BY <1>1
<1>. QED
  BY <1>1, <1>2 DEF Range

-----------------------------------------------------------------------------
(***************************************************************************)
(* Every state of EventLoop is well typed, the flag                        *)
(* callingPendingFunctors_ is set exactly inside doPendingFunctors(), and  *)
(* the local vectors are empty outside the loops that walk them.           *)
(***************************************************************************)
THEOREM TypeCorrect == Spec => []TypeOK
<1>1. Init => TypeOK
  <2>. SUFFICES ASSUME Init
                PROVE  TypeOK
    OBVIOUS
  <2>1. calling \in BOOLEAN /\ quit \in BOOLEAN /\ readable \in BOOLEAN
    BY DEF Init
  <2>2. ~ calling /\ pc = "idle"
    BY DEF Init
  <2>3. pending \in Seq(Functors) /\ batch \in Seq(Functors) /\ ran \in Seq(Functors)
    BY DEF Init
  <2>4. tpc \in [Threads -> {"out", "pushed", "quitting"}]
    BY DEF Init
  <2>5. batch = <<>> /\ active = {} /\ fresh \subseteq Functors /\ early \subseteq Functors
    BY DEF Init
  <2>6. calling <=> pc \in {"swap", "run"}
    BY <2>2
  <2>7. pc \in {"idle", "test", "poll", "dispatch", "swap", "run"}
    BY <2>2
  <2>. QED
    BY <2>1, <2>3, <2>4, <2>5, <2>6, <2>7 DEF TypeOK
<1>2. TypeOK /\ [Next]_vars => TypeOK'
  <2> SUFFICES ASSUME TypeOK, [Next]_vars
               PROVE  TypeOK'
    OBVIOUS
  <2>. USE DEF TypeOK
  <2>1. CASE StartLoop
    BY <2>1 DEF StartLoop
  <2>2. CASE StopLoop
    BY <2>2 DEF StopLoop
  <2>3. CASE EnterPoll
    BY <2>3 DEF EnterPoll
  <2>4. ASSUME NEW ready \in SUBSET IoChannels, Poll(ready)
        PROVE  TypeOK'
    BY <2>4 DEF Poll
  <2>5. CASE HandleRead
    BY <2>5 DEF HandleRead
  <2>6. ASSUME NEW c \in IoChannels, HandleIo(c)
        PROVE  TypeOK'
    BY <2>6 DEF HandleIo
  <2>7. CASE BeginPending
    BY <2>7 DEF BeginPending
  <2>8. CASE Swap
    BY <2>8 DEF Swap
  <2>9. CASE RunFunctor
    BY <2>9, HeadTailProperties DEF RunFunctor
  <2>10. CASE EndPending
    BY <2>10 DEF EndPending
  <2>11. CASE LoopQuit
    BY <2>11 DEF LoopQuit
  <2>12. ASSUME NEW f \in Functors, LoopQueue(f)
         PROVE  TypeOK'
    BY <2>12 DEF LoopQueue, Push
  <2>13. ASSUME NEW t \in Threads, NEW f \in Functors, QueueInLoop(t, f)
         PROVE  TypeOK'
    BY <2>13 DEF QueueInLoop, Push, loopVars
  <2>14. ASSUME NEW t \in Threads, Quit(t)
         PROVE  TypeOK'
    BY <2>14 DEF Quit
  <2>15. ASSUME NEW t \in Threads, Wakeup(t)
         PROVE  TypeOK'
    BY <2>15 DEF Wakeup, loopVars
  <2>16. CASE UNCHANGED vars
    BY <2>16 DEF vars
  <2>. QED
    BY <2>1, <2>2, <2>3, <2>4, <2>5, <2>6, <2>7, <2>8, <2>9, <2>10, <2>11,
       <2>12, <2>13, <2>14, <2>15, <2>16
       DEF Next, LoopStep, LoopCall, OtherCall
<1>. QED
  BY <1>1, <1>2, PTL DEF Spec

-----------------------------------------------------------------------------
(***************************************************************************)
(* NoLostWakeup speaks of the moment the loop blocks.  What makes it       *)
(* inductive is that the promise already holds from the swap on: until the *)
(* loop dispatches wakeupChannel_ again, nothing empties the eventfd, and  *)
(* each functor queued after the swap brings its own write.                *)
(***************************************************************************)
PendingIsAnnounced ==
  pc \in {"run", "test", "poll", "idle"} /\ ~ Range(pending) \subseteq early
    => WakeupUnderWay

(***************************************************************************)
(* The loop never blocks in poll() over a functor that was queued while    *)
(* loop() runs or by another thread.                                       *)
(***************************************************************************)
THEOREM LoopNeverSleepsOverFunctors == Spec => []NoLostWakeup
<1>1. Init => PendingIsAnnounced
  BY DEF Init, PendingIsAnnounced, Range
<1>2. TypeOK /\ PendingIsAnnounced /\ [Next]_vars => PendingIsAnnounced'
  <2> SUFFICES ASSUME TypeOK, PendingIsAnnounced, [Next]_vars
               PROVE  PendingIsAnnounced'
    OBVIOUS
  <2>. USE DEF PendingIsAnnounced, WakeupUnderWay
  <2>1. CASE StartLoop
    BY <2>1 DEF StartLoop
  <2>2. CASE StopLoop
    BY <2>2 DEF StopLoop
  <2>3. CASE EnterPoll
    BY <2>3 DEF EnterPoll
  <2>4. ASSUME NEW ready \in SUBSET IoChannels, Poll(ready)
        PROVE  PendingIsAnnounced'
    BY <2>4 DEF Poll
  <2>5. CASE HandleRead
    BY <2>5 DEF HandleRead
  <2>6. ASSUME NEW c \in IoChannels, HandleIo(c)
        PROVE  PendingIsAnnounced'
    BY <2>6 DEF HandleIo
  <2>7. CASE BeginPending
    BY <2>7 DEF BeginPending
  <2>8. CASE Swap
    <3>1. Range(pending') = {}
      BY <2>8 DEF Swap, Range
    <3>. QED
      BY <3>1
  <2>9. CASE RunFunctor
    BY <2>9 DEF RunFunctor
  <2>10. CASE EndPending
    BY <2>10 DEF EndPending
  <2>11. CASE LoopQuit
    BY <2>11 DEF LoopQuit
  <2>12. ASSUME NEW f \in Functors, LoopQueue(f)
         PROVE  PendingIsAnnounced'
    <3>1. Range(pending') = Range(pending) \cup {f}
      BY <2>12, RangeOfAppend DEF LoopQueue, Push, TypeOK
    <3>2. CASE pc = "run"
      BY <2>12, <3>2 DEF LoopQueue, TypeOK
    <3>3. CASE pc = "idle"
      BY <2>12, <3>1, <3>3 DEF LoopQueue
    <3>4. CASE pc = "dispatch"
      BY <2>12, <3>4 DEF LoopQueue
    <3>. QED
      BY <2>12, <3>2, <3>3, <3>4 DEF LoopQueue, InUserCode
  <2>13. ASSUME NEW t \in Threads, NEW f \in Functors, QueueInLoop(t, f)
         PROVE  PendingIsAnnounced'
    BY <2>13 DEF QueueInLoop, TypeOK
  <2>14. ASSUME NEW t \in Threads, Quit(t)
         PROVE  PendingIsAnnounced'
    BY <2>14 DEF Quit, TypeOK
  <2>15. ASSUME NEW t \in Threads, Wakeup(t)
         PROVE  PendingIsAnnounced'
    BY <2>15 DEF Wakeup
  <2>16. CASE UNCHANGED vars
    BY <2>16 DEF vars
  <2>. QED
    BY <2>1, <2>2, <2>3, <2>4, <2>5, <2>6, <2>7, <2>8, <2>9, <2>10, <2>11,
       <2>12, <2>13, <2>14, <2>15, <2>16
       DEF Next, LoopStep, LoopCall, OtherCall
<1>3. PendingIsAnnounced => NoLostWakeup
  BY DEF PendingIsAnnounced, NoLostWakeup
<1>. QED
  BY <1>1, <1>2, <1>3, TypeCorrect, PTL DEF Spec

-----------------------------------------------------------------------------
(***************************************************************************)
(* A batch of functors is only ever shortened, one functor at a time.      *)
(***************************************************************************)
THEOREM NoFunctorJoinsTheBatch == Spec => BatchOnlyShrinks
<1>1. TypeOK /\ [Next]_vars
        => [pc = "run" /\ pc' = "run" =>
              \/ batch' = batch
              \/ batch # <<>> /\ batch' = Tail(batch)]_vars
  <2> SUFFICES ASSUME TypeOK, [Next]_vars, pc = "run", pc' = "run"
               PROVE  \/ batch' = batch
                      \/ batch # <<>> /\ batch' = Tail(batch)
    OBVIOUS
  <2>. QED
    BY DEF Next, LoopStep, LoopCall, OtherCall, vars, loopVars, StartLoop,
           StopLoop, EnterPoll, Poll, HandleRead, HandleIo, BeginPending,
           Swap, RunFunctor, EndPending, LoopQueue, LoopQuit, QueueInLoop,
           Quit, Wakeup
<1>. QED
  BY <1>1, TypeCorrect, PTL DEF Spec, BatchOnlyShrinks

(***************************************************************************)
(* EventLoop implements Executor: functors run first in, first out, each   *)
(* one exactly once.  The queue of the Executor is what is left of the     *)
(* batch followed by pendingFunctors_; the swap is then a stutter.         *)
(***************************************************************************)
THEOREM LoopImplementsExecutor == Spec => ImplementsExecutor
<1>. USE DEF E!Submit, E!Execute
<1>1. Init => E!Init
  BY DEF Init, E!Init
<1>2. TypeOK /\ [Next]_vars => [E!Next]_<<batch \o pending, ran>>
  <2> SUFFICES ASSUME TypeOK, [Next]_vars
               PROVE  \/ E!Execute
                      \/ \E f \in Functors : E!Submit(f)
                      \/ UNCHANGED <<batch \o pending, ran>>
    BY DEF E!Next
  <2>. USE DEF TypeOK
  <2>1. ASSUME UNCHANGED <<batch, pending, ran>>
        PROVE  UNCHANGED <<batch \o pending, ran>>
    BY <2>1
  <2>2. CASE Swap
    <3>1. batch = <<>> /\ batch' = pending /\ pending' = <<>> /\ ran' = ran
      BY <2>2 DEF Swap
    <3>2. <<>> \o pending = pending /\ pending \o <<>> = pending
      BY ConcatEmptySeq
    <3>. QED
      BY <3>1, <3>2
  <2>3. CASE RunFunctor
    <3>1. /\ batch \o pending # <<>>
          /\ Head(batch \o pending) = Head(batch)
          /\ Tail(batch \o pending) = Tail(batch) \o pending
      BY <2>3, TailOfConcat DEF RunFunctor
    <3>. QED
      BY <2>3, <3>1 DEF RunFunctor
  <2>4. ASSUME NEW f \in Functors, Push(f), UNCHANGED <<batch, ran>>
        PROVE  E!Submit(f)
    BY <2>4, AppendToConcat DEF Push
  <2>5. ASSUME NEW f \in Functors, LoopQueue(f)
        PROVE  E!Submit(f)
    BY <2>4, <2>5 DEF LoopQueue
  <2>6. ASSUME NEW t \in Threads, NEW f \in Functors, QueueInLoop(t, f)
        PROVE  E!Submit(f)
    BY <2>4, <2>6 DEF QueueInLoop, loopVars
  <2>7. CASE LoopStep /\ ~Swap /\ ~RunFunctor
    BY <2>1, <2>7
       DEF LoopStep, StartLoop, StopLoop, EnterPoll, Poll, HandleRead,
           HandleIo, BeginPending, EndPending
  <2>8. CASE LoopQuit
    BY <2>1, <2>8 DEF LoopQuit
  <2>9. ASSUME NEW t \in Threads, Quit(t) \/ Wakeup(t)
        PROVE  UNCHANGED <<batch \o pending, ran>>
    BY <2>1, <2>9 DEF Quit, Wakeup, loopVars
  <2>10. CASE UNCHANGED vars
    BY <2>1, <2>10 DEF vars
  <2>. QED
    BY <2>2, <2>3, <2>5, <2>6, <2>7, <2>8, <2>9, <2>10
       DEF Next, LoopCall, OtherCall
<1>. QED
  BY <1>1, <1>2, TypeCorrect, PTL DEF Spec, ImplementsExecutor, E!Spec
=============================================================================

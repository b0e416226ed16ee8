----------------------------- MODULE EventLoop ------------------------------
(***************************************************************************)
(* net/EventLoop.{h,cc}: one thread polls, dispatches the ready channels   *)
(* and then runs the functors that it or other threads have queued.  What  *)
(* a callback or a functor does is left open: it may queue functors and    *)
(* it may call quit().                                                     *)
(*                                                                         *)
(* Abstractions: the eventfd counter is reduced to "readable or not" (a    *)
(* read empties it); every functor object is submitted at most once, which *)
(* bounds the histories; looping_ is pc # "idle".                          *)
(***************************************************************************)
EXTENDS Sequences, Functions

CONSTANTS Threads,        \* the threads other than the loop's own
          Functors,       \* the functors that may be queued
          IoChannels,     \* the channels other than wakeupChannel_
          WakeupChannel   \* wakeupChannel_

ASSUME WakeupIsNoIoChannel == WakeupChannel \notin IoChannels

VARIABLES pc,        \* where the loop thread is
          quit,      \* quit_
          calling,   \* callingPendingFunctors_
          pending,   \* pendingFunctors_, guarded by mutex_
          batch,     \* what is left of doPendingFunctors()' local vector
          active,    \* the activeChannels_ not yet dispatched
          readable,  \* wakeupFd_ has a nonzero counter
          tpc,       \* what each other thread has still to do in its call
          fresh,     \* functors nobody has queued yet
          ran,       \* history: functors executed, in order
          early      \* history: queued by the loop thread outside of loop()

loopVars == <<pc, quit, calling, batch, active>>
vars == <<pc, quit, calling, pending, batch, active, readable, tpc, fresh,
          ran, early>>

Init ==
  /\ pc = "idle"
  /\ quit = FALSE
  /\ calling = FALSE
  /\ pending = <<>>
  /\ batch = <<>>
  /\ active = {}
  /\ readable = FALSE
  /\ tpc = [t \in Threads |-> "out"]
  /\ fresh = Functors
  /\ ran = <<>>
  /\ early = {}

-----------------------------------------------------------------------------
(* loop() *)

\* Entering loop(): quit_ is cleared, whoever set it before.
StartLoop ==
  /\ pc = "idle"
  /\ pc' = "test"
  /\ quit' = FALSE
  /\ UNCHANGED <<calling, pending, batch, active, readable, tpc, fresh, ran,
                 early>>

StopLoop ==
  /\ pc = "test"
  /\ quit
  /\ pc' = "idle"
  /\ UNCHANGED <<quit, calling, pending, batch, active, readable, tpc, fresh,
                 ran, early>>

EnterPoll ==
  /\ pc = "test"
  /\ ~quit
  /\ active' = {}
  /\ pc' = "poll"
  /\ UNCHANGED <<quit, calling, pending, batch, readable, tpc, fresh, ran,
                 early>>

\* poll() returns: some I/O channels are ready, wakeupFd_ is, or neither
\* when kPollTimeMs have passed.
Poll(ready) ==
  /\ pc = "poll"
  /\ active' = ready \cup (IF readable THEN {WakeupChannel} ELSE {})
  /\ pc' = "dispatch"
  /\ UNCHANGED <<quit, calling, pending, batch, readable, tpc, fresh, ran,
                 early>>

\* EventLoop::handleRead(), the read callback of wakeupChannel_.
HandleRead ==
  /\ pc = "dispatch"
  /\ WakeupChannel \in active
  /\ active' = active \ {WakeupChannel}
  /\ readable' = FALSE
  /\ UNCHANGED <<pc, quit, calling, pending, batch, tpc, fresh, ran, early>>

\* The callback of an I/O channel returns; what it called before is LoopQueue
\* and LoopQuit.
HandleIo(c) ==
  /\ pc = "dispatch"
  /\ c \in active \cap IoChannels
  /\ active' = active \ {c}
  /\ UNCHANGED <<pc, quit, calling, pending, batch, readable, tpc, fresh, ran,
                 early>>

-----------------------------------------------------------------------------
(* doPendingFunctors() *)

BeginPending ==
  /\ pc = "dispatch"
  /\ active = {}
  /\ calling' = TRUE
  /\ pc' = "swap"
  /\ UNCHANGED <<quit, pending, batch, active, readable, tpc, fresh, ran,
                 early>>

\* A plausible mistake: the functors are copied out instead of swapped out.
Swap_Copies ==
  /\ pc = "swap"
  /\ batch' = pending
  /\ pc' = "run"
  /\ UNCHANGED <<quit, calling, pending, active, readable, tpc, fresh, ran,
                 early>>

Swap ==
  /\ pc = "swap"
  /\ batch' = pending
  /\ pending' = <<>>
  /\ pc' = "run"
  /\ UNCHANGED <<quit, calling, active, readable, tpc, fresh, ran, early>>

RunFunctor ==
  /\ pc = "run"
  /\ batch # <<>>
  /\ ran' = Append(ran, Head(batch))
  /\ batch' = Tail(batch)
  /\ UNCHANGED <<pc, quit, calling, pending, active, readable, tpc, fresh,
                 early>>

\* A plausible mistake: the for loop also stops at quit_.
EndPending_ObeysQuit ==
  /\ pc = "run"
  /\ batch = <<>> \/ quit
  /\ batch' = <<>>
  /\ calling' = FALSE
  /\ pc' = "test"
  /\ UNCHANGED <<quit, pending, active, readable, tpc, fresh, ran, early>>

\* A plausible mistake: callingPendingFunctors_ is not reset.
EndPending_KeepsFlag ==
  /\ pc = "run"
  /\ batch = <<>>
  /\ pc' = "test"
  /\ UNCHANGED <<quit, calling, pending, batch, active, readable, tpc, fresh,
                 ran, early>>

EndPending ==
  /\ pc = "run"
  /\ batch = <<>>
  /\ calling' = FALSE
  /\ pc' = "test"
  /\ UNCHANGED <<quit, pending, batch, active, readable, tpc, fresh, ran,
                 early>>

-----------------------------------------------------------------------------
(* Calls of the loop thread itself, from user code: a channel's callback,  *)
(* a functor, or the code around loop().                                   *)

InUserCode ==
  \/ pc = "idle"
  \/ pc = "dispatch" /\ active \cap IoChannels # {}
  \/ pc = "run" /\ batch # <<>>

Push(f) ==
  /\ f \in fresh
  /\ fresh' = fresh \ {f}
  /\ pending' = Append(pending, f)

\* A plausible mistake: the loop thread never wakes itself up.
LoopQueue_NoWakeup(f) ==
  /\ InUserCode
  /\ Push(f)
  /\ early' = IF pc = "idle" THEN early \cup {f} ELSE early
  /\ UNCHANGED <<pc, quit, calling, batch, active, readable, tpc, ran>>

\* A plausible mistake: a functor of a functor joins the running batch.
LoopQueue_JoinsBatch(f) ==
  /\ InUserCode
  /\ f \in fresh
  /\ fresh' = fresh \ {f}
  /\ IF calling
     THEN batch' = Append(batch, f) /\ UNCHANGED pending
     ELSE pending' = Append(pending, f) /\ UNCHANGED batch
  /\ early' = IF pc = "idle" THEN early \cup {f} ELSE early
  /\ UNCHANGED <<pc, quit, calling, active, readable, tpc, ran>>

\* queueInLoop(f) in the loop thread writes wakeupFd_ only if functors are
\* being called.
LoopQueue(f) ==
  /\ InUserCode
  /\ Push(f)
  /\ readable' = (readable \/ calling)
  /\ early' = IF pc = "idle" THEN early \cup {f} ELSE early
  /\ UNCHANGED <<pc, quit, calling, batch, active, tpc, ran>>

LoopQuit ==
  /\ InUserCode
  /\ quit' = TRUE
  /\ UNCHANGED <<pc, calling, pending, batch, active, readable, tpc, fresh,
                 ran, early>>

-----------------------------------------------------------------------------
(* Calls of the other threads: each changes the loop's state and then      *)
(* writes wakeupFd_; the loop can run between the two.                     *)

\* A plausible mistake: the push is not followed by wakeup().
QueueInLoop_NoWakeup(t, f) ==
  /\ tpc[t] = "out"
  /\ Push(f)
  /\ UNCHANGED <<loopVars, readable, tpc, ran, early>>

\* queueInLoop(f), and runInLoop(f), which is the same for these threads.
QueueInLoop(t, f) ==
  /\ tpc[t] = "out"
  /\ Push(f)
  /\ tpc' = [tpc EXCEPT ![t] = "pushed"]
  /\ UNCHANGED <<loopVars, readable, ran, early>>

\* A plausible mistake: quit_ is set without wakeup().
Quit_NoWakeup(t) ==
  /\ tpc[t] = "out"
  /\ quit' = TRUE
  /\ UNCHANGED <<pc, calling, pending, batch, active, readable, tpc, fresh,
                 ran, early>>

Quit(t) ==
  /\ tpc[t] = "out"
  /\ quit' = TRUE
  /\ tpc' = [tpc EXCEPT ![t] = "quitting"]
  /\ UNCHANGED <<pc, calling, pending, batch, active, readable, fresh, ran,
                 early>>

Wakeup(t) ==
  /\ tpc[t] # "out"
  /\ readable' = TRUE
  /\ tpc' = [tpc EXCEPT ![t] = "out"]
  /\ UNCHANGED <<loopVars, pending, fresh, ran, early>>

-----------------------------------------------------------------------------
LoopStep ==
  \/ StartLoop \/ StopLoop \/ EnterPoll
  \/ \E ready \in SUBSET IoChannels : Poll(ready)
  \/ HandleRead
  \/ \E c \in IoChannels : HandleIo(c)
  \/ BeginPending \/ Swap \/ RunFunctor \/ EndPending

LoopCall == LoopQuit \/ \E f \in Functors : LoopQueue(f)

OtherCall(t) == Quit(t) \/ Wakeup(t) \/ \E f \in Functors : QueueInLoop(t, f)

Next == LoopStep \/ LoopCall \/ \E t \in Threads : OtherCall(t)

Spec == Init /\ [][Next]_vars

(***************************************************************************)
(* The loop thread is scheduled, so it leaves every point but the blocking *)
(* one: epoll_wait is only sure to return once wakeupFd_ is readable.  The *)
(* ten second timeout and the other channels are not relied on, and nobody *)
(* has to enter loop().  A thread inside queueInLoop or quit gets to its   *)
(* write.                                                                  *)
(***************************************************************************)
Fairness ==
  /\ WF_vars(StopLoop \/ EnterPoll)
  /\ WF_vars(readable /\ \E ready \in SUBSET IoChannels : Poll(ready))
  /\ WF_vars(HandleRead \/ BeginPending \/ \E c \in IoChannels : HandleIo(c))
  /\ WF_vars(Swap \/ RunFunctor \/ EndPending)
  /\ \A t \in Threads : WF_vars(Wakeup(t))

FairSpec == Spec /\ Fairness

-----------------------------------------------------------------------------
(***************************************************************************)
(* Types, and the phases of the loop in which the locals of loop() and     *)
(* doPendingFunctors() hold anything.                                      *)
(***************************************************************************)
TypeOK ==
  /\ pc \in {"idle", "test", "poll", "dispatch", "swap", "run"}
  /\ quit \in BOOLEAN
  /\ calling \in BOOLEAN
  /\ calling <=> pc \in {"swap", "run"}
  /\ pending \in Seq(Functors)
  /\ batch \in Seq(Functors)
  /\ batch # <<>> => pc = "run"
  /\ active \subseteq IoChannels \cup {WakeupChannel}
  /\ active # {} => pc = "dispatch"
  /\ readable \in BOOLEAN
  /\ tpc \in [Threads -> {"out", "pushed", "quitting"}]
  /\ fresh \subseteq Functors
  /\ ran \in Seq(Functors)
  /\ early \subseteq Functors

WakeupUnderWay == readable \/ \E t \in Threads : tpc[t] = "pushed"

(***************************************************************************)
(* The loop never blocks in poll() over queued functors: one that another  *)
(* thread, a callback or a functor has queued is accompanied by a write to *)
(* wakeupFd_, made or about to be made (EventLoop::queueInLoop).           *)
(***************************************************************************)
NoLostWakeup ==
  pc = "poll" /\ ~ Range(pending) \subseteq early => WakeupUnderWay

(***************************************************************************)
(* A functor queued while functors are being called waits for the next     *)
(* iteration: doPendingFunctors() only ever shortens the batch it took, so *)
(* functors that queue functors cannot keep the loop from polling.         *)
(***************************************************************************)
BatchOnlyShrinks ==
  [][pc = "run" /\ pc' = "run" =>
       \/ batch' = batch
       \/ batch # <<>> /\ batch' = Tail(batch)]_vars

(***************************************************************************)
(* The loop is an Executor: functors run in the order in which they were   *)
(* queued, each exactly once, across the swap of doPendingFunctors().      *)
(***************************************************************************)
E == INSTANCE Executor WITH queue <- batch \o pending, done <- ran
ImplementsExecutor == E!Spec

(***************************************************************************)
(* A queued functor is executed, without relying on the poll timeout,      *)
(* unless the loop is left first (queueInLoop, wakeup, doPendingFunctors). *)
(***************************************************************************)
QueuedIsExecuted ==
  \A f \in Functors :
    f \in Range(pending) \ early ~> f \in Range(ran) \/ pc = "idle"

(***************************************************************************)
(* Once swapped out of pendingFunctors_, a functor is executed even if     *)
(* quit() is called meanwhile.                                             *)
(***************************************************************************)
BatchIsExecuted ==
  \A f \in Functors : f \in Range(batch) ~> f \in Range(ran)

(***************************************************************************)
(* quit(), called by any thread while loop() runs, ends loop(), even when  *)
(* the loop thread is blocked in poll() (EventLoop::quit).                 *)
(***************************************************************************)
QuitStopsLoop == quit /\ pc # "idle" ~> pc = "idle"
=============================================================================

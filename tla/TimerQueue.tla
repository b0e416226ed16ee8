----------------------------- MODULE TimerQueue -----------------------------
(***************************************************************************)
(* base/TimerQueue.{h,cc}, base/Timer and base/TimerId: the timers of one  *)
(* event loop, behind one timerfd.  addTimer() and cancel() may be called  *)
(* by other threads, whose functors the loop executes in order (module     *)
(* EventLoop), by the callbacks of timers and by other code of the loop    *)
(* thread.                                                                 *)
(*                                                                         *)
(* Abstractions: a Timer is its sequence number, as no two have the same;  *)
(* timers with one expiration are kept in any order, in the code in that   *)
(* of their addresses.  Time is counted in ticks; an expiration in the     *)
(* past arms the timerfd for now, in the code for 100 microseconds later.  *)
(***************************************************************************)
EXTENDS Integers, Sequences, Functions

CONSTANTS Threads,     \* the threads other than the loop's own
          MaxTimers,   \* bound: timers created
          MaxTime,     \* bound: the time at which the clock stops
          Intervals,   \* the intervals asked for; 0: not repeated
          Lag          \* how far now() may lag behind the timerfd's clock

ASSUME TimerConstants ==
  /\ MaxTimers \in Nat
  /\ MaxTime \in Nat
  /\ Intervals \subseteq Nat
  /\ Lag \in Nat

Timers == 1 .. MaxTimers

VARIABLES
  now,        \* Timestamp::now()
  created,    \* s_numCreated_: timers 1 .. created exist or have existed
  expiration, \* expiration_ of each timer
  interval,   \* interval_ of each timer
  deleted,    \* the timers that have been deleted
  timers,     \* timers_: entries <<when, timer>>
  active,     \* activeTimers_
  calling,    \* callingExpiredTimers_
  canceling,  \* cancelingTimers_
  expired,    \* handleRead()'s vector of expired timers
  started,    \* how many of them have been called
  readAt,     \* the time handleRead() works with
  alarm,      \* when the timerfd goes off; None: it is not armed
  fired,      \* the timerfd is readable
  reported,   \* poll() has reported the timerfd and handleRead() is due
  pending,    \* the functors that other threads have queued
  tpc,        \* per thread, the timer whose addTimer() has not returned
  ids,        \* the TimerIds that the user has got
  cancelled   \* history: timers in the queue when cancelInLoop() was called

fdVars == <<alarm, fired, reported>>
batchVars == <<calling, canceling, expired, started, readAt>>
timerVars == <<created, expiration, interval, deleted>>
userVars == <<pending, tpc, ids, cancelled>>
vars == <<now, timerVars, timers, active, batchVars, fdVars, userVars>>

None == -1

Init ==
  /\ now = 0
  /\ created = 0
  /\ expiration = [s \in Timers |-> 0]
  /\ interval = [s \in Timers |-> 0]
  /\ deleted = {}
  /\ timers = {}
  /\ active = {}
  /\ calling = FALSE
  /\ canceling = {}
  /\ expired = <<>>
  /\ started = 0
  /\ readAt = 0
  /\ alarm = None
  /\ fired = FALSE
  /\ reported = FALSE
  /\ pending = <<>>
  /\ tpc = [t \in Threads |-> None]
  /\ ids = {}
  /\ cancelled = {}

-----------------------------------------------------------------------------
(* The clock and the timerfd *)

Tick ==
  /\ now < MaxTime
  /\ now' = now + 1
  /\ UNCHANGED <<timerVars, timers, active, batchVars, fdVars, userVars>>

GoOff ==
  /\ alarm # None
  /\ alarm <= now + Lag
  /\ alarm' = None
  /\ fired' = TRUE
  /\ UNCHANGED <<now, timerVars, timers, active, batchVars, reported, userVars>>

\* A plausible mistake: the time is taken as relative, and not kept positive.
Arm_Unclamped(when) ==
  /\ alarm' = when - now
  /\ fired' = FALSE

\* resetTimerfd(): arming the timerfd also makes it unreadable.
Arm(when) ==
  /\ alarm' = IF when < now THEN now ELSE when
  /\ fired' = FALSE

-----------------------------------------------------------------------------
(* addTimer() and cancel() *)

\* new Timer(cb, when, interval)
New(s, when, i) ==
  /\ created < MaxTimers
  /\ s = created + 1
  /\ created' = s
  /\ expiration' = [expiration EXCEPT ![s] = when]
  /\ interval' = [interval EXCEPT ![s] = i]

\* insert()
Insert(s, when) ==
  /\ timers' = timers \cup {<<when, s>>}
  /\ active' = active \cup {s}

\* A plausible mistake: the timerfd is armed for the first timer only.
AddTimerInLoop_ArmsIfEmpty(s, when) ==
  /\ Insert(s, when)
  /\ IF timers = {} THEN Arm(when) ELSE UNCHANGED <<alarm, fired>>

\* addTimerInLoop(): the new timer becomes the first, or it does not.
AddTimerInLoop(s, when) ==
  /\ Insert(s, when)
  /\ IF \A e \in timers : when < e[1]
     THEN Arm(when)
     ELSE UNCHANGED <<alarm, fired>>

\* Plausible mistakes: the entry stays in timers_; a timer of the batch is
\* deleted at once; a timer of the batch is not remembered.
CancelInLoop_ForgetsEntry(s) ==
  \/ /\ s \in active
     /\ active' = active \ {s}
     /\ deleted' = deleted \cup {s}
     /\ UNCHANGED <<timers, canceling>>
  \/ /\ s \notin active
     /\ canceling' = IF calling THEN canceling \cup {s} ELSE canceling
     /\ UNCHANGED <<timers, active, deleted>>

CancelInLoop_DeletesCalled(s) ==
  /\ timers' = timers \ {<<expiration[s], s>>}
  /\ active' = active \ {s}
  /\ deleted' = deleted \cup {s}
  /\ UNCHANGED canceling

CancelInLoop_NotWhileCalling(s) ==
  \/ /\ s \in active
     /\ timers' = timers \ {<<expiration[s], s>>}
     /\ active' = active \ {s}
     /\ deleted' = deleted \cup {s}
     /\ UNCHANGED canceling
  \/ s \notin active /\ UNCHANGED <<timers, active, deleted, canceling>>

CancelInLoop(s) ==
  \/ /\ s \in active
     /\ timers' = timers \ {<<expiration[s], s>>}
     /\ active' = active \ {s}
     /\ deleted' = deleted \cup {s}
     /\ UNCHANGED canceling
  \/ /\ s \notin active
     /\ canceling' = IF calling THEN canceling \cup {s} ELSE canceling
     /\ UNCHANGED <<timers, active, deleted>>

\* The cancellation of s finds it in the queue or in the running batch.
NoteCancelled(s) ==
  cancelled' = IF s \in active \cup Range(expired) THEN cancelled \cup {s}
                                                   ELSE cancelled

\* User code runs in the loop thread: outside handleRead(), or in the
\* callback of the timer called last.
InUserCode == ~ calling \/ started > 0

LoopAdds(s, when, i) ==
  /\ InUserCode
  /\ New(s, when, i)
  /\ AddTimerInLoop(s, when)
  /\ ids' = ids \cup {s}
  /\ UNCHANGED <<now, deleted, batchVars, reported, pending, tpc, cancelled>>

LoopCancels(s) ==
  /\ InUserCode
  /\ s \in ids
  /\ CancelInLoop(s)
  /\ NoteCancelled(s)
  /\ UNCHANGED <<now, created, expiration, interval, calling, expired, started,
                 readAt, fdVars, pending, tpc, ids>>

\* Another thread queues addTimerInLoop() and only then, to return the
\* TimerId, reads the sequence number of the timer; if the loop has deleted
\* it, what is read is undefined.
ThreadAdds(t, s, when, i) ==
  /\ tpc[t] = None
  /\ New(s, when, i)
  /\ pending' = Append(pending, <<"add", s>>)
  /\ tpc' = [tpc EXCEPT ![t] = s]
  /\ UNCHANGED <<now, deleted, timers, active, batchVars, fdVars, ids, cancelled>>

ThreadGetsId(t) ==
  /\ tpc[t] # None
  /\ \E s \in IF tpc[t] \in deleted THEN Timers ELSE {tpc[t]} : ids' = ids \cup {s}
  /\ tpc' = [tpc EXCEPT ![t] = None]
  /\ UNCHANGED <<now, timerVars, timers, active, batchVars, fdVars, pending,
                 cancelled>>

ThreadCancels(t, s) ==
  /\ tpc[t] = None
  /\ s \in ids
  /\ Len(pending) < MaxTimers
  /\ pending' = Append(pending, <<"cancel", s>>)
  /\ UNCHANGED <<now, timerVars, timers, active, batchVars, fdVars, tpc, ids,
                 cancelled>>

\* doPendingFunctors(), after the active channels have been handled.
CallAdd(s) ==
  /\ ~ calling
  /\ ~ reported
  /\ pending # <<>>
  /\ Head(pending) = <<"add", s>>
  /\ pending' = Tail(pending)
  /\ AddTimerInLoop(s, expiration[s])
  /\ UNCHANGED <<now, timerVars, batchVars, reported, tpc, ids, cancelled>>

CallCancel(s) ==
  /\ ~ calling
  /\ ~ reported
  /\ pending # <<>>
  /\ Head(pending) = <<"cancel", s>>
  /\ pending' = Tail(pending)
  /\ CancelInLoop(s)
  /\ NoteCancelled(s)
  /\ UNCHANGED <<now, created, expiration, interval, calling, expired, started,
                 readAt, fdVars, tpc, ids>>

-----------------------------------------------------------------------------
(* handleRead() *)

Poll ==
  /\ ~ calling
  /\ ~ reported
  /\ fired
  /\ reported' = TRUE
  /\ UNCHANGED <<now, timerVars, timers, active, batchVars, alarm, fired, userVars>>

\* readTimerfd(), which may find nothing if the timerfd was armed again since
\* poll(), and getExpired().
GetExpired ==
  LET due == {e \in timers : e[1] <= now}
  IN  /\ ~ calling
      /\ reported
      /\ reported' = FALSE
      /\ fired' = FALSE
      /\ readAt' = now
      /\ \E n \in 0 .. MaxTimers : \E f \in Bijection(1 .. n, due) :
           /\ \A i, j \in 1 .. n : i < j => f[i][1] <= f[j][1]
           /\ expired' = [i \in 1 .. n |-> f[i][2]]
      /\ timers' = timers \ due
      /\ active' = active \ {e[2] : e \in due}
      /\ calling' = TRUE
      /\ canceling' = {}
      /\ started' = 0
      /\ UNCHANGED <<now, timerVars, alarm, userVars>>

Run ==
  /\ calling
  /\ started < Len(expired)
  /\ started' = started + 1
  /\ UNCHANGED <<now, timerVars, timers, active, calling, canceling, expired,
                 readAt, fdVars, userVars>>

\* A plausible mistake: the timerfd is not armed again.
ArmForTheFirst_Never == UNCHANGED <<alarm, fired>>

ArmForTheFirst ==
  \/ timers' = {} /\ UNCHANGED <<alarm, fired>>
  \/ \E e \in timers' : /\ \A d \in timers' : e[1] <= d[1]
                        /\ Arm(e[1])

\* reset(), with Timer::restart() and insert() for the repeated timers.
Reset ==
  LET again == {s \in Range(expired) : interval[s] > 0 /\ s \notin canceling}
  IN  /\ calling
      /\ started = Len(expired)
      /\ calling' = FALSE
      /\ expiration' = [s \in Timers |-> IF s \in again THEN readAt + interval[s]
                                                       ELSE expiration[s]]
      /\ timers' = timers \cup {<<readAt + interval[s], s>> : s \in again}
      /\ active' = active \cup again
      /\ deleted' = deleted \cup (Range(expired) \ again)
      /\ expired' = <<>>
      /\ started' = 0
      /\ ArmForTheFirst
      /\ UNCHANGED <<now, created, interval, canceling, readAt, reported, userVars>>

-----------------------------------------------------------------------------
Times == 0 .. MaxTime

UserStep ==
  \/ \E s \in Timers, when \in Times, i \in Intervals :
       LoopAdds(s, when, i) \/ \E t \in Threads : ThreadAdds(t, s, when, i)
  \/ \E s \in Timers : LoopCancels(s) \/ \E t \in Threads : ThreadCancels(t, s)
  \/ \E t \in Threads : ThreadGetsId(t)

HandleRead == GetExpired \/ Run \/ Reset

CallFunctor == \E s \in Timers : CallAdd(s) \/ CallCancel(s)

Next == Tick \/ GoOff \/ UserStep \/ CallFunctor \/ Poll \/ HandleRead

Spec == Init /\ [][Next]_vars

(***************************************************************************)
(* Time passes, the timerfd goes off, and the loop thread is scheduled.    *)
(***************************************************************************)
Fairness ==
  /\ WF_vars(Tick)
  /\ WF_vars(GoOff)
  /\ WF_vars(CallFunctor)
  /\ WF_vars(Poll)
  /\ WF_vars(HandleRead)

FairSpec == Spec /\ Fairness

-----------------------------------------------------------------------------
(***************************************************************************)
(* Types.                                                                  *)
(***************************************************************************)
TypeOK ==
  /\ now \in Times
  /\ created \in 0 .. MaxTimers
  /\ expiration \in [Timers -> Nat]
  /\ interval \in [Timers -> Intervals \cup {0}]
  /\ deleted \subseteq Timers
  /\ timers \subseteq Nat \X Timers
  /\ active \subseteq Timers
  /\ calling \in BOOLEAN
  /\ canceling \subseteq Timers
  /\ expired \in Seq(Timers)
  /\ started \in 0 .. Len(expired)
  /\ readAt \in Times
  /\ alarm \in Nat \cup {None}
  /\ fired \in BOOLEAN
  /\ reported \in BOOLEAN
  /\ pending \in Seq({"add", "cancel"} \X Timers)
  /\ tpc \in [Threads -> Timers \cup {None}]
  /\ ids \subseteq Timers
  /\ cancelled \subseteq Timers

(***************************************************************************)
(* timers_ and activeTimers_ hold the same timers, each under its current  *)
(* expiration: the asserts on the sizes of the two sets and on the results *)
(* of insert and erase, and what lets cancelInLoop() find the entry.       *)
(***************************************************************************)
SetsAgree == timers = {<<expiration[s], s>> : s \in active}

(***************************************************************************)
(* The timers in the queue, being called and being handed over are all     *)
(* distinct objects that have not been deleted: no pointer dangles and     *)
(* none is deleted twice.                                                  *)
(***************************************************************************)
Added == {f[2] : f \in {g \in Range(pending) : g[1] = "add"}}

EachInOnePlace ==
  /\ active \cap Range(expired) = {}
  /\ (active \cup Range(expired)) \cap Added = {}
  /\ (active \cup Range(expired) \cup Added) \cap deleted = {}
  /\ IsInjective(expired)

(***************************************************************************)
(* A cancelled timer is gone, at the latest when the batch of expired      *)
(* timers ends in which it was found: one that repeats cannot come back,   *)
(* whoever cancels it, itself included.                                    *)
(***************************************************************************)
CancelledIsDeleted ==
  \A s \in cancelled : s \in deleted \/ (calling /\ s \in Range(expired))

(***************************************************************************)
(* Between batches the timerfd is never set later than the first timer     *)
(* expires, however timers are added, cancelled and restarted.             *)
(***************************************************************************)
ArmedForTheFirst ==
  ~ calling =>
    \A e \in timers :
      \/ fired \/ reported
      \/ alarm # None /\ alarm <= (IF e[1] < now THEN now ELSE e[1])

(***************************************************************************)
(* A timer in the queue is called once it has expired, unless it is        *)
(* cancelled.                                                              *)
(***************************************************************************)
Called(s) == \E i \in 1 .. started : expired[i] = s

ExpiredIsCalled ==
  \A s \in Timers :
    s \in active /\ expiration[s] <= now ~> Called(s) \/ s \in cancelled
=============================================================================

-------------------------- MODULE EventLoopThread --------------------------
(***************************************************************************)
(* The start and the end of a server's threads: TcpServer::start() has its *)
(* EventLoopThreadPool start an EventLoopThread after the other and then   *)
(* the Acceptor listen; ~TcpServer() stops and joins them.                 *)
(*                                                                         *)
(* The base thread, in which the server is created and destroyed, meets    *)
(* each I/O thread in startLoop(), by mutex_, cond_ and loop_, and in      *)
(* ~EventLoopThread(), by quit_ and wakeupFd_ of its loop.  Other threads  *)
(* call start() too; one that comes first is aborted by the pool's         *)
(* assertInLoopThread(), "Thread safe" as TcpServer.h calls start().       *)
(*                                                                         *)
(* What the user is taken to keep to: the server is destroyed in the base  *)
(* thread, when no call and no functor of start() is under way.            *)
(***************************************************************************)
EXTENDS Integers, Sequences

CONSTANTS NumThreads,  \* numThreads_ of the pool
          Threads,     \* other threads that call start()
          MaxStarts    \* bound: their calls, and those of the base thread

ASSUME EventLoopThreadConstants ==
  /\ NumThreads \in Nat \ {0}
  /\ MaxStarts \in Nat

IoThreads == 1 .. NumThreads

VARIABLES
  server,     \* the TcpServer is "alive", or "destroyed"
  started,    \* TcpServer's started_
  listenning, \* Acceptor's listenning_
  loops,      \* loops_ of the pool: TRUE for a pointer, FALSE for nullptr
  next,       \* next_
  base,       \* what the base thread does next; "free" in its loop
  cur,        \* the thread that is being started or stopped
  listens,    \* functors that call Acceptor::listen(), in the base loop
  tpc,        \* what a calling thread does next
  starts,     \* calls of start()
  io,         \* per I/O thread, what it does next
  published,  \* its loop_ is set
  locked,     \* its mutex_ is held by the I/O thread
  quit,       \* quit_ of its loop
  readable,   \* wakeupFd_ of its loop
  lost        \* history: a loop() has cleared a quit_ that was set

serverVars == <<server, started, listenning, loops, next, listens>>
callVars == <<tpc, starts>>
ioVars == <<io, published, locked, quit, readable, lost>>
vars == <<serverVars, base, cur, callVars, ioVars>>

Init ==
  /\ server = "alive"
  /\ started = FALSE
  /\ listenning = FALSE
  /\ loops = <<>>
  /\ next = 0
  /\ base = "free"
  /\ cur = 1
  /\ listens = 0
  /\ tpc = [t \in Threads |-> "out"]
  /\ starts = 0
  /\ io = [i \in IoThreads |-> "none"]
  /\ published = [i \in IoThreads |-> FALSE]
  /\ locked = [i \in IoThreads |-> FALSE]
  /\ quit = [i \in IoThreads |-> FALSE]
  /\ readable = [i \in IoThreads |-> FALSE]
  /\ lost = FALSE

-----------------------------------------------------------------------------
(* start() in the base thread *)

BaseStarts ==
  /\ base = "free"
  /\ server = "alive"
  /\ starts < MaxStarts
  /\ starts' = starts + 1
  /\ started' = TRUE
  /\ base' = IF started THEN "listen" ELSE "pool"
  /\ UNCHANGED <<server, listenning, loops, next, listens, cur, tpc, ioVars>>

\* EventLoopThreadPool::start(): a new thread, until there are numThreads_.
StartNext ==
  /\ base = "pool"
  /\ IF Len(loops) < NumThreads
     THEN /\ cur' = Len(loops) + 1
          /\ io' = [io EXCEPT ![cur'] = "new"]
          /\ base' = "startLoop"
     ELSE /\ base' = "listen"
          /\ UNCHANGED <<cur, io>>
  /\ UNCHANGED <<serverVars, callVars, published, locked, quit, readable, lost>>

\* A plausible mistake: loop_ is not tested again after the wait.
StartLoop_TestsOnce ==
  /\ base \in {"startLoop", "woken"}
  /\ ~ locked[cur]
  /\ IF base = "woken" \/ published[cur]
     THEN loops' = Append(loops, published[cur]) /\ base' = "pool"
     ELSE base' = "wait" /\ UNCHANGED loops
  /\ UNCHANGED <<server, started, listenning, next, listens, cur, callVars, ioVars>>

\* startLoop() with mutex_: the test of loop_, and the wait or the return.
StartLoop ==
  /\ base \in {"startLoop", "woken"}
  /\ ~ locked[cur]
  /\ IF published[cur]
     THEN loops' = Append(loops, published[cur]) /\ base' = "pool"
     ELSE base' = "wait" /\ UNCHANGED loops
  /\ UNCHANGED <<server, started, listenning, next, listens, cur, callVars, ioVars>>

\* pthread_cond_wait() may return for no reason.
SpuriousWakeup ==
  /\ base = "wait"
  /\ base' = "woken"
  /\ UNCHANGED <<serverVars, cur, callVars, ioVars>>

\* The second half of TcpServer::start(), with Acceptor::listen()
BaseListens ==
  /\ base = "listen"
  /\ listenning' = TRUE
  /\ base' = "free"
  /\ UNCHANGED <<server, started, loops, next, listens, cur, callVars, ioVars>>

-----------------------------------------------------------------------------
(* start() in another thread, and the base loop *)

\* TcpServer::start() reads started_ and, if it is set, listenning_.
ThreadTests(t) ==
  /\ tpc[t] = "out"
  /\ server = "alive"
  /\ starts < MaxStarts
  /\ starts' = starts + 1
  /\ tpc' = [tpc EXCEPT ![t] = IF ~ started THEN "first"
                               ELSE IF listenning THEN "out" ELSE "queue"]
  /\ UNCHANGED <<serverVars, base, cur, ioVars>>

ThreadSetsStarted(t) ==
  /\ tpc[t] = "first"
  /\ started' = TRUE
  /\ tpc' = [tpc EXCEPT ![t] = "pool"]
  /\ UNCHANGED <<server, listenning, loops, next, listens, base, cur, starts, ioVars>>

\* EventLoopThreadPool::start() in a thread other than the base thread
ThreadAborts(t) ==
  /\ tpc[t] = "pool"
  /\ tpc' = [tpc EXCEPT ![t] = "aborted"]
  /\ UNCHANGED <<serverVars, base, cur, starts, ioVars>>

ThreadQueues(t) ==
  /\ tpc[t] = "queue"
  /\ tpc' = [tpc EXCEPT ![t] = "out"]
  /\ listens' = listens + 1
  /\ UNCHANGED <<server, started, listenning, loops, next, base, cur, starts, ioVars>>

\* The base loop calls Acceptor::listen(), maybe for the second time.
CallListen ==
  /\ base = "free"
  /\ listens > 0
  /\ listens' = listens - 1
  /\ listenning' = TRUE
  /\ UNCHANGED <<server, started, loops, next, base, cur, callVars, ioVars>>

\* newConnection(): getNextLoop() and the functor for the loop it returns.  With
\* an empty pool that is the base loop, which calls the functor at once.
NewConnection ==
  /\ base = "free"
  /\ server = "alive"
  /\ listenning
  /\ loops # <<>>
  /\ next' = (next + 1) % Len(loops)
  /\ readable' = [readable EXCEPT ![next + 1] = TRUE]
  /\ UNCHANGED <<server, started, listenning, loops, listens, base, cur, callVars, io,
                 published, locked, quit, lost>>

-----------------------------------------------------------------------------
(* The I/O threads: threadFunc() *)

\* A plausible mistake: loop_ is set and nobody notified.
Publish_NoNotify(i) ==
  /\ io[i] = "locked"
  /\ published' = [published EXCEPT ![i] = TRUE]
  /\ UNCHANGED base

\* loop_ is set and cond_ notified.
Publish(i) ==
  /\ io[i] = "locked"
  /\ published' = [published EXCEPT ![i] = TRUE]
  /\ base' = IF base = "wait" /\ cur = i THEN "woken" ELSE base

ThreadLocks(i) ==
  /\ io[i] = "new"
  /\ io' = [io EXCEPT ![i] = "locked"]
  /\ locked' = [locked EXCEPT ![i] = TRUE]
  /\ UNCHANGED <<serverVars, base, cur, callVars, published, quit, readable, lost>>

ThreadPublishes(i) ==
  /\ Publish(i)
  /\ locked' = [locked EXCEPT ![i] = FALSE]
  /\ io' = [io EXCEPT ![i] = "loop"]
  /\ UNCHANGED <<serverVars, cur, callVars, quit, readable, lost>>

\* loop() is entered: quit_ is cleared, be it set or not.
EnterLoop(i) ==
  /\ io[i] = "loop"
  /\ io' = [io EXCEPT ![i] = "test"]
  /\ quit' = [quit EXCEPT ![i] = FALSE]
  /\ lost' = (lost \/ quit[i])
  /\ UNCHANGED <<serverVars, base, cur, callVars, published, locked, readable>>

\* With quit_, loop() and threadFunc() return: the loop is destroyed, and loop_
\* still points to it.
TestQuit(i) ==
  /\ io[i] = "test"
  /\ io' = [io EXCEPT ![i] = IF quit[i] THEN "ended" ELSE "poll"]
  /\ UNCHANGED <<serverVars, base, cur, callVars, published, locked, quit, readable, lost>>

\* The loop has been woken up, or has other events, or none for kPollTimeMs.
Poll(i) ==
  /\ io[i] = "poll"
  /\ io' = [io EXCEPT ![i] = "test"]
  /\ readable' = [readable EXCEPT ![i] = FALSE]
  /\ UNCHANGED <<serverVars, base, cur, callVars, published, locked, quit, lost>>

-----------------------------------------------------------------------------
(* ~TcpServer(), as far as its threads *)

Destroy ==
  /\ base = "free"
  /\ server = "alive"
  /\ listens = 0
  /\ \A t \in Threads : tpc[t] = "out"
  /\ server' = "destroyed"
  /\ cur' = 1
  /\ base' = IF loops = <<>> THEN "gone" ELSE "quit"
  /\ UNCHANGED <<started, listenning, loops, next, listens, callVars, ioVars>>

\* EventLoop::quit() by another thread sets quit_ ...
SetQuit ==
  /\ base = "quit"
  /\ quit' = [quit EXCEPT ![cur] = TRUE]
  /\ base' = "wakeup"
  /\ UNCHANGED <<serverVars, cur, callVars, io, published, locked, readable, lost>>

\* ... and writes to wakeupFd_ then.  A loop that has returned in between, after
\* another event, is destroyed already: what the write then does to the freed
\* object or to whoever owns the descriptor is not modelled.
Wakeup ==
  /\ base = "wakeup"
  /\ readable' = [readable EXCEPT ![cur] = TRUE]
  /\ base' = "join"
  /\ UNCHANGED <<serverVars, cur, callVars, io, published, locked, quit, lost>>

Join ==
  /\ base = "join"
  /\ io[cur] = "ended"
  /\ IF cur < Len(loops)
     THEN base' = "quit" /\ cur' = cur + 1
     ELSE base' = "gone" /\ UNCHANGED cur
  /\ UNCHANGED <<serverVars, callVars, ioVars>>

-----------------------------------------------------------------------------
(* The whole *)

BaseStep ==
  \/ StartNext \/ StartLoop \/ BaseListens \/ CallListen
  \/ SetQuit \/ Wakeup \/ Join

IoStep(i) == ThreadLocks(i) \/ ThreadPublishes(i) \/ EnterLoop(i) \/ TestQuit(i)

\* The process goes on as long as nobody has aborted it.
Running == \A t \in Threads : tpc[t] # "aborted"

CallerStep(t) == ThreadSetsStarted(t) \/ ThreadAborts(t) \/ ThreadQueues(t)

Next ==
  /\ Running
  /\ \/ BaseStep
     \/ BaseStarts \/ SpuriousWakeup \/ NewConnection \/ Destroy
     \/ \E t \in Threads : ThreadTests(t) \/ CallerStep(t)
     \/ \E i \in IoThreads : IoStep(i) \/ Poll(i)

Spec == Init /\ [][Next]_vars

(***************************************************************************)
(* Every thread is scheduled; a poll() that is woken up returns, though    *)
(* nothing else has to happen in its loop.                                 *)
(***************************************************************************)
Fairness ==
  /\ WF_vars(Running /\ BaseStep)
  /\ \A t \in Threads : WF_vars(Running /\ CallerStep(t))
  /\ \A i \in IoThreads : /\ WF_vars(Running /\ IoStep(i))
                           /\ WF_vars(Running /\ readable[i] /\ Poll(i))

FairSpec == Spec /\ Fairness

-----------------------------------------------------------------------------
(* Correctness *)

\* Another thread has called start() first: EventLoopThreadPool::start() aborts.
Aborting == \E t \in Threads : tpc[t] \in {"pool", "aborted"}

(***************************************************************************)
(* When the server listens, whoever made it and how often, the pool is     *)
(* complete and every loop that getNextLoop() may return exists: its       *)
(* thread has set loop_, and does not end before the server does.  The     *)
(* exception is a process about to be aborted: a thread other than the     *)
(* base thread has found started_ unset, and once it has set it start()    *)
(* lets the server listen without a pool.                                  *)
(***************************************************************************)
ListensWhenReady ==
  listenning /\ server = "alive" /\ ~ Aborting =>
    /\ Len(loops) = NumThreads
    /\ \A i \in IoThreads : loops[i] /\ io[i] \in {"loop", "test", "poll"}

(***************************************************************************)
(* start() returns from every startLoop() and the server listens, unless   *)
(* another thread has called it first; the destructor returns from every   *)
(* join(), unless its quit() has come before the thread was in loop(),     *)
(* which cleared quit_: that join() never returns.                         *)
(***************************************************************************)
CallsReturn ==
  /\ started ~> (listenning \/ ~ Running)
  /\ server = "destroyed" ~> (base = "gone" \/ lost)
=============================================================================

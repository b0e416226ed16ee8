----------------------- MODULE EventLoopThread_proofs -----------------------
(***************************************************************************)
(* The server listens only when every loop of its pool exists, unless a    *)
(* start() by the wrong thread is aborting the process: for any number of  *)
(* I/O threads and of threads that call start(), however often.            *)
(***************************************************************************)
EXTENDS EventLoopThread, TLAPS

Starting == base \in {"pool", "startLoop", "wait", "woken"}
Stopping == base \in {"quit", "wakeup", "join", "gone"}

Types ==
  /\ server \in {"alive", "destroyed"}
  /\ started \in BOOLEAN
  /\ listenning \in BOOLEAN
  /\ loops \in Seq(BOOLEAN)
  /\ base \in {"free", "pool", "startLoop", "wait", "woken", "listen",
               "quit", "wakeup", "join", "gone"}
  /\ listens \in Nat
  /\ tpc \in [Threads -> {"out", "first", "pool", "aborted", "queue"}]
  /\ io \in [IoThreads -> {"none", "new", "locked", "loop", "test", "poll", "ended"}]
  /\ published \in [IoThreads -> BOOLEAN]
  /\ quit \in [IoThreads -> BOOLEAN]

\* What startLoop() has returned is a loop that has been published.
LoopsSound ==
  /\ Len(loops) <= NumThreads
  /\ \A i \in 1 .. Len(loops) : loops[i] /\ published[i]
  /\ base \in {"startLoop", "wait", "woken"} => cur = Len(loops) + 1 /\ Len(loops) < NumThreads

\* A thread that has published its loop is in, or has been in, loop().
PublishedRuns == \A i \in IoThreads : published[i] => io[i] \in {"loop", "test", "poll", "ended"}

\* The threads are started in their order.
StartedInOrder ==
  \A i \in IoThreads :
    Len(loops) + (IF base \in {"startLoop", "wait", "woken"} THEN 1 ELSE 0) < i
      => io[i] = "none"

\* Before start() nobody listens, nor is about to.  After it, unless another
\* thread has set started_, the pool is complete before anybody listens.
StartedOnce ==
  /\ ~ started => /\ ~ listenning
                  /\ listens = 0
                  /\ \A t \in Threads : tpc[t] \in {"out", "first"}
                  /\ base \notin {"pool", "startLoop", "wait", "woken", "listen"}
  /\ Aborting \/ (Starting => ~ listenning)
  /\ Aborting \/ (started /\ ~ Starting => Len(loops) = NumThreads)

\* Only the destructor makes a loop end.
EndsWithServer ==
  server = "alive" => /\ ~ Stopping
                      /\ \A i \in IoThreads : ~ quit[i] /\ io[i] # "ended"

Inv ==
  Types /\ LoopsSound /\ PublishedRuns /\ StartedInOrder /\ StartedOnce /\ EndsWithServer

-----------------------------------------------------------------------------
LEMMA InitHolds == Init => Inv
<1> SUFFICES ASSUME Init PROVE Inv
  OBVIOUS
<1> USE EventLoopThreadConstants DEF Init, IoThreads
<1>1. Types
  <2>1. loops \in Seq(BOOLEAN)
    OBVIOUS
  <2>2. /\ io \in [IoThreads -> {"none", "new", "locked", "loop", "test", "poll", "ended"}]
        /\ published \in [IoThreads -> BOOLEAN]
        /\ quit \in [IoThreads -> BOOLEAN]
        /\ tpc \in [Threads -> {"out", "first", "pool", "aborted", "queue"}]
    OBVIOUS
  <2> QED
    BY <2>1, <2>2 DEF Types
<1>2. LoopsSound
  BY DEF LoopsSound
<1>3. PublishedRuns /\ StartedInOrder /\ EndsWithServer
  BY DEF PublishedRuns, StartedInOrder, EndsWithServer, Stopping
<1>4. StartedOnce
  BY DEF StartedOnce, Starting
<1> QED
  BY <1>1, <1>2, <1>3, <1>4 DEF Inv

\* The steps of start() in the base thread.
LEMMA StartKeeps ==
  Inv /\ (BaseStarts \/ StartNext \/ StartLoop \/ SpuriousWakeup \/ BaseListens) => Inv'
<1> SUFFICES ASSUME Inv,
                    BaseStarts \/ StartNext \/ StartLoop \/ SpuriousWakeup \/ BaseListens
             PROVE  Inv'
  OBVIOUS
<1> USE EventLoopThreadConstants
    DEF Inv, Types, LoopsSound, PublishedRuns, StartedInOrder, StartedOnce, EndsWithServer,
        Starting, Stopping, Aborting, IoThreads, serverVars, callVars, ioVars
<1>1. CASE BaseStarts
  BY <1>1 DEF BaseStarts
<1>2. CASE StartNext
  <2>1. CASE Len(loops) < NumThreads
    <3>1. /\ cur' = Len(loops) + 1
          /\ cur' \in IoThreads
          /\ base' = "startLoop"
          /\ io' = [io EXCEPT ![cur'] = "new"]
      BY <1>2, <2>1 DEF StartNext
    <3>2. ~ published[cur']
      <4>1. base = "pool" /\ Len(loops) + 0 < cur'
        BY <1>2, <3>1 DEF StartNext
      <4>2. io[cur'] = "none"
        BY <3>1, <4>1
      <4> QED
        BY <3>1, <4>2
    <3>3. PublishedRuns'
      <4>1. UNCHANGED published
        BY <1>2 DEF StartNext
      <4>2. ASSUME NEW i \in IoThreads, published[i]
            PROVE  i # cur' /\ io'[i] = io[i]
        BY <3>1, <3>2, <4>2
      <4> QED
        BY <4>1, <4>2
    <3>4. StartedInOrder'
      <4>1. UNCHANGED loops
        BY <1>2 DEF StartNext
      <4>2. ASSUME NEW i \in IoThreads, Len(loops) + 1 < i
            PROVE  io'[i] = "none"
        BY <1>2, <2>1, <3>1, <4>2 DEF StartNext
      <4> QED
        BY <3>1, <4>1, <4>2
    <3>5. EndsWithServer'
      BY <1>2, <2>1, <3>1 DEF StartNext
    <3>6. LoopsSound' /\ StartedOnce'
      BY <1>2, <2>1, <3>1 DEF StartNext
    <3>7. Types'
      BY <1>2, <2>1, <3>1 DEF StartNext
    <3> QED
      BY <3>3, <3>4, <3>5, <3>6, <3>7
  <2>2. CASE Len(loops) = NumThreads
    BY <1>2, <2>2 DEF StartNext
  <2> QED
    BY <2>1, <2>2
<1>3. CASE StartLoop
  <2>1. CASE published[cur]
    <3>1. loops' = Append(loops, TRUE) /\ base' = "pool"
      BY <1>3, <2>1 DEF StartLoop
    <3>2. /\ cur = Len(loops) + 1
          /\ Len(loops') = Len(loops) + 1
          /\ loops'[cur] = TRUE
          /\ \A i \in 1 .. Len(loops) : loops'[i] = loops[i]
      BY <1>3, <3>1 DEF StartLoop
    <3>3. LoopsSound'
      <4>1. \A i \in 1 .. Len(loops') : i = cur \/ i \in 1 .. Len(loops)
        BY <3>2
      <4>2. \A i \in 1 .. Len(loops') : loops'[i] /\ published[i]
        BY <2>1, <3>2, <4>1
      <4> QED
        BY <1>3, <3>1, <3>2, <4>2 DEF StartLoop
    <3>4. StartedOnce'
      BY <1>3, <2>1, <3>1, <3>2 DEF StartLoop
    <3>5. Types' /\ PublishedRuns' /\ StartedInOrder' /\ EndsWithServer'
      BY <1>3, <2>1, <3>1, <3>2 DEF StartLoop
    <3> QED
      BY <3>3, <3>4, <3>5
  <2>2. CASE ~ published[cur]
    BY <1>3, <2>2 DEF StartLoop
  <2> QED
    BY <2>1, <2>2
<1>4. CASE SpuriousWakeup
  BY <1>4 DEF SpuriousWakeup
<1>5. CASE BaseListens
  BY <1>5 DEF BaseListens
<1> QED
  BY <1>1, <1>2, <1>3, <1>4, <1>5

\* The calls of start() in other threads.
LEMMA CallsKeep ==
  ASSUME Inv,
         NEW t \in Threads,
         ThreadTests(t) \/ CallerStep(t)
  PROVE  Inv'
<1> USE EventLoopThreadConstants
    DEF Inv, Types, LoopsSound, PublishedRuns, StartedInOrder, StartedOnce, EndsWithServer,
        Starting, Stopping, Aborting, IoThreads, serverVars, callVars, ioVars
<1>1. CASE ThreadTests(t)
  BY <1>1 DEF ThreadTests
<1>2. CASE ThreadSetsStarted(t)
  <2>1. tpc' = [tpc EXCEPT ![t] = "pool"] /\ Aborting'
    BY <1>2 DEF ThreadSetsStarted
  <2> QED
    BY <1>2, <2>1 DEF ThreadSetsStarted
<1>3. CASE ThreadAborts(t)
  <2>1. tpc' = [tpc EXCEPT ![t] = "aborted"] /\ Aborting' /\ started
    BY <1>3 DEF ThreadAborts
  <2> QED
    BY <1>3, <2>1 DEF ThreadAborts
<1>4. CASE ThreadQueues(t)
  BY <1>4 DEF ThreadQueues
<1> QED
  BY <1>1, <1>2, <1>3, <1>4 DEF CallerStep

\* What the base loop does for start() and for new connections.
LEMMA LoopKeeps == Inv /\ (CallListen \/ NewConnection) => Inv'
<1> SUFFICES ASSUME Inv, CallListen \/ NewConnection
             PROVE  Inv'
  OBVIOUS
<1> USE DEF Inv, Types, LoopsSound, PublishedRuns, StartedInOrder, StartedOnce, EndsWithServer,
            Starting, Stopping, Aborting, serverVars, callVars, ioVars
<1>1. CASE CallListen
  BY <1>1 DEF CallListen
<1>2. CASE NewConnection
  BY <1>2 DEF NewConnection
<1> QED
  BY <1>1, <1>2

\* The steps of an I/O thread.
LEMMA IoKeeps ==
  ASSUME Inv, NEW i \in IoThreads, IoStep(i) \/ Poll(i)
  PROVE  Inv'
<1> USE EventLoopThreadConstants
    DEF Inv, Types, LoopsSound, PublishedRuns, StartedInOrder, StartedOnce, EndsWithServer,
        Starting, Stopping, Aborting, IoThreads, serverVars, callVars, ioVars
<1>1. CASE ThreadLocks(i)
  BY <1>1 DEF ThreadLocks
<1>2. CASE ThreadPublishes(i)
  BY <1>2 DEF ThreadPublishes, Publish
<1>3. CASE EnterLoop(i)
  BY <1>3 DEF EnterLoop
<1>4. CASE TestQuit(i)
  BY <1>4 DEF TestQuit
<1>5. CASE Poll(i)
  BY <1>5 DEF Poll
<1> QED
  BY <1>1, <1>2, <1>3, <1>4, <1>5 DEF IoStep

\* The steps of the destructor.
LEMMA DestroyKeeps == Inv /\ (Destroy \/ SetQuit \/ Wakeup \/ Join) => Inv'
<1> SUFFICES ASSUME Inv, Destroy \/ SetQuit \/ Wakeup \/ Join
             PROVE  Inv'
  OBVIOUS
<1> USE EventLoopThreadConstants
    DEF Inv, Types, LoopsSound, PublishedRuns, StartedInOrder, StartedOnce, EndsWithServer,
        Starting, Stopping, Aborting, IoThreads, serverVars, callVars, ioVars
<1>1. CASE Destroy
  BY <1>1 DEF Destroy
<1>2. CASE SetQuit
  BY <1>2 DEF SetQuit
<1>3. CASE Wakeup
  BY <1>3 DEF Wakeup
<1>4. CASE Join
  BY <1>4 DEF Join
<1> QED
  BY <1>1, <1>2, <1>3, <1>4

LEMMA StutterKeeps == Inv /\ UNCHANGED vars => Inv'
BY DEF vars, Inv, Types, LoopsSound, PublishedRuns, StartedInOrder, StartedOnce, EndsWithServer,
       Starting, Stopping, Aborting, IoThreads, serverVars, callVars, ioVars

LEMMA InvImplies == Inv => ListensWhenReady
BY EventLoopThreadConstants
   DEF ListensWhenReady, Inv, Types, LoopsSound, PublishedRuns, StartedOnce, EndsWithServer,
       Starting, Stopping, IoThreads

\* Whoever makes the server listen, and however often, every loop that
\* getNextLoop() may return then exists and its thread has not ended, unless
\* another thread has called start() first and the process is being aborted.
THEOREM ListensOnlyWhenReady == Spec => []ListensWhenReady
<1>1. Inv /\ [Next]_vars => Inv'
  <2> SUFFICES ASSUME Inv, [Next]_vars
               PROVE  Inv'
    OBVIOUS
  <2>1. CASE BaseStep
    BY <2>1, StartKeeps, LoopKeeps, DestroyKeeps DEF BaseStep
  <2>2. CASE BaseStarts \/ SpuriousWakeup \/ NewConnection \/ Destroy
    BY <2>2, StartKeeps, LoopKeeps, DestroyKeeps
  <2>3. CASE \E t \in Threads : ThreadTests(t) \/ CallerStep(t)
    BY <2>3, CallsKeep
  <2>4. CASE \E i \in IoThreads : IoStep(i) \/ Poll(i)
    BY <2>4, IoKeeps
  <2>5. CASE UNCHANGED vars
    BY <2>5, StutterKeeps
  <2> QED
    BY <2>1, <2>2, <2>3, <2>4, <2>5 DEF Next
<1> QED
  BY <1>1, InitHolds, InvImplies, PTL DEF Spec
=============================================================================

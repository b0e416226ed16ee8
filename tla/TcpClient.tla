----------------------------- MODULE TcpClient ------------------------------
(***************************************************************************)
(* net/TcpClient.{h,cc} with its Connector, in the loop they live in: one  *)
(* connection at a time, made again with enableRetry() when it has closed. *)
(* The user calls connect(), disconnect() and stop() from threads of his   *)
(* own and from connectionCallback_, and destroys the client in the loop's *)
(* thread.                                                                 *)
(*                                                                         *)
(* What the user is taken to keep to, since the code is wrong otherwise:   *)
(* connect() is called MaxConnects times (with 2, the assertion of         *)
(* startInLoop() fails), and not while another call is under way; the      *)
(* client is destroyed in its loop's thread, outside its callbacks, when   *)
(* no call is under way, and the user holds the connection, if there is    *)
(* one.  No iteration of the loop takes as long as the first retry delay.  *)
(*                                                                         *)
(* An attempt that is under way when the client is destroyed, or a functor *)
(* that is queued then, may outlive the Connector: the EPoller or the      *)
(* functor refers to it by a raw pointer.  The model goes that far         *)
(* (Dangling) and no further, since what the loop does with the freed      *)
(* object is undefined.                                                    *)
(***************************************************************************)
EXTENDS Connector

CONSTANTS Threads,       \* user threads
          EnableRetry,   \* enableRetry() has been called
          MaxConnects,   \* bound: the calls of connect()
          MaxCalls       \* bound: the calls of disconnect() and stop()

ASSUME TcpClientConstants ==
  /\ EnableRetry \in BOOLEAN
  /\ MaxConnects \in Nat
  /\ MaxCalls \in Nat

VARIABLES
  retrying,     \* TcpClient's connect_
  connection,   \* connection_ is set
  conn,         \* the last connection: "none", "up", or "closed"
  closeCb,      \* what its closeCallback_ is bound to
  client,       \* the TcpClient is "alive", or "destroyed"
  connector,    \* the Connector is
  release,      \* the timer that drops the last reference to the Connector
  settled,      \* history: when the client was destroyed its Connector had no
                \* channel and no functor queued
  phase,        \* the loop is handling "events" or calling "functors"
  active,       \* the events of this iteration
  user,         \* a connectionCallback_ is running
  tpc,          \* per thread, the call it is in and its next step
  connects,     \* calls of connect()
  calls,        \* calls of disconnect() and stop()
  stopped       \* history: stop() has cleared both flags and the loop was not
                \* about to act on what it had read before

clientVars == <<retrying, connection, conn, closeCb, client, connector, release, settled>>
loopVars == <<phase, active, batch, user>>
userVars == <<tpc, connects, calls, stopped>>
vars == <<connectorVars, todo, pending, failed, gaveUp, clientVars, loopVars, userVars>>

Init ==
  /\ ConnectorInit
  /\ retrying = TRUE
  /\ connection = FALSE
  /\ conn = "none"
  /\ closeCb = "client"
  /\ client = "alive"
  /\ connector = "alive"
  /\ release = FALSE
  /\ settled = TRUE
  /\ phase = "functors"
  /\ active = <<>>
  /\ user = FALSE
  /\ tpc = [t \in Threads |-> <<"out", 0>>]
  /\ connects = 0
  /\ calls = 0
  /\ stopped = FALSE

Free == todo = None /\ ~ user
NoCall == \A t \in Threads : tpc[t] = <<"out", 0>>
NoConnect == \A t \in Threads : tpc[t][1] # "connect"

-----------------------------------------------------------------------------
(* The loop *)

\* What poll() may report: the end of an attempt, the retry timer, the end of
\* the connection.
Happening ==
  {e \in {"write", "error", "retry", "close"} :
     \/ e \in {"write", "error"} /\ channel = "registered"
     \/ e = "retry" /\ retryTimer # None
     \/ e = "close" /\ conn = "up"}

Poll ==
  /\ phase = "functors"
  /\ Free
  /\ batch = <<>>
  /\ \E S \in SUBSET Happening :
       /\ ~ ({"write", "error"} \subseteq S)
       /\ S # {} \/ pending # <<>> \/ release
       /\ \E s \in SetToSeqs(S) : active' = s
  /\ phase' = "events"
  /\ UNCHANGED <<connectorVars, todo, pending, failed, gaveUp, clientVars, batch, user, userVars>>

TakeFunctors ==
  /\ phase = "events"
  /\ Free
  /\ active = <<>>
  /\ phase' = "functors"
  /\ batch' = pending
  /\ pending' = <<>>
  /\ UNCHANGED <<connectorVars, todo, failed, gaveUp, clientVars, active, user, userVars>>

Handling(e) ==
  /\ phase = "events"
  /\ Free
  /\ active # <<>>
  /\ Head(active) = e
  /\ active' = Tail(active)
  /\ UNCHANGED <<phase, batch, userVars>>

Calling(f) ==
  /\ phase = "functors"
  /\ Free
  /\ batch # <<>>
  /\ Head(batch)[1] = f
  /\ batch' = Tail(batch)
  /\ UNCHANGED <<phase, active, userVars>>

ConnectorWrites == Handling("write") /\ HandleWrite /\ UNCHANGED <<clientVars, user>>

ConnectorFails == Handling("error") /\ HandleError /\ UNCHANGED <<clientVars, user>>

\* The callback of the retry timer: nothing cancels it between poll() and here.
RetryExpires ==
  /\ Handling("retry")
  /\ retryTimer' = None
  /\ StartInLoop
  /\ UNCHANGED <<wanted, state, channel, retryDelay, timerId, gaveUp, pending, clientVars, user>>

CallStart ==
  /\ Calling("start")
  /\ StartInLoop
  /\ UNCHANGED <<connectorVars, gaveUp, pending, clientVars, user>>

\* startInLoop(), called by start() in the loop's thread or by restart()
CallerStarts ==
  /\ todo = "start"
  /\ StartInLoop
  /\ UNCHANGED <<connectorVars, gaveUp, pending, clientVars, loopVars, userVars>>

ConnectorConnects == Connect /\ UNCHANGED <<clientVars, loopVars, userVars>>

CallReset ==
  /\ Calling("reset")
  /\ ResetChannel
  /\ UNCHANGED <<wanted, state, retryDelay, timerId, retryTimer, todo, failed, gaveUp, pending,
                 clientVars, user>>

\* cancelInLoop() for the stop() of another thread
CallCancel ==
  /\ Calling("cancel")
  /\ retryTimer' = IF Head(batch)[2] = retryTimer THEN None ELSE retryTimer
  /\ UNCHANGED <<wanted, state, channel, retryDelay, timerId, todo, failed, gaveUp, pending,
                 clientVars, user>>

-----------------------------------------------------------------------------
(* TcpClient *)

\* newConnection(), up to the connectionCallback_ in connectEstablished()
NewConnection ==
  /\ todo = "newConnection"
  /\ todo' = None
  /\ connection' = TRUE
  /\ conn' = "up"
  /\ closeCb' = "client"
  /\ user' = TRUE
  /\ UNCHANGED <<connectorVars, pending, failed, gaveUp, retrying, client, connector,
                 release, settled, phase, active, batch, userVars>>

\* removeConnection(), as far as its test of connect_
RemoveConnection ==
  /\ connection' = FALSE
  /\ failed' = Failing([current |-> connection])
  /\ todo' = IF EnableRetry /\ retrying THEN "restart" ELSE None

\* handleClose() of the connection calls its closeCallback_; either one queues
\* connectDestroyed().
HandleClose ==
  /\ Handling("close")
  /\ conn' = "closed"
  /\ pending' = Append(pending, <<"destroy", None>>)
  /\ IF closeCb = "client" THEN RemoveConnection ELSE UNCHANGED <<connection, todo, failed>>
  /\ UNCHANGED <<connectorVars, gaveUp, retrying, closeCb, client, connector, release,
                 settled, user>>

RestartConnector ==
  /\ todo = "restart"
  /\ Restart
  /\ UNCHANGED <<clientVars, loopVars, userVars>>

\* connectDestroyed(), with the connectionCallback_
CallDestroy ==
  /\ Calling("destroy")
  /\ conn' = "none"
  /\ user' = TRUE
  /\ UNCHANGED <<connectorVars, todo, pending, failed, gaveUp, retrying, connection, closeCb,
                 client, connector, release, settled>>

\* A plausible mistake: the close callback stays bound to the client.
Destroy_KeepsCallback ==
  /\ client' = "destroyed"
  /\ IF connection
     THEN connector' = "destroyed" /\ UNCHANGED <<closeCb, wanted, retryTimer, release>>
     ELSE /\ wanted' = FALSE
          /\ retryTimer' = None
          /\ release' = TRUE
          /\ UNCHANGED <<closeCb, connector>>

\* ~TcpClient(): the connection lives on with another close callback, or the
\* Connector is stopped and kept for a second.
Destroy ==
  /\ client' = "destroyed"
  /\ IF connection
     THEN /\ closeCb' = "detached"
          /\ connector' = "destroyed"
          /\ UNCHANGED <<wanted, retryTimer, release>>
     ELSE /\ wanted' = FALSE
          /\ retryTimer' = None
          /\ release' = TRUE
          /\ UNCHANGED <<closeCb, connector>>

ConnectorFunctors == {<<"start", None>>, <<"reset", None>>} \cap Functors

UserDestroys ==
  /\ client = "alive"
  /\ phase = "functors"
  /\ Free
  /\ NoCall
  /\ Destroy
  /\ settled' = (channel = None /\ ConnectorFunctors = {})
  /\ UNCHANGED <<state, channel, retryDelay, timerId, todo, pending, failed, gaveUp, retrying,
                 connection, conn, loopVars, userVars>>

\* The second is over, whatever the Connector is doing: its timer goes off
\* before, between or after the other events of an iteration.
ReleaseExpires ==
  /\ phase = "events"
  /\ Free
  /\ release
  /\ release' = FALSE
  /\ connector' = "destroyed"
  /\ UNCHANGED <<connectorVars, todo, pending, failed, gaveUp, retrying, connection, conn,
                 closeCb, client, settled, loopVars, userVars>>

\* The EPoller has the channel of a Connector that is gone, or a functor the
\* Connector: both are raw pointers.
Dangling == connector = "destroyed" /\ (channel # None \/ ConnectorFunctors # {})

-----------------------------------------------------------------------------
(* The user's calls: in the loop's thread a call is one step *)

LoopConnects ==
  /\ client = "alive"
  /\ phase = "functors"
  /\ todo = None
  /\ NoCall
  /\ connects < MaxConnects
  /\ connects' = connects + 1
  /\ retrying' = TRUE
  /\ wanted' = TRUE
  /\ stopped' = FALSE
  /\ todo' = "start"
  /\ UNCHANGED <<state, channel, retryDelay, timerId, retryTimer, gaveUp, failed, pending,
                 connection, conn, closeCb, client, connector, release, settled, loopVars, tpc,
                 calls>>

CallbackStops ==
  /\ client = "alive"
  /\ user
  /\ todo = None
  /\ NoConnect
  /\ calls < MaxCalls
  /\ calls' = calls + 1
  /\ retrying' = FALSE
  /\ \/ /\ wanted' = FALSE        \* stop()
        /\ retryTimer' = None
        /\ stopped' = TRUE
     \/ UNCHANGED <<wanted, retryTimer, stopped>>     \* disconnect()
  /\ UNCHANGED <<state, channel, retryDelay, timerId, todo, gaveUp, failed, pending, connection,
                 conn, closeCb, client, connector, release, settled, loopVars, tpc, connects>>

CallbackReturns ==
  /\ user
  /\ todo = None
  /\ user' = FALSE
  /\ UNCHANGED <<connectorVars, todo, pending, failed, gaveUp, clientVars, phase, active, batch,
                 userVars>>

ThreadCalls(t) ==
  /\ client = "alive"
  /\ tpc[t] = <<"out", 0>>
  /\ \/ /\ NoCall
        /\ connects < MaxConnects
        /\ connects' = connects + 1
        /\ tpc' = [tpc EXCEPT ![t] = <<"connect", 1>>]
        /\ UNCHANGED calls
     \/ /\ NoConnect
        /\ calls < MaxCalls
        /\ calls' = calls + 1
        /\ \E op \in {"stop", "disconnect"} : tpc' = [tpc EXCEPT ![t] = <<op, 1>>]
        /\ UNCHANGED connects
  /\ UNCHANGED <<connectorVars, todo, pending, failed, gaveUp, clientVars, loopVars, stopped>>

\* TcpClient's connect_, which is all that disconnect() assigns: the shutdown()
\* of the connection is in module TcpConnection.
ThreadSetsRetrying(t) ==
  /\ tpc[t][2] = 1
  /\ retrying' = (tpc[t][1] = "connect")
  /\ tpc' = [tpc EXCEPT ![t] = IF @[1] = "disconnect" THEN <<"out", 0>> ELSE <<@[1], 2>>]
  /\ UNCHANGED <<connectorVars, todo, pending, failed, gaveUp, connection, conn, closeCb,
                 client, connector, release, settled, loopVars, connects, calls, stopped>>

\* Connector's connect_
ThreadSetsWanted(t) ==
  /\ tpc[t][2] = 2
  /\ wanted' = (tpc[t][1] = "connect")
  /\ stopped' = (tpc[t][1] = "stop" /\ todo = None)
  /\ tpc' = [tpc EXCEPT ![t][2] = 3]
  /\ UNCHANGED <<state, channel, retryDelay, timerId, retryTimer, todo, pending, failed, gaveUp,
                 clientVars, loopVars, connects, calls>>

\* start() queues startInLoop(), and stop() cancelInLoop() with its copy of
\* timerId_: copied while the loop assigns it, it may be the id of no timer.
ThreadQueues(t) ==
  /\ tpc[t][2] = 3
  /\ \E f \in IF tpc[t][1] = "connect"
             THEN {<<"start", None>>}
             ELSE {<<"cancel", id>> : id \in {timerId, None}} :
       pending' = Append(pending, f)
  /\ tpc' = [tpc EXCEPT ![t] = <<"out", 0>>]
  /\ UNCHANGED <<connectorVars, todo, failed, gaveUp, clientVars, loopVars, connects, calls,
                 stopped>>

ThreadStep(t) == ThreadSetsRetrying(t) \/ ThreadSetsWanted(t) \/ ThreadQueues(t)

LoopStep ==
  \/ TakeFunctors \/ CallbackReturns
  \/ ConnectorWrites \/ ConnectorFails \/ RetryExpires \/ CallerStarts \/ ConnectorConnects
  \/ CallStart \/ CallReset \/ CallCancel
  \/ NewConnection \/ HandleClose \/ RestartConnector \/ CallDestroy \/ ReleaseExpires

\* A failed assertion aborts the process, and the use of a dangling pointer is
\* undefined.
Running == failed = {} /\ ~ Dangling

Next ==
  /\ Running
  /\ \/ Poll \/ LoopStep
     \/ UserDestroys \/ LoopConnects \/ CallbackStops
     \/ \E t \in Threads : ThreadCalls(t) \/ ThreadStep(t)

Spec == Init /\ [][Next]_vars

(***************************************************************************)
(* The loop's thread is scheduled, callbacks return, a thread finishes the *)
(* call it is in; poll() returns for functors and for an expired timer.    *)
(* That an attempt succeeds, or even ends, is not relied on.               *)
(***************************************************************************)
Fairness ==
  /\ WF_vars(Running /\ (retryTimer # None \/ pending # <<>>) /\ Poll)
  /\ WF_vars(Running /\ LoopStep)
  /\ \A t \in Threads : WF_vars(Running /\ ThreadStep(t))

FairSpec == Spec /\ Fairness

-----------------------------------------------------------------------------
(* Correctness *)

(***************************************************************************)
(* No assertion of Connector or TcpClient fails, whenever attempts fail,   *)
(* timers expire, connections close and the user stops; and connection_ is *)
(* not overwritten, or removeConnection()'s assertion would fail when the  *)
(* lost connection closes.                                                 *)
(***************************************************************************)
NoAssertionFails ==
  /\ failed = {}
  /\ todo = "newConnection" => conn = "none"

(***************************************************************************)
(* After the end of the client nothing leads back to it: the connection    *)
(* that survives it has another close callback, the Connector that does    *)
(* has been stopped.  When the Connector goes as well, no timer of it is   *)
(* left; and no channel or functor, if there was none when the client was  *)
(* destroyed.  Otherwise there may be: connect(2) takes longer than the    *)
(* second that the Connector is kept for, or the client is destroyed in    *)
(* the iteration that made its connection, before resetChannel().          *)
(***************************************************************************)
NothingDangles ==
  /\ client = "destroyed" => /\ conn = "up" => closeCb = "detached"
                             /\ todo \notin {"newConnection", "restart"}
                             /\ connector = "alive" => ~ wanted
  /\ connector = "destroyed" => /\ retryTimer = None
                                /\ todo = None
                                /\ settled => ~ Dangling

(***************************************************************************)
(* After stop() no attempt is begun and no connection made: neither by the *)
(* timer or the functor that is under way nor for the attempt that is.     *)
(* The exception is a stop() of another thread that comes between a test   *)
(* of connect_ in the loop and what follows from it; after removeConnec-   *)
(* tion()'s test restart() then undoes the stop() altogether.              *)
(***************************************************************************)
StopIsFinal ==
  [][stopped /\ stopped' => /\ state' = "kConnecting" => state = "kConnecting"
                            /\ conn' = "up" => conn = "up"]_vars

(***************************************************************************)
(* A client that wants a connection, and has none, calls connect(2) again  *)
(* and again, after failures at once and later, and when the connection    *)
(* has closed, unless connect(2) meets an error it is not to retry after.  *)
(***************************************************************************)
TriesAgain ==
  (connects > 0 /\ wanted /\ retrying)
    ~> (todo = "connect" \/ state = "kConnecting" \/ conn = "up" \/ gaveUp
        \/ ~ wanted \/ ~ retrying \/ client = "destroyed")
=============================================================================

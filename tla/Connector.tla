----------------------------- MODULE Connector ------------------------------
(***************************************************************************)
(* net/Connector.{h,cc}: one object that makes a TCP connection, retries   *)
(* with a growing delay and hands the descriptor to its                    *)
(* newConnectionCallback_.  The operators are the member functions as the  *)
(* loop's thread runs them; module TcpClient, the only user of Connector,  *)
(* makes them into the steps of a loop.                                    *)
(*                                                                         *)
(* Where the loop tests connect_, which other threads assign, and acts     *)
(* upon it, the test and the act are two steps: todo is the act that is    *)
(* due.                                                                    *)
(***************************************************************************)
EXTENDS Integers, SequencesExt

CONSTANTS MaxRetryDelay,   \* kMaxRetryDelayMs, in units of kInitRetryDelayMs
          TimerIds,        \* enough to tell a timer from those before it
          None

ASSUME ConnectorConstants ==
  /\ MaxRetryDelay \in Nat \ {0}
  /\ None \notin {"registered", "removed", "start", "connect", "newConnection", "restart"}

VARIABLES
  wanted,      \* Connector's connect_
  state,       \* state_
  channel,     \* channel_: None, in the EPoller, or removed from it
  retryDelay,  \* retryDelayMs_
  timerId,     \* timerId_
  retryTimer,  \* the Connector's timer in the TimerQueue
  todo,        \* what the loop has found to do next
  pending,     \* pendingFunctors_ of the loop: a function and its argument
  batch,       \* the functors swapped out of it and not yet called
  failed,      \* the assertions that failed
  gaveUp       \* history: connect() has met an error it does not retry after

connectorVars == <<wanted, state, channel, retryDelay, timerId, retryTimer>>

ConnectorInit ==
  /\ wanted = FALSE
  /\ state = "kDisconnected"
  /\ channel = None
  /\ retryDelay = 1
  /\ timerId = None
  /\ retryTimer = None
  /\ todo = None
  /\ pending = <<>>
  /\ batch = <<>>
  /\ failed = {}
  /\ gaveUp = FALSE

Failing(asserts) == {a \in DOMAIN asserts : ~ asserts[a]}

\* A plausible mistake: connect_ is not tested.
StartInLoop_Always ==
  /\ todo' = "connect"
  /\ failed' = Failing([disconnected |-> state = "kDisconnected"])

\* startInLoop(), a functor or the callback of the retry timer
StartInLoop ==
  /\ todo' = IF wanted THEN "connect" ELSE None
  /\ failed' = Failing([disconnected |-> state = "kDisconnected"])

\* A plausible mistake: state_ is left at kConnected.
Restart_KeepsState ==
  /\ retryDelay' = 1
  /\ wanted' = TRUE
  /\ todo' = "start"
  /\ UNCHANGED <<state, channel, timerId, retryTimer, failed, gaveUp, pending>>

\* restart(), as far as its call of startInLoop()
Restart ==
  /\ state' = "kDisconnected"
  /\ retryDelay' = 1
  /\ wanted' = TRUE
  /\ todo' = "start"
  /\ UNCHANGED <<channel, timerId, retryTimer, failed, gaveUp, pending>>

Functors == ToSet(pending) \cup ToSet(batch)

\* runAfter(): a timer that no cancel() under way refers to
SetTimer ==
  /\ timerId' = CHOOSE id \in TimerIds : id # timerId /\ <<"cancel", id>> \notin Functors
  /\ retryTimer' = timerId'

\* A plausible mistake: there is no further attempt once the delay has
\* reached its limit.
Retry_ThenStops ==
  /\ state' = "kDisconnected"
  /\ IF wanted /\ retryDelay < MaxRetryDelay
     THEN SetTimer /\ retryDelay' = IF 2 * retryDelay < MaxRetryDelay THEN 2 * retryDelay
                                                                     ELSE MaxRetryDelay
     ELSE UNCHANGED <<timerId, retryTimer, retryDelay>>

\* retry(): the descriptor is closed and, if connect_ still holds, the next
\* attempt left to a timer.
Retry ==
  /\ state' = "kDisconnected"
  /\ IF wanted
     THEN SetTimer /\ retryDelay' = IF 2 * retryDelay < MaxRetryDelay THEN 2 * retryDelay
                                                                     ELSE MaxRetryDelay
     ELSE UNCHANGED <<timerId, retryTimer, retryDelay>>

\* connect(): by what connect(2) returns it goes on to connecting(), to
\* retry(), or nowhere.
Connect ==
  /\ todo = "connect"
  /\ todo' = None
  /\ \/ /\ state' = "kConnecting"
        /\ channel' = "registered"
        /\ failed' = Failing([noChannel |-> channel = None])
        /\ UNCHANGED <<timerId, retryTimer, retryDelay, gaveUp>>
     \/ /\ Retry
        /\ failed' = Failing([oneTimer |-> retryTimer = None])
        /\ UNCHANGED <<channel, gaveUp>>
     \/ /\ gaveUp' = TRUE
        /\ UNCHANGED <<state, channel, timerId, retryTimer, retryDelay, failed>>
  /\ UNCHANGED <<wanted, pending>>

\* removeAndResetChannel(), which leaves the rest to resetChannel()
RemoveAndResetChannel ==
  /\ channel' = "removed"
  /\ pending' = Append(pending, <<"reset", None>>)

ResetChannel == channel' = None

\* The write callback of channel_: the connection is made, or it has failed
\* or connected to itself.  The branch for another state_ is meant for the
\* call that follows handleError(); to meet it here would be a failure too.
HandleWrite ==
  /\ RemoveAndResetChannel
  /\ \/ /\ state' = "kConnected"
        /\ todo' = IF wanted THEN "newConnection" ELSE None
        /\ UNCHANGED <<timerId, retryTimer, retryDelay>>
     \/ Retry /\ UNCHANGED todo
  /\ failed' = Failing([connecting |-> state = "kConnecting"])
  /\ UNCHANGED <<wanted, gaveUp>>

\* handleError(), after which handleEvent() calls the write callback too: it
\* finds state_ at kDisconnected.
HandleError ==
  /\ RemoveAndResetChannel
  /\ Retry
  /\ failed' = Failing([connecting |-> state = "kConnecting", oneTimer |-> retryTimer = None])
  /\ UNCHANGED <<wanted, todo, gaveUp>>
=============================================================================

------------------------------ MODULE TcpServer -----------------------------
(***************************************************************************)
(* The life of the connections of a TcpServer: net/TcpServer, the life     *)
(* cycle part of net/TcpConnection, net/Acceptor, net/EventLoopThreadPool, *)
(* net/Channel and net/EPoller, over event loops that are FIFO executors   *)
(* (module EventLoop).  A loop polls, handles the active channels and then *)
(* runs the functors queued up to then.                                    *)
(*                                                                         *)
(* Abstractions: data is "some" or "none"; errors and events that are only *)
(* logged are left out; writeCompleteCallback_, which is optional, is not  *)
(* set; the server is never destroyed.  A connection is destroyed by       *)
(* losing its last reference, so Live is a state function and its          *)
(* complement is what ~TcpConnection has closed.                           *)
(***************************************************************************)
EXTENDS Naturals, FiniteSets, SequencesExt

CONSTANTS Base,        \* loop_, the loop of the acceptor
          Pool,        \* threadPool_->loops_: <<>> without setThreadNum()
          MaxConns,    \* bound: connections that clients open
          Fds,         \* the descriptors the process may open for them
          Threads,     \* user threads that call send() and shutdown()
          Sender,      \* the thread that sends on a connection and shuts it
                       \* down; None if callbacks do, and threads only the latter
          MaxPending,  \* bound: functors that they leave in a loop
          Callers,     \* callbacks that call send() and shutdown(): "own" of
                       \* the connection, "cross" of another of the loop
          ClientsWait, \* do a thread's clients wait for its FIN to close?
          UserKeeps    \* does the user keep all his pointers for good?

Conns == 1 .. MaxConns       \* named by nextConnId_
Listener == 0                \* acceptChannel_
None == 0
Loops == {Base} \cup Range(Pool)

ASSUME ServerConstants ==
  /\ Pool \in Seq(Range(Pool))
  /\ IsInjective(Pool)
  /\ Base \notin Range(Pool)
  /\ MaxConns \in Nat
  /\ Fds \subseteq Nat
  /\ Sender \in [Conns -> Threads \cup {None}]
  /\ MaxPending \in Nat
  /\ Callers \subseteq {"own", "cross"}
  /\ ClientsWait \in BOOLEAN
  /\ UserKeeps \in BOOLEAN

VARIABLES
  nextConnId,  \* nextConnId_
  next,        \* threadPool_->next_
  connections, \* connections_
  conn,        \* the TcpConnection objects, with their Channel
  channels,    \* per loop, the EPoller's channels_: descriptor -> Channel
  peer,        \* the next thing to read: data, FIN, a reset, nothing more
  phase,       \* per loop: handling events or calling functors
  active,      \* per loop: activeChannels_ not yet handled
  revents,     \* per connection: revents_ not yet handled
  user,        \* per loop: the connection whose callback is running
  pending,     \* per loop: pendingFunctors_
  batch,       \* per loop: the functors taken by doPendingFunctors()
  held,        \* connections to which the user keeps a TcpConnectionPtr
  tpc,         \* per user thread: what is left of its call
  failed       \* the assertions that have failed: the process has aborted

loopVars == <<phase, active, revents, user, batch>>
vars == <<nextConnId, next, connections, conn, channels, peer, phase, active,
          revents, user, pending, batch, held, tpc, failed>>

Unborn == [loop |-> Base, fd |-> None, state |-> "kConnecting", events |-> {},
           index |-> "kNew", output |-> FALSE, shut |-> FALSE]

Init ==
  /\ nextConnId = 1
  /\ next = 0
  /\ connections = {}
  /\ conn = [c \in Conns |-> Unborn]
  /\ channels = [l \in Loops |-> [fd \in Fds |-> None]]
  /\ peer = [c \in Conns |-> "open"]
  /\ phase = [l \in Loops |-> "functors"]
  /\ active = [l \in Loops |-> <<>>]
  /\ revents = [c \in Conns |-> {}]
  /\ user = [l \in Loops |-> None]
  /\ pending = [l \in Loops |-> <<>>]
  /\ batch = [l \in Loops |-> <<>>]
  /\ held = {}
  /\ tpc = [t \in Threads |-> <<"out">>]
  /\ failed = {}

-----------------------------------------------------------------------------
(* References and assertions *)

Functors == UNION {Range(pending[l]) \cup Range(batch[l]) : l \in Loops}

\* The connections some TcpConnectionPtr refers to.  The functor of
\* shutdown() holds a raw pointer.
Live ==
  connections \cup held
    \cup {f[2] : f \in {g \in Functors : g[1] # "shutdown"}}
    \cup {tpc[t][2] : t \in {u \in Threads : tpc[u] # <<"out">>}}
    \cup ({user[l] : l \in Loops} \ {None})

FreeFds == Fds \ {conn[c].fd : c \in Live}

Failing(asserts) == {a \in DOMAIN asserts : ~ asserts[a]}

Queue(l, op, c) == [pending EXCEPT ![l] = Append(@, <<op, c>>)]

-----------------------------------------------------------------------------
(* Channel and EPoller *)

\* What updateChannel() asserts of channels_ for connection c, which is r.
Registered(c, r) ==
  channels[r.loop][r.fd] = IF r.index = "kNew" THEN None ELSE c

\* A plausible mistake: a deleted channel counts as new.
WithEvents_ForgetsDeleted(r, ev) ==
  [r EXCEPT !.events = ev,
            !.index = IF r.index = "kAdded" /\ ev = {} THEN "kNew" ELSE "kAdded"]

\* The connection once its events_ are ev: EPoller::updateChannel().
WithEvents(r, ev) ==
  [r EXCEPT !.events = ev,
            !.index = IF r.index = "kAdded" /\ ev = {} THEN "kDeleted"
                                                       ELSE "kAdded"]

\* Connection c becomes r, except for its events_, which become ev.
UpdateChannel(c, r, ev) ==
  /\ conn' = [conn EXCEPT ![c] = WithEvents(r, ev)]
  /\ channels' = [channels EXCEPT ![r.loop][r.fd] = c]

Writing(c) == "write" \in conn[c].events

HangUp(c) ==
  \/ peer[c] \in {"rst", "dead"}
  \/ peer[c] = "fin" /\ conn[c].shut

\* What epoll_wait is bound to report of a channel, and what it may.
MustReport(c) ==
  LET in == IF "read" \in conn[c].events /\ peer[c] # "open" THEN {"in"} ELSE {}
  IN  in \cup (IF HangUp(c) /\ in = {} THEN {"hup"} ELSE {})

MayReport(c) ==
  MustReport(c) \cup (IF Writing(c) THEN {"out"} ELSE {})
                \cup (IF "read" \in conn[c].events THEN {"in"} ELSE {})

Polled(l) ==
  {c \in Live : conn[c].loop = l /\ conn[c].index = "kAdded"}

CanAccept(l) == l = Base /\ nextConnId <= MaxConns

-----------------------------------------------------------------------------
(* One iteration of loop(): poll, handle, call functors *)

InPoll(l) == phase[l] = "functors" /\ batch[l] = <<>> /\ user[l] = None

\* kPollTimeMs pass: an iteration in which nothing happens.
PollTimesOut(l) ==
  /\ InPoll(l)
  /\ pending[l] = <<>>
  /\ \A c \in Polled(l) : MustReport(c) = {}
  /\ UNCHANGED vars

\* poll() returns with events or woken up for functors.
Poll(l) ==
  /\ InPoll(l)
  /\ \E rv \in [Polled(l) -> SUBSET {"hup", "in", "out"}],
        clients \in SUBSET {Listener} :
       /\ \A c \in Polled(l) : MustReport(c) \subseteq rv[c] /\ rv[c] \subseteq MayReport(c)
       /\ clients # {} => CanAccept(l)
       /\ LET ready == clients \cup {c \in Polled(l) : rv[c] # {}}
          IN  /\ ready # {} \/ pending[l] # <<>>
              /\ \E s \in SetToSeqs(ready) : active' = [active EXCEPT ![l] = s]
       /\ revents' = [c \in Conns |-> IF c \in Polled(l) THEN rv[c] ELSE revents[c]]
  /\ phase' = [phase EXCEPT ![l] = "events"]
  /\ UNCHANGED <<nextConnId, next, connections, conn, channels, peer, user,
                 pending, batch, held, tpc, failed>>

Handling(l, c) ==
  /\ phase[l] = "events"
  /\ user[l] = None
  /\ active[l] # <<>>
  /\ c = Head(active[l])

\* Channel::handleEvent(): the order of the callbacks.
HandlingEvent(l, c, ev) ==
  /\ Handling(l, c)
  /\ c # Listener
  /\ ev = CASE "hup" \in revents[c] -> "hup"
            [] "in" \in revents[c]  -> "in"
            [] OTHER                -> "out"
  /\ revents' = [revents EXCEPT ![c] = @ \ {ev}]
  /\ active' = [active EXCEPT ![l] = IF revents[c] = {ev} THEN Tail(@) ELSE @]
  /\ UNCHANGED <<nextConnId, next, phase, batch, held, tpc>>

\* doPendingFunctors() swaps.
TakeFunctors(l) ==
  /\ phase[l] = "events"
  /\ user[l] = None
  /\ active[l] = <<>>
  /\ batch' = [batch EXCEPT ![l] = pending[l]]
  /\ pending' = [pending EXCEPT ![l] = <<>>]
  /\ phase' = [phase EXCEPT ![l] = "functors"]
  /\ UNCHANGED <<nextConnId, next, connections, conn, channels, peer, active,
                 revents, user, held, tpc, failed>>

Calling(l, op, c) ==
  /\ phase[l] = "functors"
  /\ user[l] = None
  /\ batch[l] # <<>>
  /\ Head(batch[l]) = <<op, c>>
  /\ batch' = [batch EXCEPT ![l] = Tail(@)]
  /\ UNCHANGED <<nextConnId, next, peer, phase, active, revents, tpc>>

-----------------------------------------------------------------------------
(* Accepting *)

\* A plausible mistake: the channel is not enabled.
ConnectEstablished_NoReading(l, c, r) ==
  /\ failed' = Failing([connecting |-> r.state = "kConnecting"])
  /\ conn' = [conn EXCEPT ![c] = [r EXCEPT !.state = "kConnected"]]
  /\ user' = [user EXCEPT ![l] = c]
  /\ held' \in {h \in {held, held \cup {c}} : UserKeeps => c \in h}
  /\ UNCHANGED channels

\* TcpConnection::connectEstablished(), up to its connectionCallback_, in
\* which the user may keep a pointer.
ConnectEstablished(l, c, r) ==
  /\ failed' = Failing([connecting |-> r.state = "kConnecting",
                        registered |-> Registered(c, r)])
  /\ UpdateChannel(c, [r EXCEPT !.state = "kConnected"], r.events \cup {"read"})
  /\ user' = [user EXCEPT ![l] = c]
  /\ held' \in {h \in {held, held \cup {c}} : UserKeeps => c \in h}

\* A plausible mistake: next_ is not wrapped around.
NextIndex_NoWrap == next + 1

\* EventLoopThreadPool::getNextLoop(): next_ after loops_[next_] is given.
NextIndex == IF next + 1 >= Len(Pool) THEN 0 ELSE next + 1

NewConnection(fd) ==
  LET c == nextConnId
      ioLoop == IF Pool = <<>> THEN Base ELSE Pool[next + 1]
      r == [Unborn EXCEPT !.loop = ioLoop, !.fd = fd]
  IN  /\ nextConnId' = nextConnId + 1
      /\ next' = IF Pool = <<>> THEN next ELSE NextIndex
      /\ connections' = connections \cup {c}
      /\ IF ioLoop = Base
         THEN ConnectEstablished(Base, c, r) /\ UNCHANGED pending
         ELSE /\ conn' = [conn EXCEPT ![c] = r]
              /\ pending' = Queue(ioLoop, "establish", c)
              /\ UNCHANGED <<channels, user, held, failed>>

\* The read callback of acceptChannel_: accept() returns the lowest free
\* descriptor.  It fails if there is none, for which other files of the process
\* may be the reason, or if the client has given up.
Accept ==
  /\ Handling(Base, Listener)
  /\ active' = [active EXCEPT ![Base] = Tail(@)]
  /\ \/ FreeFds # {} /\ NewConnection(Min(FreeFds))
     \/ UNCHANGED <<nextConnId, next, connections, conn, channels, user,
                    pending, held, failed>>
  /\ UNCHANGED <<peer, phase, revents, batch, tpc>>

CallEstablished(l, c) ==
  /\ Calling(l, "establish", c)
  /\ ConnectEstablished(l, c, conn[c])
  /\ UNCHANGED <<connections, pending>>

-----------------------------------------------------------------------------
(* Closing *)

\* A plausible mistake: connectDestroyed() is not queued.
RemoveConnection_NoDestroy(c) ==
  /\ connections' = connections \ {c}
  /\ UNCHANGED pending

\* TcpServer::removeConnectionInLoop() erases c and queues its destruction.
RemoveConnection(c) ==
  /\ connections' = connections \ {c}
  /\ pending' = Queue(conn[c].loop, "destroy", c)

\* Plausible mistakes: closeCallback_ is not called, the channel stays enabled.
HandleClose_NoCallback(l, c) ==
  /\ UpdateChannel(c, conn[c], {})
  /\ UNCHANGED <<connections, pending, failed>>

HandleClose_StaysEnabled(l, c) ==
  /\ IF l = Base
     THEN RemoveConnection(c)
     ELSE pending' = Queue(Base, "remove", c) /\ UNCHANGED connections
  /\ failed' = Failing([open   |-> conn[c].state \in {"kConnected", "kDisconnecting"},
                        erased |-> l = Base => c \in connections])
  /\ UNCHANGED <<conn, channels>>

\* TcpConnection::handleClose(); removeConnection() goes through runInLoop().
HandleClose(l, c) ==
  /\ UpdateChannel(c, conn[c], {})
  /\ IF l = Base
     THEN RemoveConnection(c)
     ELSE pending' = Queue(Base, "remove", c) /\ UNCHANGED connections
  /\ failed' = Failing([open       |-> conn[c].state \in {"kConnected", "kDisconnecting"},
                        registered |-> Registered(c, conn[c]),
                        erased     |-> l = Base => c \in connections])

HandleHup(l, c) ==
  /\ HandlingEvent(l, c, "hup")
  /\ HandleClose(l, c)
  /\ UNCHANGED <<peer, user>>

\* handleRead() with data, with an error, or at the end of the stream.
HandleRead(l, c) ==
  /\ HandlingEvent(l, c, "in")
  /\ \/ /\ peer[c] = "open"
        /\ user' = [user EXCEPT ![l] = c]
        /\ UNCHANGED <<connections, conn, channels, peer, pending, failed>>
     \/ /\ peer[c] = "rst"
        /\ peer' = [peer EXCEPT ![c] = "dead"]
        /\ UNCHANGED <<connections, conn, channels, user, pending, failed>>
     \/ /\ peer[c] \in {"fin", "dead"}
        /\ HandleClose(l, c)
        /\ UNCHANGED <<peer, user>>

CallRemove(l, c) ==
  /\ Calling(l, "remove", c)
  /\ RemoveConnection(c)
  /\ failed' = Failing([erased |-> c \in connections])
  /\ UNCHANGED <<conn, channels, user, held>>

\* A plausible mistake: removeChannel() is not called.
CallDestroyed_LeavesChannel(l, c) ==
  /\ Calling(l, "destroy", c)
  /\ conn' = [conn EXCEPT ![c].state = "kDisconnected", ![c].events = {}]
  /\ user' = [user EXCEPT ![l] = c]
  /\ failed' = Failing([open |-> conn[c].state \in {"kConnected", "kDisconnecting"}])
  /\ UNCHANGED <<channels, connections, pending, held>>

\* TcpConnection::connectDestroyed(): disableAll(), removeChannel(), and the
\* connectionCallback_, which runs between them with the connection down.
CallDestroyed(l, c) ==
  /\ Calling(l, "destroy", c)
  /\ conn' = [conn EXCEPT ![c].state = "kDisconnected", ![c].events = {},
                          ![c].index = "kNew"]
  /\ channels' = [channels EXCEPT ![l][conn[c].fd] = None]
  /\ user' = [user EXCEPT ![l] = c]
  /\ failed' = Failing([open       |-> conn[c].state \in {"kConnected", "kDisconnecting"},
                        registered |-> Registered(c, conn[c])])
  /\ UNCHANGED <<connections, pending, held>>

-----------------------------------------------------------------------------
(* Sending and shutting down *)

CanWrite(c) == peer[c] \in {"open", "fin"} /\ ~ conn[c].shut

\* TcpConnection::sendInLoop(): all is written at once, or the rest is kept
\* and, for want of room or after an error, the channel asked to report room.
SendInLoop(c) ==
  \/ /\ ~ Writing(c)
     /\ ~ conn[c].output
     /\ CanWrite(c)
     /\ UNCHANGED <<conn, channels, failed>>
  \/ /\ Writing(c)
     /\ conn' = [conn EXCEPT ![c].output = TRUE]
     /\ UNCHANGED <<channels, failed>>
  \/ /\ ~ Writing(c)
     /\ UpdateChannel(c, [conn[c] EXCEPT !.output = TRUE],
                      conn[c].events \cup {"write"})
     /\ failed' = Failing([registered |-> Registered(c, conn[c])])

\* TcpConnection::shutdownInLoop() on r.
ShutdownInLoop(r) == [r EXCEPT !.shut = @ \/ "write" \notin r.events]

\* handleWrite(): the output is drained, or it is not, or nothing is expected.
HandleWrite(l, c) ==
  /\ HandlingEvent(l, c, "out")
  /\ \/ /\ Writing(c)
        /\ CanWrite(c)
        /\ UpdateChannel(c, [conn[c] EXCEPT !.output = FALSE,
                                            !.shut = @ \/ conn[c].state = "kDisconnecting"],
                         conn[c].events \ {"write"})
        /\ failed' = Failing([registered |-> Registered(c, conn[c])])
     \/ UNCHANGED <<conn, channels, failed>>
  /\ UNCHANGED <<connections, pending, peer, user>>

CallSend(l, c) ==
  /\ Calling(l, "send", c)
  /\ SendInLoop(c)
  /\ UNCHANGED <<connections, pending, user, held>>

CallShutdown(l, c) ==
  /\ Calling(l, "shutdown", c)
  /\ conn' = [conn EXCEPT ![c] = ShutdownInLoop(@)]
  /\ UNCHANGED <<connections, pending, channels, user, held, failed>>

-----------------------------------------------------------------------------
(* The user: callbacks, and threads of his own *)

\* User code in loop l's thread holds c, which l serves and no thread sends on.
InCallback(l, c) ==
  /\ user[l] # None
  /\ Sender[c] = None
  /\ \/ "own" \in Callers /\ c = user[l]
     \/ "cross" \in Callers /\ c \in held \ {user[l]}
  /\ conn[c].loop = l

UserSend(l, c) ==
  /\ InCallback(l, c)
  /\ conn[c].state = "kConnected"
  /\ SendInLoop(c)
  /\ UNCHANGED <<nextConnId, next, connections, peer, loopVars, pending, held, tpc>>

UserShutdown(l, c) ==
  /\ InCallback(l, c)
  /\ conn[c].state = "kConnected"
  /\ conn' = [conn EXCEPT ![c] = ShutdownInLoop([@ EXCEPT !.state = "kDisconnecting"])]
  /\ UNCHANGED <<nextConnId, next, connections, channels, peer, loopVars,
                 pending, held, tpc, failed>>

CallbackReturns(l) ==
  /\ user[l] # None
  /\ user' = [user EXCEPT ![l] = None]
  /\ UNCHANGED <<nextConnId, next, connections, conn, channels, peer, phase,
                 active, revents, pending, batch, held, tpc, failed>>

Release(c) ==
  /\ c \in held
  /\ ~ UserKeeps
  /\ held' = held \ {c}
  /\ UNCHANGED <<nextConnId, next, connections, conn, channels, peer, loopVars,
                 pending, tpc, failed>>

\* What thread t calls on c: send(), or shutdown() up to the assignment.
CallsOf(t, c) ==
  (IF Sender[c] = t THEN {"send"} ELSE {}) \cup (IF Sender[c] \in {t, None} THEN {"set"} ELSE {})

\* A plausible mistake: state_ is not tested.
ThreadTests_NoTest(t, c) ==
  /\ tpc[t] = <<"out">>
  /\ c \in held
  /\ Len(pending[conn[c].loop]) < MaxPending
  /\ \E call \in CallsOf(t, c) : tpc' = [tpc EXCEPT ![t] = <<call, c>>]
  /\ UNCHANGED <<nextConnId, next, connections, conn, channels, peer, loopVars,
                 pending, held, failed>>

\* send() and shutdown() of another thread: the test of state_, for shutdown()
\* its assignment, and queueInLoop() are separate steps.
ThreadTests(t, c) ==
  /\ tpc[t] = <<"out">>
  /\ c \in held
  /\ conn[c].state = "kConnected"
  /\ Len(pending[conn[c].loop]) < MaxPending
  /\ \E call \in CallsOf(t, c) : tpc' = [tpc EXCEPT ![t] = <<call, c>>]
  /\ UNCHANGED <<nextConnId, next, connections, conn, channels, peer, loopVars,
                 pending, held, failed>>

ThreadSetsState(t, c) ==
  /\ tpc[t] = <<"set", c>>
  /\ conn' = [conn EXCEPT ![c].state = "kDisconnecting"]
  /\ tpc' = [tpc EXCEPT ![t] = <<"shutdown", c>>]
  /\ UNCHANGED <<nextConnId, next, connections, channels, peer, loopVars,
                 pending, held, failed>>

ThreadQueues(t, op, c) ==
  /\ tpc[t] = <<op, c>>
  /\ op # "set"
  /\ pending' = Queue(conn[c].loop, op, c)
  /\ tpc' = [tpc EXCEPT ![t] = <<"out">>]
  /\ UNCHANGED <<nextConnId, next, connections, conn, channels, peer, loopVars,
                 held, failed>>

\* The other end: after what it has sent comes a FIN or a reset.
PeerEnds(c) ==
  /\ c \in Live
  /\ ClientsWait /\ Sender[c] # None => conn[c].shut
  /\ \/ peer[c] = "open" /\ peer' = [peer EXCEPT ![c] = "fin"]
     \/ peer[c] \in {"open", "fin"} /\ peer' = [peer EXCEPT ![c] = "rst"]
  /\ UNCHANGED <<nextConnId, next, connections, conn, channels, loopVars,
                 pending, held, tpc, failed>>

-----------------------------------------------------------------------------
HandleEvent(l) ==
  \E c \in Conns : HandleHup(l, c) \/ HandleRead(l, c) \/ HandleWrite(l, c)

CallFunctor(l) ==
  \E c \in Conns : \/ CallEstablished(l, c) \/ CallRemove(l, c) \/ CallDestroyed(l, c)
                   \/ CallSend(l, c) \/ CallShutdown(l, c)

LoopStep(l) ==
  HandleEvent(l) \/ (l = Base /\ Accept) \/ TakeFunctors(l) \/ CallFunctor(l)

UserStep ==
  \/ \E l \in Loops, c \in Conns : UserSend(l, c) \/ UserShutdown(l, c)
  \/ \E c \in Conns : Release(c)
  \/ \E t \in Threads, c \in Conns :
       \/ ThreadTests(t, c) \/ ThreadSetsState(t, c)
       \/ \E op \in {"send", "shutdown"} : ThreadQueues(t, op, c)

\* A failed assertion aborts the process.
Next ==
  /\ failed = {}
  /\ \/ \E l \in Loops :
          Poll(l) \/ PollTimesOut(l) \/ LoopStep(l) \/ CallbackReturns(l)
     \/ UserStep
     \/ \E c \in Conns : PeerEnds(c)

Spec == Init /\ [][Next]_vars

(***************************************************************************)
(* The loops' threads are scheduled and the callbacks return; epoll_wait   *)
(* returns if a channel has an event it is bound to report or functors are *)
(* pending (module EventLoop).  Clients, data, room to write and the       *)
(* user's calls are not relied on.                                         *)
(***************************************************************************)
MustReturn(l) ==
  pending[l] # <<>> \/ \E c \in Polled(l) : MustReport(c) # {}

Fairness ==
  \A l \in Loops :
    /\ WF_vars(failed = {} /\ MustReturn(l) /\ Poll(l))
    /\ WF_vars(failed = {} /\ LoopStep(l))
    /\ WF_vars(failed = {} /\ CallbackReturns(l))

FairSpec == Spec /\ Fairness

-----------------------------------------------------------------------------
Calls == {"establish", "remove", "destroy", "send", "shutdown"}

(***************************************************************************)
(* Types.                                                                  *)
(***************************************************************************)
TypeOK ==
  /\ nextConnId \in 1 .. MaxConns + 1
  /\ next \in 0 .. MaxConns
  /\ next = 0 \/ next < Len(Pool)
  /\ connections \subseteq Conns
  /\ conn \in [Conns -> [loop   : Loops,
                         fd     : Fds \cup {None},
                         state  : {"kConnecting", "kConnected", "kDisconnecting",
                                   "kDisconnected"},
                         events : SUBSET {"read", "write"},
                         index  : {"kNew", "kAdded", "kDeleted"},
                         output : BOOLEAN,
                         shut   : BOOLEAN]]
  /\ channels \in [Loops -> [Fds -> Conns \cup {None}]]
  /\ peer \in [Conns -> {"open", "fin", "rst", "dead"}]
  /\ phase \in [Loops -> {"events", "functors"}]
  /\ active \in [Loops -> Seq(Conns \cup {Listener})]
  /\ revents \in [Conns -> SUBSET {"hup", "in", "out"}]
  /\ user \in [Loops -> Conns \cup {None}]
  /\ pending \in [Loops -> Seq(Calls \X Conns)]
  /\ batch \in [Loops -> Seq(Calls \X Conns)]
  /\ held \subseteq Conns
  /\ tpc \in [Threads -> {<<"out">>} \cup ({"send", "set", "shutdown"} \X Conns)]
  /\ failed \subseteq {"connecting", "open", "registered", "erased"}

(***************************************************************************)
(* No assertion of TcpServer::removeConnectionInLoop(), of                 *)
(* TcpConnection::connectEstablished(), connectDestroyed() and handleClose *)
(* or of EPoller::updateChannel() and removeChannel() fails.               *)
(***************************************************************************)
NoAssertionFails == failed = {}

(***************************************************************************)
(* A connection is erased from connections_ once: the assert(n == 1) of    *)
(* TcpServer::removeConnectionInLoop().                                    *)
(***************************************************************************)
ErasedOnce == "erased" \notin failed

(***************************************************************************)
(* A descriptor is new to the EPoller when a new Channel registers it: the *)
(* asserts on channels_ in EPoller::updateChannel().                       *)
(***************************************************************************)
ChannelsMatch == "registered" \notin failed

(***************************************************************************)
(* No pointer dangles: what channels_ and activeChannels_ point to, and    *)
(* what the functors with a raw this point to, has not been destroyed.     *)
(***************************************************************************)
NothingDangles ==
  \A l \in Loops :
    /\ (Range(channels[l]) \cup Range(active[l])) \ {None} \subseteq Live
    /\ \A f \in Range(pending[l]) \cup Range(batch[l]) : f[2] \in Live

(***************************************************************************)
(* connections_ and the life of a connection agree: in the map from        *)
(* newConnection() until it is closed, and not destroyed before the        *)
(* connectionCallback_ has told the user that it is down.                  *)
(***************************************************************************)
MapAgrees ==
  \A c \in 1 .. nextConnId - 1 :
    /\ c \in connections => conn[c].state # "kDisconnected"
    /\ conn[c].state # "kDisconnected" => c \in Live

\* connectDestroyed() has been called.
Removed(c) == conn[c].fd # None /\ conn[c].index = "kNew" /\ c \notin connections

(***************************************************************************)
(* A connection that has been destroyed stays so: it comes back neither    *)
(* into connections_ nor into the EPoller, and none of its callbacks is    *)
(* called again, though a shutdown() of another thread may set its state_  *)
(* to kDisconnecting even then, as its FIXME has it.                       *)
(***************************************************************************)
DestroyedForGood ==
  [][\A c \in Conns : Removed(c) =>
       /\ Removed(c)'
       /\ \A l \in Loops : user'[l] = c => user[l] = c]_vars

(***************************************************************************)
(* When the other end has closed or reset a connection, the connection is  *)
(* taken out of connections_ and out of the EPoller, and the user told.    *)
(***************************************************************************)
ClosedIsDestroyed ==
  \A c \in Conns :
    peer[c] # "open" ~> /\ c \notin connections
                        /\ conn[c].state = "kDisconnected"
                        /\ conn[c].index = "kNew"
=============================================================================

-------------------------- MODULE TcpClient_proofs --------------------------
(***************************************************************************)
(* Proofs about TcpClient and its Connector, for any threads, number of    *)
(* calls and delays, if connect() is called at most once.                  *)
(***************************************************************************)
EXTENDS TcpClient, FiniteSetTheorems, SequenceTheorems, TLAPS

(***************************************************************************)
(* The functors of a queue: whether there is one of f, and only one.       *)
(***************************************************************************)
Has(q, f) == \E i \in DOMAIN q : q[i][1] = f
Once(q, f) == \A i, j \in DOMAIN q : q[i][1] = f /\ q[j][1] = f => i = j

\* Of these functions there is never more than one functor.
Singles == {"start", "reset", "destroy"}

IsQueue(q) ==
  /\ q \in Seq(ToSet(q))
  /\ \A i \in DOMAIN q : q[i][1] \in Singles => q[i] = <<q[i][1], None>>
  /\ \A f \in Singles : Once(q, f)

(***************************************************************************)
(* A functor is put at the end of a queue.                                 *)
(***************************************************************************)
LEMMA QueueAppend ==
  ASSUME NEW q, IsQueue(q), NEW g, NEW x, g \in Singles => x = None /\ ~ Has(q, g)
  PROVE  /\ IsQueue(Append(q, <<g, x>>))
         /\ \A f \in Singles : Has(Append(q, <<g, x>>), f) <=> Has(q, f) \/ f = g
<1>. DEFINE e == <<g, x>>
            r == Append(q, e)
<1>1. /\ q \in Seq(ToSet(q))
      /\ Len(q) \in Nat
      /\ DOMAIN q = 1 .. Len(q)
  BY DEF IsQueue
<1>2. /\ r \in Seq(ToSet(q) \cup {e})
      /\ DOMAIN r = 1 .. Len(q) + 1
      /\ r[Len(q) + 1] = e
      /\ \A i \in 1 .. Len(q) : r[i] = q[i]
  BY <1>1
<1>3. \A i \in DOMAIN r : i \in DOMAIN q \/ i = Len(q) + 1
  BY <1>1, <1>2
<1>4. \A i \in DOMAIN q : i \in DOMAIN r /\ r[i] = q[i]
  BY <1>1, <1>2
<1>5. Len(q) + 1 \in DOMAIN r /\ r[Len(q) + 1] = e
  BY <1>1, <1>2
<1>. HIDE DEF r
<1>6. r \in Seq(ToSet(r))
  <2>1. ToSet(q) \cup {e} \subseteq ToSet(r)
    BY <1>4, <1>5 DEF ToSet
  <2>. QED
    BY <1>2, <2>1
<1>7. \A i \in DOMAIN r : r[i][1] \in Singles => r[i] = <<r[i][1], None>>
  BY <1>3, <1>4, <1>5 DEF IsQueue
<1>8. \A f \in Singles : Has(r, f) <=> Has(q, f) \/ f = g
  BY <1>3, <1>4, <1>5 DEF Has
<1>9. ASSUME NEW f \in Singles PROVE Once(r, f)
  BY <1>3, <1>4, <1>5 DEF IsQueue, Once, Has
<1>. QED
  BY <1>6, <1>7, <1>8, <1>9 DEF IsQueue, r

(***************************************************************************)
(* A functor is taken from the head of a queue.                            *)
(***************************************************************************)
LEMMA QueueTail ==
  ASSUME NEW q, IsQueue(q), q # <<>>
  PROVE  /\ IsQueue(Tail(q))
         /\ \A f \in Singles : /\ Has(q, f) <=> Head(q)[1] = f \/ Has(Tail(q), f)
                               /\ Head(q)[1] = f => ~ Has(Tail(q), f)
<1>. DEFINE r == Tail(q)
<1>1. /\ q \in Seq(ToSet(q))
      /\ Len(q) \in Nat
      /\ Len(q) >= 1
      /\ DOMAIN q = 1 .. Len(q)
      /\ Head(q) = q[1]
  BY DEF IsQueue
<1>2. /\ r \in Seq(ToSet(q))
      /\ Len(r) = Len(q) - 1
      /\ DOMAIN r = 1 .. Len(q) - 1
      /\ \A i \in 1 .. Len(q) - 1 : r[i] = q[i + 1]
  BY <1>1, HeadTailProperties
<1>3. \A i \in DOMAIN r : i + 1 \in DOMAIN q /\ i + 1 # 1 /\ r[i] = q[i + 1]
  BY <1>1, <1>2
<1>4. \A i \in DOMAIN q : i = 1 \/ \E j \in DOMAIN r : i = j + 1
  <2>1. ASSUME NEW i \in DOMAIN q, i # 1 PROVE i - 1 \in DOMAIN r /\ i = (i - 1) + 1
    BY <1>1, <1>2, <2>1
  <2>. QED
    BY <2>1
<1>5. \A i, j \in DOMAIN r : i + 1 = j + 1 => i = j
  BY <1>1, <1>2
<1>6. 1 \in DOMAIN q
  BY <1>1
<1>. HIDE DEF r
<1>7. r \in Seq(ToSet(r))
  BY <1>2, SeqDef, SMTT(30) DEF ToSet
<1>8. \A i \in DOMAIN r : r[i][1] \in Singles => r[i] = <<r[i][1], None>>
  BY <1>3 DEF IsQueue
<1>9. ASSUME NEW f \in Singles PROVE Once(r, f)
  BY <1>3, <1>5 DEF IsQueue, Once
<1>10. ASSUME NEW f \in Singles
       PROVE  /\ Has(q, f) <=> q[1][1] = f \/ Has(r, f)
              /\ q[1][1] = f => ~ Has(r, f)
  BY <1>3, <1>4, <1>6 DEF IsQueue, Once, Has
<1>. QED
  BY <1>1, <1>7, <1>8, <1>9, <1>10 DEF IsQueue, r

LEMMA QueueEmpty ==
  IsQueue(<<>>) /\ \A f \in Singles : ~ Has(<<>>, f)
BY DEF IsQueue, Has, Once

(***************************************************************************)
(* What Dangling looks for: a functor of the Connector in a queue.         *)
(***************************************************************************)
LEMMA QueueHolds ==
  ASSUME NEW q, IsQueue(q), NEW f \in Singles
  PROVE  Has(q, f) <=> <<f, None>> \in ToSet(q)
BY DEF IsQueue, Has, ToSet

-----------------------------------------------------------------------------
(* The inductive invariant *)

Types ==
  /\ wanted \in BOOLEAN /\ retrying \in BOOLEAN /\ connection \in BOOLEAN
  /\ release \in BOOLEAN /\ user \in BOOLEAN /\ stopped \in BOOLEAN
  /\ state \in {"kDisconnected", "kConnecting", "kConnected"}
  /\ channel \in {None, "registered", "removed"}
  /\ todo \in {None, "start", "connect", "newConnection", "restart"}
  /\ conn \in {"none", "up", "closed"}
  /\ closeCb \in {"client", "detached"}
  /\ client \in {"alive", "destroyed"}
  /\ connector \in {"alive", "destroyed"}
  /\ phase \in {"events", "functors"}
  /\ tpc \in [Threads -> {<<"out", 0>>, <<"disconnect", 1>>} \cup ({"connect", "stop"} \X (1 .. 3))]
  /\ connects \in Nat

\* The two halves of an iteration.  What a functor of the Connector or of the
\* connection is queued for is done before the next poll().
Phases ==
  /\ phase = "events" => batch = <<>>
  /\ phase = "functors" => /\ active = <<>>
                           /\ ~ Has(pending, "reset")
                           /\ ~ Has(pending, "destroy")

Queues ==
  /\ IsQueue(pending) /\ IsQueue(batch)
  /\ ~ (Has(pending, "start") /\ Has(batch, "start"))
  /\ channel = "removed" <=> (Has(pending, "reset") \/ Has(batch, "reset"))
  /\ conn = "closed" <=> (Has(pending, "destroy") \/ Has(batch, "destroy"))

Connecting(t) == tpc[t][1] = "connect"

StartQueued == Has(pending, "start") \/ Has(batch, "start")

\* Until startInLoop() is called for the first time nothing has happened.
Starts ==
  /\ connects <= MaxConnects
  /\ connects = 0 => ~ StartQueued /\ \A t \in Threads : ~ Connecting(t)
  /\ \A t \in Threads : Connecting(t) =>
       /\ ~ StartQueued
       /\ \A u \in Threads : u # t => tpc[u] = <<"out", 0>>
  /\ (connects = 0 \/ StartQueued \/ \E t \in Threads : Connecting(t)) =>
       /\ state = "kDisconnected" /\ channel = None /\ retryTimer = None
       /\ todo = None /\ conn = "none"

\* One thing at a time: to begin an attempt, to wait for it, for the timer or
\* for the end of the connection.
Attempts ==
  /\ state = "kConnecting" <=> channel = "registered"
  /\ todo \in {"start", "connect"} => /\ state = "kDisconnected" /\ channel = None
                                      /\ retryTimer = None /\ conn # "up"
  /\ todo = "newConnection" => state = "kConnected" /\ retryTimer = None /\ conn = "none"
  /\ todo = "restart" => /\ state = "kConnected" /\ channel = None
                         /\ retryTimer = None /\ conn # "up"
  /\ retryTimer # None => state = "kDisconnected" /\ conn # "up"
  /\ conn = "up" => state = "kConnected" /\ todo = None

\* poll() reports one event at most, which still holds when it is handled.
Events ==
  /\ active \in {<<>>} \cup {<<e>> : e \in {"write", "error", "retry", "close"}}
  /\ active # <<>> => todo = None /\ ~ user /\ channel # "removed" /\ conn # "closed"
  /\ active \in {<<"write">>, <<"error">>} => channel = "registered"
  /\ active = <<"retry">> => retryTimer # None
  /\ active = <<"close">> => conn = "up"

\* What is left of the Connector when the client is destroyed.
Lives ==
  /\ client = "alive" => closeCb = "client" /\ connector = "alive" /\ ~ release
  /\ client = "alive" => (connection <=> conn = "up")
  /\ client = "destroyed" => /\ \A t \in Threads : tpc[t] = <<"out", 0>>
                             /\ todo = None /\ retryTimer = None
                             /\ conn = "up" => closeCb = "detached"
                             /\ connector = "alive" => ~ wanted /\ conn # "up"
                             /\ settled => channel = None /\ ~ StartQueued
  /\ connector = "destroyed" => ~ release

Stops ==
  /\ stopped => /\ ~ wanted /\ todo = None
                /\ retrying => \E t \in Threads : tpc[t] = <<"connect", 2>>
  /\ \A t \in Threads : tpc[t] = <<"stop", 2>> => ~ retrying

Inv ==
  /\ failed = {}
  /\ Types /\ Phases /\ Queues /\ Starts /\ Attempts /\ Events /\ Lives /\ Stops

-----------------------------------------------------------------------------
(* Lemmas about the member functions *)

(***************************************************************************)
(* An assertion that holds does not fail.                                  *)
(***************************************************************************)
LEMMA NoneFailing ==
  ASSUME NEW b \in BOOLEAN, NEW c \in BOOLEAN
  PROVE  /\ b => Failing([disconnected |-> b]) = {}
         /\ b => Failing([noChannel |-> b]) = {}
         /\ b => Failing([oneTimer |-> b]) = {}
         /\ b => Failing([connecting |-> b]) = {}
         /\ b => Failing([current |-> b]) = {}
         /\ b /\ c => Failing([connecting |-> b, oneTimer |-> c]) = {}
BY DEF Failing

(***************************************************************************)
(* retry() leaves state_ at kDisconnected, and a timer only if connect_    *)
(* was set.                                                                *)
(***************************************************************************)
LEMMA RetryEffect ==
  ASSUME Retry
  PROVE  state' = "kDisconnected" /\ (wanted \/ retryTimer' = retryTimer)
BY DEF Retry

(***************************************************************************)
(* The event that is handled was the only one.                             *)
(***************************************************************************)
LEMMA HandlingIsLast ==
  ASSUME Inv, NEW e, Handling(e)
  PROVE  active = <<e>> /\ active' = <<>> /\ phase = "events" /\ todo = None /\ ~ user
<1>1. active # <<>> /\ Head(active) = e /\ active' = Tail(active)
  BY DEF Handling
<1>2. PICK d : active = <<d>>
  BY <1>1 DEF Inv, Events
<1>. QED
  BY <1>1, <1>2 DEF Handling, Free

(***************************************************************************)
(* While nothing dangles, a Connector that is at work after the end of its *)
(* client has been stopped.                                                *)
(***************************************************************************)
LEMMA StoppedFirst ==
  ASSUME Inv, ~ Dangling, channel # None \/ StartQueued
  PROVE  client = "alive" \/ ~ wanted
<1>1. CASE connector = "destroyed"
  <2>1. <<"start", None>> \notin Functors /\ channel = None
    BY <1>1 DEF Dangling, ConnectorFunctors
  <2>2. ~ Has(pending, "start") /\ ~ Has(batch, "start")
    BY <2>1, QueueHolds DEF Inv, Queues, Singles, Functors
  <2>. QED
    BY <2>1, <2>2 DEF StartQueued
<1>2. CASE connector = "alive"
  BY <1>2 DEF Inv, Lives, Types
<1>. QED
  BY <1>1, <1>2 DEF Inv, Types

-----------------------------------------------------------------------------
(* Every step preserves the invariant *)

(***************************************************************************)
(* connectionCallback_ returns.                                            *)
(***************************************************************************)
LEMMA CallbackReturnsKeeps ==
  ASSUME Inv, CallbackReturns
  PROVE  Inv'
<1>1. IsQueue(pending) /\ IsQueue(batch)
  BY DEF Inv, Queues
<1>2. (failed = {})'
  BY <1>1, ConnectorConstants DEF Inv, Types, Phases, Queues, Starts, Attempts, Events, Lives, Stops, StartQueued, Connecting, Singles, CallbackReturns, connectorVars, clientVars, userVars
<1>3. Types'
  BY <1>1, ConnectorConstants, ZenonT(40) DEF Inv, Types, Phases, Queues, Starts, Attempts, Events, Lives, Stops, StartQueued, Connecting, Singles, CallbackReturns, connectorVars, clientVars, userVars
<1>4. Phases'
  BY <1>1, ConnectorConstants DEF Inv, Types, Phases, Queues, Starts, Attempts, Events, Lives, Stops, StartQueued, Connecting, Singles, CallbackReturns, connectorVars, clientVars, userVars
<1>5. Queues'
  BY <1>1, ConnectorConstants DEF Inv, Types, Phases, Queues, Starts, Attempts, Events, Lives, Stops, StartQueued, Connecting, Singles, CallbackReturns, connectorVars, clientVars, userVars
<1>6. Starts'
  BY <1>1, ConnectorConstants DEF Inv, Types, Phases, Queues, Starts, Attempts, Events, Lives, Stops, StartQueued, Connecting, Singles, CallbackReturns, connectorVars, clientVars, userVars
<1>7. Attempts'
  BY <1>1, ConnectorConstants DEF Inv, Types, Phases, Queues, Starts, Attempts, Events, Lives, Stops, StartQueued, Connecting, Singles, CallbackReturns, connectorVars, clientVars, userVars
<1>8. Events'
  BY <1>1, ConnectorConstants DEF Inv, Types, Phases, Queues, Starts, Attempts, Events, Lives, Stops, StartQueued, Connecting, Singles, CallbackReturns, connectorVars, clientVars, userVars
<1>9. Lives'
  BY <1>1, ConnectorConstants DEF Inv, Types, Phases, Queues, Starts, Attempts, Events, Lives, Stops, StartQueued, Connecting, Singles, CallbackReturns, connectorVars, clientVars, userVars
<1>10. Stops'
  BY <1>1, ConnectorConstants DEF Inv, Types, Phases, Queues, Starts, Attempts, Events, Lives, Stops, StartQueued, Connecting, Singles, CallbackReturns, connectorVars, clientVars, userVars
<1>. QED
  BY <1>2, <1>3, <1>4, <1>5, <1>6, <1>7, <1>8, <1>9, <1>10 DEF Inv

(***************************************************************************)
(* The retry timer expires.                                                *)
(***************************************************************************)
LEMMA RetryExpiresKeeps ==
  ASSUME Inv, RetryExpires
  PROVE  Inv'
<1>1. active = <<"retry">> /\ active' = <<>>
  BY HandlingIsLast DEF RetryExpires
<1>2. retryTimer # None /\ state = "kDisconnected" /\ channel = None /\ conn # "up" /\ todo = None
  BY <1>1, ConnectorConstants DEF Inv, Types, Attempts, Events
<1>3. failed' = {}
  BY <1>2, NoneFailing DEF RetryExpires, StartInLoop
<1>4. IsQueue(pending) /\ IsQueue(batch)
  BY DEF Inv, Queues
<1>5. client = "alive"
  BY <1>2 DEF Inv, Lives, Types
<1>6. (failed = {})'
  BY <1>1, <1>2, <1>3, <1>4, <1>5, ConnectorConstants DEF Inv, Types, Phases, Queues, Starts, Attempts, Events, Lives, Stops, StartQueued, Connecting, Singles, RetryExpires, Handling, StartInLoop, connectorVars, clientVars, loopVars, userVars
<1>7. Types'
  BY <1>1, <1>2, <1>3, <1>4, <1>5, ConnectorConstants DEF Inv, Types, Phases, Queues, Starts, Attempts, Events, Lives, Stops, StartQueued, Connecting, Singles, RetryExpires, Handling, StartInLoop, connectorVars, clientVars, loopVars, userVars
<1>8. Phases'
  BY <1>1, <1>2, <1>3, <1>4, <1>5, ConnectorConstants DEF Inv, Types, Phases, Queues, Starts, Attempts, Events, Lives, Stops, StartQueued, Connecting, Singles, RetryExpires, Handling, StartInLoop, connectorVars, clientVars, loopVars, userVars
<1>9. Queues'
  BY <1>1, <1>2, <1>3, <1>4, <1>5, ConnectorConstants DEF Inv, Types, Phases, Queues, Starts, Attempts, Events, Lives, Stops, StartQueued, Connecting, Singles, RetryExpires, Handling, StartInLoop, connectorVars, clientVars, loopVars, userVars
<1>10. Starts'
  BY <1>1, <1>2, <1>3, <1>4, <1>5, ConnectorConstants DEF Inv, Types, Phases, Queues, Starts, Attempts, Events, Lives, Stops, StartQueued, Connecting, Singles, RetryExpires, Handling, StartInLoop, connectorVars, clientVars, loopVars, userVars
<1>11. Attempts'
  BY <1>1, <1>2, <1>3, <1>4, <1>5, ConnectorConstants DEF Inv, Types, Phases, Queues, Starts, Attempts, Events, Lives, Stops, StartQueued, Connecting, Singles, RetryExpires, Handling, StartInLoop, connectorVars, clientVars, loopVars, userVars
<1>12. Events'
  BY <1>1, <1>2, <1>3, <1>4, <1>5, ConnectorConstants DEF Inv, Types, Phases, Queues, Starts, Attempts, Events, Lives, Stops, StartQueued, Connecting, Singles, RetryExpires, Handling, StartInLoop, connectorVars, clientVars, loopVars, userVars
<1>13. Lives'
  BY <1>1, <1>2, <1>3, <1>4, <1>5, ConnectorConstants DEF Inv, Types, Phases, Queues, Starts, Attempts, Events, Lives, Stops, StartQueued, Connecting, Singles, RetryExpires, Handling, StartInLoop, connectorVars, clientVars, loopVars, userVars
<1>14. Stops'
  BY <1>1, <1>2, <1>3, <1>4, <1>5, ConnectorConstants DEF Inv, Types, Phases, Queues, Starts, Attempts, Events, Lives, Stops, StartQueued, Connecting, Singles, RetryExpires, Handling, StartInLoop, connectorVars, clientVars, loopVars, userVars
<1>. QED
  BY <1>6, <1>7, <1>8, <1>9, <1>10, <1>11, <1>12, <1>13, <1>14 DEF Inv

(***************************************************************************)
(* startInLoop() is called as a functor.                                   *)
(***************************************************************************)
LEMMA CallStartKeeps ==
  ASSUME Inv, ~ Dangling, CallStart
  PROVE  Inv'
<1>0. client = "alive" \/ ~ wanted
  BY StoppedFirst, QueueTail DEF CallStart, Calling, StartQueued, Singles, Inv, Queues
<1>1. /\ IsQueue(batch) /\ batch # <<>> /\ batch' = Tail(batch)
      /\ IsQueue(pending)
  BY DEF CallStart, Calling, Inv, Queues
<1>2. /\ IsQueue(batch')
      /\ \A f \in Singles : /\ Has(batch, f) <=> Head(batch)[1] = f \/ Has(batch', f)
                            /\ Head(batch)[1] = f => ~ Has(batch', f)
  BY <1>1, QueueTail
<1>3. failed' = {}
  BY <1>1, <1>2, NoneFailing DEF CallStart, Calling, StartInLoop, Inv, Starts, StartQueued, Singles
<1>4. (failed = {})'
  BY <1>1, <1>2, <1>3, ConnectorConstants DEF Inv, Types, Phases, Queues, Starts, Attempts, Events, Lives, Stops, StartQueued, Connecting, Singles, CallStart, Calling, Free, StartInLoop, connectorVars, clientVars, loopVars, userVars
<1>5. Types'
  BY <1>1, <1>2, <1>3, ConnectorConstants DEF Inv, Types, Phases, Queues, Starts, Attempts, Events, Lives, Stops, StartQueued, Connecting, Singles, CallStart, Calling, Free, StartInLoop, connectorVars, clientVars, loopVars, userVars
<1>6. Phases'
  BY <1>1, <1>2, <1>3, ConnectorConstants DEF Inv, Types, Phases, Queues, Starts, Attempts, Events, Lives, Stops, StartQueued, Connecting, Singles, CallStart, Calling, Free, StartInLoop, connectorVars, clientVars, loopVars, userVars
<1>7. Queues'
  BY <1>1, <1>2, <1>3, ConnectorConstants DEF Inv, Types, Phases, Queues, Starts, Attempts, Events, Lives, Stops, StartQueued, Connecting, Singles, CallStart, Calling, Free, StartInLoop, connectorVars, clientVars, loopVars, userVars
<1>8. Starts'
  BY <1>1, <1>2, <1>3, ConnectorConstants DEF Inv, Types, Phases, Queues, Starts, Attempts, Events, Lives, Stops, StartQueued, Connecting, Singles, CallStart, Calling, Free, StartInLoop, connectorVars, clientVars, loopVars, userVars
<1>9. Attempts'
  BY <1>1, <1>2, <1>3, ConnectorConstants DEF Inv, Types, Phases, Queues, Starts, Attempts, Events, Lives, Stops, StartQueued, Connecting, Singles, CallStart, Calling, Free, StartInLoop, connectorVars, clientVars, loopVars, userVars
<1>10. Events'
  BY <1>1, <1>2, <1>3, ConnectorConstants DEF Inv, Types, Phases, Queues, Starts, Attempts, Events, Lives, Stops, StartQueued, Connecting, Singles, CallStart, Calling, Free, StartInLoop, connectorVars, clientVars, loopVars, userVars
<1>11. Lives'
  BY <1>0, <1>1, <1>2, <1>3, ConnectorConstants DEF Inv, Types, Phases, Queues, Starts, Attempts, Events, Lives, Stops, StartQueued, Connecting, Singles, CallStart, Calling, Free, StartInLoop, connectorVars, clientVars, loopVars, userVars
<1>12. Stops'
  BY <1>0, <1>1, <1>2, <1>3, ConnectorConstants DEF Inv, Types, Phases, Queues, Starts, Attempts, Events, Lives, Stops, StartQueued, Connecting, Singles, CallStart, Calling, Free, StartInLoop, connectorVars, clientVars, loopVars, userVars
<1>. QED
  BY <1>4, <1>5, <1>6, <1>7, <1>8, <1>9, <1>10, <1>11, <1>12 DEF Inv

(***************************************************************************)
(* startInLoop() is called by start() or restart().                        *)
(***************************************************************************)
LEMMA CallerStartsKeeps ==
  ASSUME Inv, CallerStarts
  PROVE  Inv'
<1>1. failed' = {}
  BY NoneFailing DEF CallerStarts, StartInLoop, Inv, Attempts
<1>2. IsQueue(pending) /\ IsQueue(batch)
  BY DEF Inv, Queues
<1>3. (failed = {})'
  BY <1>1, <1>2, ConnectorConstants DEF Inv, Types, Phases, Queues, Starts, Attempts, Events, Lives, Stops, StartQueued, Connecting, Singles, CallerStarts, StartInLoop, connectorVars, clientVars, loopVars, userVars
<1>4. Types'
  BY <1>1, <1>2, ConnectorConstants DEF Inv, Types, Phases, Queues, Starts, Attempts, Events, Lives, Stops, StartQueued, Connecting, Singles, CallerStarts, StartInLoop, connectorVars, clientVars, loopVars, userVars
<1>5. Phases'
  BY <1>1, <1>2, ConnectorConstants DEF Inv, Types, Phases, Queues, Starts, Attempts, Events, Lives, Stops, StartQueued, Connecting, Singles, CallerStarts, StartInLoop, connectorVars, clientVars, loopVars, userVars
<1>6. Queues'
  BY <1>1, <1>2, ConnectorConstants DEF Inv, Types, Phases, Queues, Starts, Attempts, Events, Lives, Stops, StartQueued, Connecting, Singles, CallerStarts, StartInLoop, connectorVars, clientVars, loopVars, userVars
<1>7. Starts'
  BY <1>1, <1>2, ConnectorConstants DEF Inv, Types, Phases, Queues, Starts, Attempts, Events, Lives, Stops, StartQueued, Connecting, Singles, CallerStarts, StartInLoop, connectorVars, clientVars, loopVars, userVars
<1>8. Attempts'
  BY <1>1, <1>2, ConnectorConstants DEF Inv, Types, Phases, Queues, Starts, Attempts, Events, Lives, Stops, StartQueued, Connecting, Singles, CallerStarts, StartInLoop, connectorVars, clientVars, loopVars, userVars
<1>9. Events'
  BY <1>1, <1>2, ConnectorConstants DEF Inv, Types, Phases, Queues, Starts, Attempts, Events, Lives, Stops, StartQueued, Connecting, Singles, CallerStarts, StartInLoop, connectorVars, clientVars, loopVars, userVars
<1>10. Lives'
  BY <1>1, <1>2, ConnectorConstants DEF Inv, Types, Phases, Queues, Starts, Attempts, Events, Lives, Stops, StartQueued, Connecting, Singles, CallerStarts, StartInLoop, connectorVars, clientVars, loopVars, userVars
<1>11. Stops'
  BY <1>1, <1>2, ConnectorConstants DEF Inv, Types, Phases, Queues, Starts, Attempts, Events, Lives, Stops, StartQueued, Connecting, Singles, CallerStarts, StartInLoop, connectorVars, clientVars, loopVars, userVars
<1>. QED
  BY <1>3, <1>4, <1>5, <1>6, <1>7, <1>8, <1>9, <1>10, <1>11 DEF Inv

(***************************************************************************)
(* An attempt is begun, put off, or given up.                              *)
(***************************************************************************)
LEMMA ConnectorConnectsKeeps ==
  ASSUME Inv, ConnectorConnects
  PROVE  Inv'
<1>1. todo = "connect" /\ state = "kDisconnected" /\ channel = None /\ retryTimer = None
  BY DEF ConnectorConnects, Connect, Inv, Attempts
<1>2. failed' = {}
  BY <1>1, NoneFailing DEF ConnectorConnects, Connect, Inv
<1>3. \/ state' = "kConnecting" /\ channel' = "registered" /\ retryTimer' = retryTimer
      \/ state' = "kDisconnected" /\ channel' = channel
      \/ state' = state /\ channel' = channel /\ retryTimer' = retryTimer
  BY RetryEffect DEF ConnectorConnects, Connect
<1>4. /\ todo' = None
      /\ UNCHANGED <<wanted, pending, clientVars, loopVars, userVars>>
  BY DEF ConnectorConnects, Connect
<1>5. IsQueue(pending) /\ IsQueue(batch)
  BY DEF Inv, Queues
<1>6. (failed = {})'
  BY <1>1, <1>2, <1>3, <1>4, <1>5, ConnectorConstants DEF Inv, Types, Phases, Queues, Starts, Attempts, Events, Lives, Stops, StartQueued, Connecting, Singles, clientVars, loopVars, userVars
<1>7. Types'
  BY <1>1, <1>2, <1>3, <1>4, <1>5, ConnectorConstants DEF Inv, Types, Phases, Queues, Starts, Attempts, Events, Lives, Stops, StartQueued, Connecting, Singles, clientVars, loopVars, userVars
<1>8. Phases'
  BY <1>1, <1>2, <1>3, <1>4, <1>5, ConnectorConstants DEF Inv, Types, Phases, Queues, Starts, Attempts, Events, Lives, Stops, StartQueued, Connecting, Singles, clientVars, loopVars, userVars
<1>9. Queues'
  BY <1>1, <1>2, <1>3, <1>4, <1>5, ConnectorConstants DEF Inv, Types, Phases, Queues, Starts, Attempts, Events, Lives, Stops, StartQueued, Connecting, Singles, clientVars, loopVars, userVars
<1>10. Starts'
  BY <1>1, <1>2, <1>3, <1>4, <1>5, ConnectorConstants DEF Inv, Types, Phases, Queues, Starts, Attempts, Events, Lives, Stops, StartQueued, Connecting, Singles, clientVars, loopVars, userVars
<1>11. Attempts'
  BY <1>1, <1>2, <1>3, <1>4, <1>5, ConnectorConstants DEF Inv, Types, Phases, Queues, Starts, Attempts, Events, Lives, Stops, StartQueued, Connecting, Singles, clientVars, loopVars, userVars
<1>12. Events'
  BY <1>1, <1>2, <1>3, <1>4, <1>5, ConnectorConstants DEF Inv, Types, Phases, Queues, Starts, Attempts, Events, Lives, Stops, StartQueued, Connecting, Singles, clientVars, loopVars, userVars
<1>13. Lives'
  BY <1>1, <1>2, <1>3, <1>4, <1>5, ConnectorConstants DEF Inv, Types, Phases, Queues, Starts, Attempts, Events, Lives, Stops, StartQueued, Connecting, Singles, clientVars, loopVars, userVars
<1>14. Stops'
  BY <1>1, <1>2, <1>3, <1>4, <1>5, ConnectorConstants DEF Inv, Types, Phases, Queues, Starts, Attempts, Events, Lives, Stops, StartQueued, Connecting, Singles, clientVars, loopVars, userVars
<1>. QED
  BY <1>6, <1>7, <1>8, <1>9, <1>10, <1>11, <1>12, <1>13, <1>14 DEF Inv

(***************************************************************************)
(* The attempt ends, with a connection or without.                         *)
(***************************************************************************)
LEMMA ConnectorWritesKeeps ==
  ASSUME Inv, ~ Dangling, ConnectorWrites
  PROVE  Inv'
<1>0. client = "alive" \/ ~ wanted
  BY StoppedFirst, HandlingIsLast, ConnectorConstants DEF ConnectorWrites, Inv, Events
<1>1. /\ active = <<"write">> /\ active' = <<>>
      /\ channel = "registered" /\ state = "kConnecting" /\ retryTimer = None
  BY HandlingIsLast, ConnectorConstants DEF ConnectorWrites, Inv, Events, Attempts
<1>2. /\ IsQueue(pending) /\ IsQueue(batch)
      /\ pending' = Append(pending, <<"reset", None>>)
      /\ ~ Has(pending, "reset") /\ ~ Has(batch, "reset")
  BY <1>1, ConnectorConstants DEF ConnectorWrites, HandleWrite, RemoveAndResetChannel, Inv, Queues, Types
<1>3. /\ IsQueue(pending')
      /\ \A f \in Singles : Has(pending', f) <=> Has(pending, f) \/ f = "reset"
  BY <1>1, <1>2, QueueAppend
<1>4. failed' = {}
  BY <1>1, NoneFailing DEF ConnectorWrites, HandleWrite
<1>5. /\ channel' = "removed"
      /\ \/ /\ state' = "kConnected" /\ retryTimer' = retryTimer
            /\ todo' = IF wanted THEN "newConnection" ELSE None
         \/ state' = "kDisconnected" /\ (wanted \/ retryTimer' = retryTimer) /\ todo' = todo
      /\ phase = "events" /\ todo = None /\ ~ user
      /\ UNCHANGED <<wanted, clientVars, user, phase, batch, userVars>>
  BY RetryEffect DEF ConnectorWrites, HandleWrite, RemoveAndResetChannel, Handling, Free
<1>6. (failed = {})'
  BY <1>1, <1>2, <1>3, <1>4, <1>5, ConnectorConstants DEF Inv, Types, Phases, Queues, Starts, Attempts, Events, Lives, Stops, StartQueued, Connecting, Singles, clientVars, userVars
<1>7. Types'
  BY <1>1, <1>2, <1>3, <1>4, <1>5, ConnectorConstants DEF Inv, Types, Phases, Queues, Starts, Attempts, Events, Lives, Stops, StartQueued, Connecting, Singles, clientVars, userVars
<1>8. Phases'
  BY <1>1, <1>2, <1>3, <1>4, <1>5, ConnectorConstants DEF Inv, Types, Phases, Queues, Starts, Attempts, Events, Lives, Stops, StartQueued, Connecting, Singles, clientVars, userVars
<1>9. Queues'
  BY <1>1, <1>2, <1>3, <1>4, <1>5, ConnectorConstants DEF Inv, Types, Phases, Queues, Starts, Attempts, Events, Lives, Stops, StartQueued, Connecting, Singles, clientVars, userVars
<1>10. Starts'
  BY <1>1, <1>2, <1>3, <1>4, <1>5, ConnectorConstants DEF Inv, Types, Phases, Queues, Starts, Attempts, Events, Lives, Stops, StartQueued, Connecting, Singles, clientVars, userVars
<1>11. Attempts'
  BY <1>1, <1>2, <1>3, <1>4, <1>5, ConnectorConstants DEF Inv, Types, Phases, Queues, Starts, Attempts, Events, Lives, Stops, StartQueued, Connecting, Singles, clientVars, userVars
<1>12. Events'
  BY <1>1, <1>2, <1>3, <1>4, <1>5, ConnectorConstants DEF Inv, Types, Phases, Queues, Starts, Attempts, Events, Lives, Stops, StartQueued, Connecting, Singles, clientVars, userVars
<1>13. Lives'
  BY <1>0, <1>1, <1>2, <1>3, <1>4, <1>5, ConnectorConstants DEF Inv, Types, Phases, Queues, Starts, Attempts, Events, Lives, Stops, StartQueued, Connecting, Singles, clientVars, userVars
<1>14. Stops'
  BY <1>0, <1>1, <1>2, <1>3, <1>4, <1>5, ConnectorConstants DEF Inv, Types, Phases, Queues, Starts, Attempts, Events, Lives, Stops, StartQueued, Connecting, Singles, clientVars, userVars
<1>. QED
  BY <1>6, <1>7, <1>8, <1>9, <1>10, <1>11, <1>12, <1>13, <1>14 DEF Inv

(***************************************************************************)
(* The attempt ends with an error.                                         *)
(***************************************************************************)
LEMMA ConnectorFailsKeeps ==
  ASSUME Inv, ~ Dangling, ConnectorFails
  PROVE  Inv'
<1>0. client = "alive" \/ ~ wanted
  BY StoppedFirst, HandlingIsLast, ConnectorConstants DEF ConnectorFails, Inv, Events
<1>1. /\ active = <<"error">> /\ active' = <<>>
      /\ channel = "registered" /\ state = "kConnecting" /\ retryTimer = None
  BY HandlingIsLast, ConnectorConstants DEF ConnectorFails, Inv, Events, Attempts
<1>2. /\ IsQueue(pending) /\ IsQueue(batch)
      /\ pending' = Append(pending, <<"reset", None>>)
      /\ ~ Has(pending, "reset") /\ ~ Has(batch, "reset")
  BY <1>1, ConnectorConstants DEF ConnectorFails, HandleError, RemoveAndResetChannel, Inv, Queues, Types
<1>3. /\ IsQueue(pending')
      /\ \A f \in Singles : Has(pending', f) <=> Has(pending, f) \/ f = "reset"
  BY <1>1, <1>2, QueueAppend
<1>4. failed' = {}
  BY <1>1, NoneFailing DEF ConnectorFails, HandleError
<1>5. /\ channel' = "removed"
      /\ state' = "kDisconnected" /\ (wanted \/ retryTimer' = retryTimer) /\ todo' = todo
      /\ phase = "events" /\ todo = None /\ ~ user
      /\ UNCHANGED <<wanted, clientVars, user, phase, batch, userVars>>
  BY RetryEffect DEF ConnectorFails, HandleError, RemoveAndResetChannel, Handling, Free
<1>6. (failed = {})'
  BY <1>1, <1>2, <1>3, <1>4, <1>5, ConnectorConstants DEF Inv, Types, Phases, Queues, Starts, Attempts, Events, Lives, Stops, StartQueued, Connecting, Singles, clientVars, userVars
<1>7. Types'
  BY <1>1, <1>2, <1>3, <1>4, <1>5, ConnectorConstants DEF Inv, Types, Phases, Queues, Starts, Attempts, Events, Lives, Stops, StartQueued, Connecting, Singles, clientVars, userVars
<1>8. Phases'
  BY <1>1, <1>2, <1>3, <1>4, <1>5, ConnectorConstants DEF Inv, Types, Phases, Queues, Starts, Attempts, Events, Lives, Stops, StartQueued, Connecting, Singles, clientVars, userVars
<1>9. Queues'
  BY <1>1, <1>2, <1>3, <1>4, <1>5, ConnectorConstants DEF Inv, Types, Phases, Queues, Starts, Attempts, Events, Lives, Stops, StartQueued, Connecting, Singles, clientVars, userVars
<1>10. Starts'
  BY <1>1, <1>2, <1>3, <1>4, <1>5, ConnectorConstants DEF Inv, Types, Phases, Queues, Starts, Attempts, Events, Lives, Stops, StartQueued, Connecting, Singles, clientVars, userVars
<1>11. Attempts'
  BY <1>1, <1>2, <1>3, <1>4, <1>5, ConnectorConstants DEF Inv, Types, Phases, Queues, Starts, Attempts, Events, Lives, Stops, StartQueued, Connecting, Singles, clientVars, userVars
<1>12. Events'
  BY <1>1, <1>2, <1>3, <1>4, <1>5, ConnectorConstants DEF Inv, Types, Phases, Queues, Starts, Attempts, Events, Lives, Stops, StartQueued, Connecting, Singles, clientVars, userVars
<1>13. Lives'
  BY <1>0, <1>1, <1>2, <1>3, <1>4, <1>5, ConnectorConstants DEF Inv, Types, Phases, Queues, Starts, Attempts, Events, Lives, Stops, StartQueued, Connecting, Singles, clientVars, userVars
<1>14. Stops'
  BY <1>0, <1>1, <1>2, <1>3, <1>4, <1>5, ConnectorConstants DEF Inv, Types, Phases, Queues, Starts, Attempts, Events, Lives, Stops, StartQueued, Connecting, Singles, clientVars, userVars
<1>. QED
  BY <1>6, <1>7, <1>8, <1>9, <1>10, <1>11, <1>12, <1>13, <1>14 DEF Inv

(***************************************************************************)
(* resetChannel() is called.                                               *)
(***************************************************************************)
LEMMA CallResetKeeps ==
  ASSUME Inv, CallReset
  PROVE  Inv'
<1>1. /\ IsQueue(batch) /\ batch # <<>> /\ batch' = Tail(batch)
      /\ IsQueue(pending)
  BY DEF CallReset, Calling, Inv, Queues
<1>2. /\ IsQueue(batch')
      /\ \A f \in Singles : /\ Has(batch, f) <=> Head(batch)[1] = f \/ Has(batch', f)
                            /\ Head(batch)[1] = f => ~ Has(batch', f)
  BY <1>1, QueueTail
<1>3. (failed = {})'
  BY <1>1, <1>2, ConnectorConstants DEF Inv, Types, Phases, Queues, Starts, Attempts, Events, Lives, Stops, StartQueued, Connecting, Singles, CallReset, Calling, Free, ResetChannel, connectorVars, clientVars, loopVars, userVars
<1>4. Types'
  BY <1>1, <1>2, ConnectorConstants DEF Inv, Types, Phases, Queues, Starts, Attempts, Events, Lives, Stops, StartQueued, Connecting, Singles, CallReset, Calling, Free, ResetChannel, connectorVars, clientVars, loopVars, userVars
<1>5. Phases'
  BY <1>1, <1>2, ConnectorConstants DEF Inv, Types, Phases, Queues, Starts, Attempts, Events, Lives, Stops, StartQueued, Connecting, Singles, CallReset, Calling, Free, ResetChannel, connectorVars, clientVars, loopVars, userVars
<1>6. Queues'
  BY <1>1, <1>2, ConnectorConstants DEF Inv, Types, Phases, Queues, Starts, Attempts, Events, Lives, Stops, StartQueued, Connecting, Singles, CallReset, Calling, Free, ResetChannel, connectorVars, clientVars, loopVars, userVars
<1>7. Starts'
  BY <1>1, <1>2, ConnectorConstants DEF Inv, Types, Phases, Queues, Starts, Attempts, Events, Lives, Stops, StartQueued, Connecting, Singles, CallReset, Calling, Free, ResetChannel, connectorVars, clientVars, loopVars, userVars
<1>8. Attempts'
  BY <1>1, <1>2, ConnectorConstants DEF Inv, Types, Phases, Queues, Starts, Attempts, Events, Lives, Stops, StartQueued, Connecting, Singles, CallReset, Calling, Free, ResetChannel, connectorVars, clientVars, loopVars, userVars
<1>9. Events'
  BY <1>1, <1>2, ConnectorConstants DEF Inv, Types, Phases, Queues, Starts, Attempts, Events, Lives, Stops, StartQueued, Connecting, Singles, CallReset, Calling, Free, ResetChannel, connectorVars, clientVars, loopVars, userVars
<1>10. Lives'
  BY <1>1, <1>2, ConnectorConstants DEF Inv, Types, Phases, Queues, Starts, Attempts, Events, Lives, Stops, StartQueued, Connecting, Singles, CallReset, Calling, Free, ResetChannel, connectorVars, clientVars, loopVars, userVars
<1>11. Stops'
  BY <1>1, <1>2, ConnectorConstants DEF Inv, Types, Phases, Queues, Starts, Attempts, Events, Lives, Stops, StartQueued, Connecting, Singles, CallReset, Calling, Free, ResetChannel, connectorVars, clientVars, loopVars, userVars
<1>. QED
  BY <1>3, <1>4, <1>5, <1>6, <1>7, <1>8, <1>9, <1>10, <1>11 DEF Inv

(***************************************************************************)
(* cancelInLoop() is called.                                               *)
(***************************************************************************)
LEMMA CallCancelKeeps ==
  ASSUME Inv, CallCancel
  PROVE  Inv'
<1>1. /\ IsQueue(batch) /\ batch # <<>> /\ batch' = Tail(batch)
      /\ IsQueue(pending)
  BY DEF CallCancel, Calling, Inv, Queues
<1>2. /\ IsQueue(batch')
      /\ \A f \in Singles : /\ Has(batch, f) <=> Head(batch)[1] = f \/ Has(batch', f)
                            /\ Head(batch)[1] = f => ~ Has(batch', f)
  BY <1>1, QueueTail
<1>3. (failed = {})'
  BY <1>1, <1>2, ConnectorConstants DEF Inv, Types, Phases, Queues, Starts, Attempts, Events, Lives, Stops, StartQueued, Connecting, Singles, CallCancel, Calling, Free, connectorVars, clientVars, loopVars, userVars
<1>4. Types'
  BY <1>1, <1>2, ConnectorConstants DEF Inv, Types, Phases, Queues, Starts, Attempts, Events, Lives, Stops, StartQueued, Connecting, Singles, CallCancel, Calling, Free, connectorVars, clientVars, loopVars, userVars
<1>5. Phases'
  BY <1>1, <1>2, ConnectorConstants DEF Inv, Types, Phases, Queues, Starts, Attempts, Events, Lives, Stops, StartQueued, Connecting, Singles, CallCancel, Calling, Free, connectorVars, clientVars, loopVars, userVars
<1>6. Queues'
  BY <1>1, <1>2, ConnectorConstants DEF Inv, Types, Phases, Queues, Starts, Attempts, Events, Lives, Stops, StartQueued, Connecting, Singles, CallCancel, Calling, Free, connectorVars, clientVars, loopVars, userVars
<1>7. Starts'
  BY <1>1, <1>2, ConnectorConstants DEF Inv, Types, Phases, Queues, Starts, Attempts, Events, Lives, Stops, StartQueued, Connecting, Singles, CallCancel, Calling, Free, connectorVars, clientVars, loopVars, userVars
<1>8. Attempts'
  BY <1>1, <1>2, ConnectorConstants DEF Inv, Types, Phases, Queues, Starts, Attempts, Events, Lives, Stops, StartQueued, Connecting, Singles, CallCancel, Calling, Free, connectorVars, clientVars, loopVars, userVars
<1>9. Events'
  BY <1>1, <1>2, ConnectorConstants DEF Inv, Types, Phases, Queues, Starts, Attempts, Events, Lives, Stops, StartQueued, Connecting, Singles, CallCancel, Calling, Free, connectorVars, clientVars, loopVars, userVars
<1>10. Lives'
  BY <1>1, <1>2, ConnectorConstants DEF Inv, Types, Phases, Queues, Starts, Attempts, Events, Lives, Stops, StartQueued, Connecting, Singles, CallCancel, Calling, Free, connectorVars, clientVars, loopVars, userVars
<1>11. Stops'
  BY <1>1, <1>2, ConnectorConstants DEF Inv, Types, Phases, Queues, Starts, Attempts, Events, Lives, Stops, StartQueued, Connecting, Singles, CallCancel, Calling, Free, connectorVars, clientVars, loopVars, userVars
<1>. QED
  BY <1>3, <1>4, <1>5, <1>6, <1>7, <1>8, <1>9, <1>10, <1>11 DEF Inv

(***************************************************************************)
(* A connection is made.                                                   *)
(***************************************************************************)
LEMMA NewConnectionKeeps ==
  ASSUME Inv, NewConnection
  PROVE  Inv'
<1>1. IsQueue(pending) /\ IsQueue(batch)
  BY DEF Inv, Queues
<1>2. (failed = {})'
  BY <1>1, ConnectorConstants DEF Inv, Types, Phases, Queues, Starts, Attempts, Events, Lives, Stops, StartQueued, Connecting, Singles, NewConnection, connectorVars, clientVars, loopVars, userVars
<1>3. Types'
  BY <1>1, ConnectorConstants DEF Inv, Types, Phases, Queues, Starts, Attempts, Events, Lives, Stops, StartQueued, Connecting, Singles, NewConnection, connectorVars, clientVars, loopVars, userVars
<1>4. Phases'
  BY <1>1, ConnectorConstants DEF Inv, Types, Phases, Queues, Starts, Attempts, Events, Lives, Stops, StartQueued, Connecting, Singles, NewConnection, connectorVars, clientVars, loopVars, userVars
<1>5. Queues'
  BY <1>1, ConnectorConstants DEF Inv, Types, Phases, Queues, Starts, Attempts, Events, Lives, Stops, StartQueued, Connecting, Singles, NewConnection, connectorVars, clientVars, loopVars, userVars
<1>6. Starts'
  BY <1>1, ConnectorConstants DEF Inv, Types, Phases, Queues, Starts, Attempts, Events, Lives, Stops, StartQueued, Connecting, Singles, NewConnection, connectorVars, clientVars, loopVars, userVars
<1>7. Attempts'
  BY <1>1, ConnectorConstants DEF Inv, Types, Phases, Queues, Starts, Attempts, Events, Lives, Stops, StartQueued, Connecting, Singles, NewConnection, connectorVars, clientVars, loopVars, userVars
<1>8. Events'
  BY <1>1, ConnectorConstants DEF Inv, Types, Phases, Queues, Starts, Attempts, Events, Lives, Stops, StartQueued, Connecting, Singles, NewConnection, connectorVars, clientVars, loopVars, userVars
<1>9. Lives'
  BY <1>1, ConnectorConstants DEF Inv, Types, Phases, Queues, Starts, Attempts, Events, Lives, Stops, StartQueued, Connecting, Singles, NewConnection, connectorVars, clientVars, loopVars, userVars
<1>10. Stops'
  BY <1>1, ConnectorConstants DEF Inv, Types, Phases, Queues, Starts, Attempts, Events, Lives, Stops, StartQueued, Connecting, Singles, NewConnection, connectorVars, clientVars, loopVars, userVars
<1>. QED
  BY <1>2, <1>3, <1>4, <1>5, <1>6, <1>7, <1>8, <1>9, <1>10 DEF Inv

(***************************************************************************)
(* The connection closes.                                                  *)
(***************************************************************************)
LEMMA HandleCloseKeeps ==
  ASSUME Inv, HandleClose
  PROVE  Inv'
<1>1. active = <<"close">> /\ active' = <<>> /\ conn = "up"
  BY HandlingIsLast DEF HandleClose, Inv, Events
<1>2. /\ state = "kConnected" /\ channel = None /\ retryTimer = None
      /\ (closeCb = "client" => client = "alive" /\ connection)
  BY <1>1 DEF Inv, Events, Attempts, Lives, Types
<1>3. /\ IsQueue(pending) /\ IsQueue(batch)
      /\ pending' = Append(pending, <<"destroy", None>>)
      /\ ~ Has(pending, "destroy") /\ ~ Has(batch, "destroy")
  BY <1>1 DEF HandleClose, Inv, Queues
<1>4. /\ IsQueue(pending')
      /\ \A f \in Singles : Has(pending', f) <=> Has(pending, f) \/ f = "destroy"
  BY <1>1, <1>3, QueueAppend
<1>5. failed' = {}
  BY <1>2, NoneFailing DEF HandleClose, RemoveConnection, Inv
<1>6. (failed = {})'
  BY <1>1, <1>2, <1>3, <1>4, <1>5, ConnectorConstants DEF Inv, Types, Phases, Queues, Starts, Attempts, Events, Lives, Stops, StartQueued, Connecting, Singles, HandleClose, RemoveConnection, Handling, Free, connectorVars, clientVars, loopVars, userVars
<1>7. Types'
  BY <1>1, <1>2, <1>3, <1>4, <1>5, ConnectorConstants DEF Inv, Types, Phases, Queues, Starts, Attempts, Events, Lives, Stops, StartQueued, Connecting, Singles, HandleClose, RemoveConnection, Handling, Free, connectorVars, clientVars, loopVars, userVars
<1>8. Phases'
  BY <1>1, <1>2, <1>3, <1>4, <1>5, ConnectorConstants DEF Inv, Types, Phases, Queues, Starts, Attempts, Events, Lives, Stops, StartQueued, Connecting, Singles, HandleClose, RemoveConnection, Handling, Free, connectorVars, clientVars, loopVars, userVars
<1>9. Queues'
  BY <1>1, <1>2, <1>3, <1>4, <1>5, ConnectorConstants DEF Inv, Types, Phases, Queues, Starts, Attempts, Events, Lives, Stops, StartQueued, Connecting, Singles, HandleClose, RemoveConnection, Handling, Free, connectorVars, clientVars, loopVars, userVars
<1>10. Starts'
  BY <1>1, <1>2, <1>3, <1>4, <1>5, ConnectorConstants DEF Inv, Types, Phases, Queues, Starts, Attempts, Events, Lives, Stops, StartQueued, Connecting, Singles, HandleClose, RemoveConnection, Handling, Free, connectorVars, clientVars, loopVars, userVars
<1>11. Attempts'
  BY <1>1, <1>2, <1>3, <1>4, <1>5, ConnectorConstants DEF Inv, Types, Phases, Queues, Starts, Attempts, Events, Lives, Stops, StartQueued, Connecting, Singles, HandleClose, RemoveConnection, Handling, Free, connectorVars, clientVars, loopVars, userVars
<1>12. Events'
  BY <1>1, <1>2, <1>3, <1>4, <1>5, ConnectorConstants DEF Inv, Types, Phases, Queues, Starts, Attempts, Events, Lives, Stops, StartQueued, Connecting, Singles, HandleClose, RemoveConnection, Handling, Free, connectorVars, clientVars, loopVars, userVars
<1>13. Lives'
  BY <1>1, <1>2, <1>3, <1>4, <1>5, ConnectorConstants DEF Inv, Types, Phases, Queues, Starts, Attempts, Events, Lives, Stops, StartQueued, Connecting, Singles, HandleClose, RemoveConnection, Handling, Free, connectorVars, clientVars, loopVars, userVars
<1>14. Stops'
  BY <1>1, <1>2, <1>3, <1>4, <1>5, ConnectorConstants DEF Inv, Types, Phases, Queues, Starts, Attempts, Events, Lives, Stops, StartQueued, Connecting, Singles, HandleClose, RemoveConnection, Handling, Free, connectorVars, clientVars, loopVars, userVars
<1>. QED
  BY <1>6, <1>7, <1>8, <1>9, <1>10, <1>11, <1>12, <1>13, <1>14 DEF Inv

(***************************************************************************)
(* The client connects again.                                              *)
(***************************************************************************)
LEMMA RestartConnectorKeeps ==
  ASSUME Inv, RestartConnector
  PROVE  Inv'
<1>1. IsQueue(pending) /\ IsQueue(batch)
  BY DEF Inv, Queues
<1>2. (failed = {})'
  BY <1>1, ConnectorConstants DEF Inv, Types, Phases, Queues, Starts, Attempts, Events, Lives, Stops, StartQueued, Connecting, Singles, RestartConnector, Restart, connectorVars, clientVars, loopVars, userVars
<1>3. Types'
  BY <1>1, ConnectorConstants DEF Inv, Types, Phases, Queues, Starts, Attempts, Events, Lives, Stops, StartQueued, Connecting, Singles, RestartConnector, Restart, connectorVars, clientVars, loopVars, userVars
<1>4. Phases'
  BY <1>1, ConnectorConstants DEF Inv, Types, Phases, Queues, Starts, Attempts, Events, Lives, Stops, StartQueued, Connecting, Singles, RestartConnector, Restart, connectorVars, clientVars, loopVars, userVars
<1>5. Queues'
  BY <1>1, ConnectorConstants DEF Inv, Types, Phases, Queues, Starts, Attempts, Events, Lives, Stops, StartQueued, Connecting, Singles, RestartConnector, Restart, connectorVars, clientVars, loopVars, userVars
<1>6. Starts'
  BY <1>1, ConnectorConstants DEF Inv, Types, Phases, Queues, Starts, Attempts, Events, Lives, Stops, StartQueued, Connecting, Singles, RestartConnector, Restart, connectorVars, clientVars, loopVars, userVars
<1>7. Attempts'
  BY <1>1, ConnectorConstants DEF Inv, Types, Phases, Queues, Starts, Attempts, Events, Lives, Stops, StartQueued, Connecting, Singles, RestartConnector, Restart, connectorVars, clientVars, loopVars, userVars
<1>8. Events'
  BY <1>1, ConnectorConstants DEF Inv, Types, Phases, Queues, Starts, Attempts, Events, Lives, Stops, StartQueued, Connecting, Singles, RestartConnector, Restart, connectorVars, clientVars, loopVars, userVars
<1>9. Lives'
  BY <1>1, ConnectorConstants DEF Inv, Types, Phases, Queues, Starts, Attempts, Events, Lives, Stops, StartQueued, Connecting, Singles, RestartConnector, Restart, connectorVars, clientVars, loopVars, userVars
<1>10. Stops'
  BY <1>1, ConnectorConstants DEF Inv, Types, Phases, Queues, Starts, Attempts, Events, Lives, Stops, StartQueued, Connecting, Singles, RestartConnector, Restart, connectorVars, clientVars, loopVars, userVars
<1>. QED
  BY <1>2, <1>3, <1>4, <1>5, <1>6, <1>7, <1>8, <1>9, <1>10 DEF Inv

(***************************************************************************)
(* connectDestroyed() is called.                                           *)
(***************************************************************************)
LEMMA CallDestroyKeeps ==
  ASSUME Inv, CallDestroy
  PROVE  Inv'
<1>1. /\ IsQueue(batch) /\ batch # <<>> /\ batch' = Tail(batch)
      /\ IsQueue(pending)
  BY DEF CallDestroy, Calling, Inv, Queues
<1>2. /\ IsQueue(batch')
      /\ \A f \in Singles : /\ Has(batch, f) <=> Head(batch)[1] = f \/ Has(batch', f)
                            /\ Head(batch)[1] = f => ~ Has(batch', f)
  BY <1>1, QueueTail
<1>3. (failed = {})'
  BY <1>1, <1>2, ConnectorConstants DEF Inv, Types, Phases, Queues, Starts, Attempts, Events, Lives, Stops, StartQueued, Connecting, Singles, CallDestroy, Calling, Free, connectorVars, clientVars, loopVars, userVars
<1>4. Types'
  BY <1>1, <1>2, ConnectorConstants DEF Inv, Types, Phases, Queues, Starts, Attempts, Events, Lives, Stops, StartQueued, Connecting, Singles, CallDestroy, Calling, Free, connectorVars, clientVars, loopVars, userVars
<1>5. Phases'
  BY <1>1, <1>2, ConnectorConstants DEF Inv, Types, Phases, Queues, Starts, Attempts, Events, Lives, Stops, StartQueued, Connecting, Singles, CallDestroy, Calling, Free, connectorVars, clientVars, loopVars, userVars
<1>6. Queues'
  BY <1>1, <1>2, ConnectorConstants DEF Inv, Types, Phases, Queues, Starts, Attempts, Events, Lives, Stops, StartQueued, Connecting, Singles, CallDestroy, Calling, Free, connectorVars, clientVars, loopVars, userVars
<1>7. Starts'
  BY <1>1, <1>2, ConnectorConstants DEF Inv, Types, Phases, Queues, Starts, Attempts, Events, Lives, Stops, StartQueued, Connecting, Singles, CallDestroy, Calling, Free, connectorVars, clientVars, loopVars, userVars
<1>8. Attempts'
  BY <1>1, <1>2, ConnectorConstants DEF Inv, Types, Phases, Queues, Starts, Attempts, Events, Lives, Stops, StartQueued, Connecting, Singles, CallDestroy, Calling, Free, connectorVars, clientVars, loopVars, userVars
<1>9. Events'
  BY <1>1, <1>2, ConnectorConstants DEF Inv, Types, Phases, Queues, Starts, Attempts, Events, Lives, Stops, StartQueued, Connecting, Singles, CallDestroy, Calling, Free, connectorVars, clientVars, loopVars, userVars
<1>10. Lives'
  BY <1>1, <1>2, ConnectorConstants DEF Inv, Types, Phases, Queues, Starts, Attempts, Events, Lives, Stops, StartQueued, Connecting, Singles, CallDestroy, Calling, Free, connectorVars, clientVars, loopVars, userVars
<1>11. Stops'
  BY <1>1, <1>2, ConnectorConstants DEF Inv, Types, Phases, Queues, Starts, Attempts, Events, Lives, Stops, StartQueued, Connecting, Singles, CallDestroy, Calling, Free, connectorVars, clientVars, loopVars, userVars
<1>. QED
  BY <1>3, <1>4, <1>5, <1>6, <1>7, <1>8, <1>9, <1>10, <1>11 DEF Inv

(***************************************************************************)
(* The last reference to the Connector is dropped.                         *)
(***************************************************************************)
LEMMA ReleaseExpiresKeeps ==
  ASSUME Inv, ReleaseExpires
  PROVE  Inv'
<1>1. release /\ client = "destroyed"
  BY DEF ReleaseExpires, Inv, Lives, Types
<1>2. IsQueue(pending) /\ IsQueue(batch)
  BY DEF Inv, Queues
<1>3. (failed = {})'
  BY <1>1, <1>2, ConnectorConstants DEF Inv, Types, Phases, Queues, Starts, Attempts, Events, Lives, Stops, StartQueued, Connecting, Singles, ReleaseExpires, Free, connectorVars, clientVars, loopVars, userVars
<1>4. Types'
  BY <1>1, <1>2, ConnectorConstants DEF Inv, Types, Phases, Queues, Starts, Attempts, Events, Lives, Stops, StartQueued, Connecting, Singles, ReleaseExpires, Free, connectorVars, clientVars, loopVars, userVars
<1>5. Phases'
  BY <1>1, <1>2, ConnectorConstants DEF Inv, Types, Phases, Queues, Starts, Attempts, Events, Lives, Stops, StartQueued, Connecting, Singles, ReleaseExpires, Free, connectorVars, clientVars, loopVars, userVars
<1>6. Queues'
  BY <1>1, <1>2, ConnectorConstants DEF Inv, Types, Phases, Queues, Starts, Attempts, Events, Lives, Stops, StartQueued, Connecting, Singles, ReleaseExpires, Free, connectorVars, clientVars, loopVars, userVars
<1>7. Starts'
  BY <1>1, <1>2, ConnectorConstants DEF Inv, Types, Phases, Queues, Starts, Attempts, Events, Lives, Stops, StartQueued, Connecting, Singles, ReleaseExpires, Free, connectorVars, clientVars, loopVars, userVars
<1>8. Attempts'
  BY <1>1, <1>2, ConnectorConstants DEF Inv, Types, Phases, Queues, Starts, Attempts, Events, Lives, Stops, StartQueued, Connecting, Singles, ReleaseExpires, Free, connectorVars, clientVars, loopVars, userVars
<1>9. Events'
  BY <1>1, <1>2, ConnectorConstants DEF Inv, Types, Phases, Queues, Starts, Attempts, Events, Lives, Stops, StartQueued, Connecting, Singles, ReleaseExpires, Free, connectorVars, clientVars, loopVars, userVars
<1>10. Lives'
  BY <1>1, <1>2, ConnectorConstants DEF Inv, Types, Phases, Queues, Starts, Attempts, Events, Lives, Stops, StartQueued, Connecting, Singles, ReleaseExpires, Free, connectorVars, clientVars, loopVars, userVars
<1>11. Stops'
  BY <1>1, <1>2, ConnectorConstants DEF Inv, Types, Phases, Queues, Starts, Attempts, Events, Lives, Stops, StartQueued, Connecting, Singles, ReleaseExpires, Free, connectorVars, clientVars, loopVars, userVars
<1>. QED
  BY <1>3, <1>4, <1>5, <1>6, <1>7, <1>8, <1>9, <1>10, <1>11 DEF Inv

(***************************************************************************)
(* The events that poll() may report exclude one another.                  *)
(***************************************************************************)
LEMMA OneHappening ==
  ASSUME Inv, phase = "functors", Free, batch = <<>>, NEW S \in SUBSET Happening,
         ~ ({"write", "error"} \subseteq S), NEW s \in SetToSeqs(S)
  PROVE  s = <<>> \/ \E e \in Happening : s = <<e>>
<1>1. channel # "removed" /\ conn # "closed"
  <2>1. \A f \in Singles : ~ Has(batch, f)
    BY QueueEmpty
  <2>. QED
    BY <2>1 DEF Inv, Phases, Queues, Singles
<1>2. ASSUME NEW d \in S, NEW e \in S, d # e PROVE FALSE
  BY <1>1, <1>2, ConnectorConstants DEF Happening, Inv, Types, Attempts, Lives
<1>3. CASE S = {}
  <2>1. s \in [1 .. 0 -> {}]
    BY <1>3, FS_EmptySet DEF SetToSeqs
  <2>. QED
    BY <2>1
<1>4. CASE S # {}
  <2>1. PICK e : S = {e}
    BY <1>2, <1>4
  <2>2. s \in [1 .. 1 -> {e}]
    BY <2>1, FS_Singleton DEF SetToSeqs
  <2>3. s = <<e>>
    BY <2>2
  <2>. QED
    BY <2>1, <2>3
<1>. QED
  BY <1>3, <1>4

(***************************************************************************)
(* The functors are taken.                                                 *)
(***************************************************************************)
LEMMA TakeFunctorsKeeps ==
  ASSUME Inv, TakeFunctors
  PROVE  Inv'
<1>1. IsQueue(pending) /\ IsQueue(batch)
  BY DEF Inv, Queues
<1>2. IsQueue(<<>>) /\ \A f \in Singles : ~ Has(<<>>, f)
  BY QueueEmpty
<1>3. batch = <<>>
  BY DEF TakeFunctors, Inv, Phases
<1>4. batch' = pending /\ pending' = <<>>
  BY DEF TakeFunctors
<1>5. (failed = {})'
  BY <1>1, <1>2, <1>3, <1>4, ConnectorConstants DEF Inv, Types, Phases, Queues, Starts, Attempts, Events, Lives, Stops, StartQueued, Connecting, Singles, TakeFunctors, Free, connectorVars, clientVars, loopVars, userVars
<1>6. Types'
  BY <1>1, <1>2, <1>3, <1>4, ConnectorConstants DEF Inv, Types, Phases, Queues, Starts, Attempts, Events, Lives, Stops, StartQueued, Connecting, Singles, TakeFunctors, Free, connectorVars, clientVars, loopVars, userVars
<1>7. Phases'
  BY <1>1, <1>2, <1>3, <1>4, ConnectorConstants DEF Inv, Types, Phases, Queues, Starts, Attempts, Events, Lives, Stops, StartQueued, Connecting, Singles, TakeFunctors, Free, connectorVars, clientVars, loopVars, userVars
<1>8. Queues'
  BY <1>1, <1>2, <1>3, <1>4, ConnectorConstants DEF Inv, Types, Phases, Queues, Starts, Attempts, Events, Lives, Stops, StartQueued, Connecting, Singles, TakeFunctors, Free, connectorVars, clientVars, loopVars, userVars
<1>9. Starts'
  BY <1>1, <1>2, <1>3, <1>4, ConnectorConstants DEF Inv, Types, Phases, Queues, Starts, Attempts, Events, Lives, Stops, StartQueued, Connecting, Singles, TakeFunctors, Free, connectorVars, clientVars, loopVars, userVars
<1>10. Attempts'
  BY <1>1, <1>2, <1>3, <1>4, ConnectorConstants DEF Inv, Types, Phases, Queues, Starts, Attempts, Events, Lives, Stops, StartQueued, Connecting, Singles, TakeFunctors, Free, connectorVars, clientVars, loopVars, userVars
<1>11. Events'
  BY <1>1, <1>2, <1>3, <1>4, ConnectorConstants DEF Inv, Types, Phases, Queues, Starts, Attempts, Events, Lives, Stops, StartQueued, Connecting, Singles, TakeFunctors, Free, connectorVars, clientVars, loopVars, userVars
<1>12. Lives'
  BY <1>1, <1>2, <1>3, <1>4, ConnectorConstants DEF Inv, Types, Phases, Queues, Starts, Attempts, Events, Lives, Stops, StartQueued, Connecting, Singles, TakeFunctors, Free, connectorVars, clientVars, loopVars, userVars
<1>13. Stops'
  BY <1>1, <1>2, <1>3, <1>4, ConnectorConstants DEF Inv, Types, Phases, Queues, Starts, Attempts, Events, Lives, Stops, StartQueued, Connecting, Singles, TakeFunctors, Free, connectorVars, clientVars, loopVars, userVars
<1>. QED
  BY <1>5, <1>6, <1>7, <1>8, <1>9, <1>10, <1>11, <1>12, <1>13 DEF Inv

(***************************************************************************)
(* The client is destroyed.                                                *)
(***************************************************************************)
LEMMA UserDestroysKeeps ==
  ASSUME Inv, UserDestroys
  PROVE  Inv'
<1>1. IsQueue(pending) /\ IsQueue(batch)
  BY DEF Inv, Queues
<1>2. settled' => channel = None /\ ~ StartQueued
  <2>. SUFFICES ASSUME settled' PROVE channel = None /\ ~ StartQueued
    OBVIOUS
  <2>1. channel = None /\ <<"start", None>> \notin Functors
    BY DEF UserDestroys, ConnectorFunctors
  <2>. QED
    BY <1>1, <2>1, QueueHolds DEF Functors, Singles, StartQueued
<1>3. (failed = {})'
  BY <1>1, <1>2, ConnectorConstants DEF Inv, Types, Phases, Queues, Starts, Attempts, Events, Lives, Stops, StartQueued, Connecting, Singles, UserDestroys, Destroy, Free, NoCall, connectorVars, clientVars, loopVars, userVars
<1>4. Types'
  BY <1>1, <1>2, ConnectorConstants DEF Inv, Types, Phases, Queues, Starts, Attempts, Events, Lives, Stops, StartQueued, Connecting, Singles, UserDestroys, Destroy, Free, NoCall, connectorVars, clientVars, loopVars, userVars
<1>5. Phases'
  BY <1>1, <1>2, ConnectorConstants DEF Inv, Types, Phases, Queues, Starts, Attempts, Events, Lives, Stops, StartQueued, Connecting, Singles, UserDestroys, Destroy, Free, NoCall, connectorVars, clientVars, loopVars, userVars
<1>6. Queues'
  BY <1>1, <1>2, ConnectorConstants DEF Inv, Types, Phases, Queues, Starts, Attempts, Events, Lives, Stops, StartQueued, Connecting, Singles, UserDestroys, Destroy, Free, NoCall, connectorVars, clientVars, loopVars, userVars
<1>7. Starts'
  BY <1>1, <1>2, ConnectorConstants DEF Inv, Types, Phases, Queues, Starts, Attempts, Events, Lives, Stops, StartQueued, Connecting, Singles, UserDestroys, Destroy, Free, NoCall, connectorVars, clientVars, loopVars, userVars
<1>8. Attempts'
  BY <1>1, <1>2, ConnectorConstants DEF Inv, Types, Phases, Queues, Starts, Attempts, Events, Lives, Stops, StartQueued, Connecting, Singles, UserDestroys, Destroy, Free, NoCall, connectorVars, clientVars, loopVars, userVars
<1>9. Events'
  BY <1>1, <1>2, ConnectorConstants DEF Inv, Types, Phases, Queues, Starts, Attempts, Events, Lives, Stops, StartQueued, Connecting, Singles, UserDestroys, Destroy, Free, NoCall, connectorVars, clientVars, loopVars, userVars
<1>10. Lives'
  BY <1>1, <1>2, ConnectorConstants DEF Inv, Types, Phases, Queues, Starts, Attempts, Events, Lives, Stops, StartQueued, Connecting, Singles, UserDestroys, Destroy, Free, NoCall, connectorVars, clientVars, loopVars, userVars
<1>11. Stops'
  BY <1>1, <1>2, ConnectorConstants DEF Inv, Types, Phases, Queues, Starts, Attempts, Events, Lives, Stops, StartQueued, Connecting, Singles, UserDestroys, Destroy, Free, NoCall, connectorVars, clientVars, loopVars, userVars
<1>. QED
  BY <1>3, <1>4, <1>5, <1>6, <1>7, <1>8, <1>9, <1>10, <1>11 DEF Inv

(***************************************************************************)
(* connect() is called in the loop's thread.                               *)
(***************************************************************************)
LEMMA LoopConnectsKeeps ==
  ASSUME Inv, MaxConnects <= 1, LoopConnects
  PROVE  Inv'
<1>1. IsQueue(pending) /\ IsQueue(batch)
  BY DEF Inv, Queues
<1>2. connects = 0 /\ connects' = 1 /\ 1 <= MaxConnects
  BY TcpClientConstants DEF LoopConnects, Inv, Types
<1>3. \A t \in Threads : tpc[t] = <<"out", 0>>
  BY DEF LoopConnects, NoCall
<1>4. (failed = {})'
  BY <1>1, <1>2, <1>3, ConnectorConstants DEF Inv, Types, Phases, Queues, Starts, Attempts, Events, Lives, Stops, StartQueued, Connecting, Singles, LoopConnects, connectorVars, clientVars, loopVars, userVars
<1>5. Types'
  <2>1. connects' \in Nat
    BY <1>2
  <2>2. /\ UNCHANGED <<connection, release, user, state, channel, conn, closeCb, client, connector, phase, tpc>>
        /\ retrying' = TRUE /\ wanted' = TRUE /\ stopped' = FALSE /\ todo' = "start"
    BY DEF LoopConnects, loopVars
  <2>3. Types
    BY DEF Inv
  <2>4. /\ wanted' \in BOOLEAN /\ retrying' \in BOOLEAN /\ stopped' \in BOOLEAN
        /\ connection' \in BOOLEAN /\ release' \in BOOLEAN /\ user' \in BOOLEAN
    BY <2>2, <2>3 DEF Types
  <2>5. /\ state' \in {"kDisconnected", "kConnecting", "kConnected"}
        /\ channel' \in {None, "registered", "removed"}
        /\ todo' \in {None, "start", "connect", "newConnection", "restart"}
        /\ conn' \in {"none", "up", "closed"}
        /\ closeCb' \in {"client", "detached"}
        /\ client' \in {"alive", "destroyed"}
        /\ connector' \in {"alive", "destroyed"}
        /\ phase' \in {"events", "functors"}
    BY <2>2, <2>3 DEF Types
  <2>. QED
    BY <2>1, <2>2, <2>3, <2>4, <2>5, Zenon DEF Types
<1>6. Phases'
  BY <1>1, <1>2, <1>3, ConnectorConstants DEF Inv, Types, Phases, Queues, Starts, Attempts, Events, Lives, Stops, StartQueued, Connecting, Singles, LoopConnects, connectorVars, clientVars, loopVars, userVars
<1>7. Queues'
  BY <1>1, <1>2, <1>3, ConnectorConstants DEF Inv, Types, Phases, Queues, Starts, Attempts, Events, Lives, Stops, StartQueued, Connecting, Singles, LoopConnects, connectorVars, clientVars, loopVars, userVars
<1>8. Starts'
  BY <1>1, <1>2, <1>3, ConnectorConstants DEF Inv, Types, Phases, Queues, Starts, Attempts, Events, Lives, Stops, StartQueued, Connecting, Singles, LoopConnects, connectorVars, clientVars, loopVars, userVars
<1>9. Attempts'
  BY <1>1, <1>2, <1>3, ConnectorConstants DEF Inv, Types, Phases, Queues, Starts, Attempts, Events, Lives, Stops, StartQueued, Connecting, Singles, LoopConnects, connectorVars, clientVars, loopVars, userVars
<1>10. Events'
  BY <1>1, <1>2, <1>3, ConnectorConstants DEF Inv, Types, Phases, Queues, Starts, Attempts, Events, Lives, Stops, StartQueued, Connecting, Singles, LoopConnects, connectorVars, clientVars, loopVars, userVars
<1>11. Lives'
  BY <1>1, <1>2, <1>3, ConnectorConstants DEF Inv, Types, Phases, Queues, Starts, Attempts, Events, Lives, Stops, StartQueued, Connecting, Singles, LoopConnects, connectorVars, clientVars, loopVars, userVars
<1>12. Stops'
  BY <1>1, <1>2, <1>3, ConnectorConstants DEF Inv, Types, Phases, Queues, Starts, Attempts, Events, Lives, Stops, StartQueued, Connecting, Singles, LoopConnects, connectorVars, clientVars, loopVars, userVars
<1>. QED
  BY <1>4, <1>5, <1>6, <1>7, <1>8, <1>9, <1>10, <1>11, <1>12 DEF Inv

(***************************************************************************)
(* stop() or disconnect() is called in connectionCallback_.                *)
(***************************************************************************)
LEMMA CallbackStopsKeeps ==
  ASSUME Inv, CallbackStops
  PROVE  Inv'
<1>1. IsQueue(pending) /\ IsQueue(batch)
  BY DEF Inv, Queues
<1>2. client = "alive" /\ client' = "alive"
  BY DEF CallbackStops
<1>3. active = <<>>
  BY DEF CallbackStops, Inv, Events
<1>4. (failed = {})'
  BY <1>1, <1>2, <1>3, ConnectorConstants DEF Inv, Types, Phases, Queues, Starts, Attempts, Events, Lives, Stops, StartQueued, Connecting, Singles, CallbackStops, NoConnect, connectorVars, clientVars, loopVars, userVars
<1>5. Types'
  BY <1>1, <1>2, <1>3, ConnectorConstants DEF Inv, Types, Phases, Queues, Starts, Attempts, Events, Lives, Stops, StartQueued, Connecting, Singles, CallbackStops, NoConnect, connectorVars, clientVars, loopVars, userVars
<1>6. Phases'
  BY <1>1, <1>2, <1>3, ConnectorConstants DEF Inv, Types, Phases, Queues, Starts, Attempts, Events, Lives, Stops, StartQueued, Connecting, Singles, CallbackStops, NoConnect, connectorVars, clientVars, loopVars, userVars
<1>7. Queues'
  BY <1>1, <1>2, <1>3, ConnectorConstants DEF Inv, Types, Phases, Queues, Starts, Attempts, Events, Lives, Stops, StartQueued, Connecting, Singles, CallbackStops, NoConnect, connectorVars, clientVars, loopVars, userVars
<1>8. Starts'
  BY <1>1, <1>2, <1>3, ConnectorConstants DEF Inv, Types, Phases, Queues, Starts, Attempts, Events, Lives, Stops, StartQueued, Connecting, Singles, CallbackStops, NoConnect, connectorVars, clientVars, loopVars, userVars
<1>9. Attempts'
  BY <1>1, <1>2, <1>3, ConnectorConstants DEF Inv, Types, Phases, Queues, Starts, Attempts, Events, Lives, Stops, StartQueued, Connecting, Singles, CallbackStops, NoConnect, connectorVars, clientVars, loopVars, userVars
<1>10. Events'
  BY <1>3 DEF CallbackStops, loopVars, Events
<1>11. Lives'
  BY <1>1, <1>2, <1>3, ConnectorConstants DEF Inv, Types, Phases, Queues, Starts, Attempts, Events, Lives, Stops, StartQueued, Connecting, Singles, CallbackStops, NoConnect, connectorVars, clientVars, loopVars, userVars
<1>12. Stops'
  BY <1>1, <1>2, <1>3, ConnectorConstants DEF Inv, Types, Phases, Queues, Starts, Attempts, Events, Lives, Stops, StartQueued, Connecting, Singles, CallbackStops, NoConnect, connectorVars, clientVars, loopVars, userVars
<1>. QED
  BY <1>4, <1>5, <1>6, <1>7, <1>8, <1>9, <1>10, <1>11, <1>12 DEF Inv

(***************************************************************************)
(* poll() returns.                                                         *)
(***************************************************************************)
LEMMA PollKeeps ==
  ASSUME Inv, Poll
  PROVE  Inv'
<1>1. IsQueue(pending) /\ IsQueue(batch)
  BY DEF Inv, Queues
<1>2. phase = "functors" /\ todo = None /\ ~ user /\ batch = <<>>
  BY DEF Poll, Free
<1>3. \A f \in Singles : ~ Has(batch, f)
  BY <1>2, QueueEmpty
<1>4. channel # "removed" /\ conn # "closed"
  BY <1>2, <1>3 DEF Inv, Phases, Queues, Singles
<1>5. active' = <<>> \/ \E e \in Happening : active' = <<e>>
  BY <1>2, OneHappening DEF Poll
<1>6. /\ phase' = "events"
      /\ UNCHANGED <<connectorVars, todo, pending, failed, gaveUp, clientVars, batch, user, userVars>>
  BY DEF Poll
<1>7. (failed = {})'
  BY <1>1, <1>2, <1>3, <1>4, <1>5, <1>6, ConnectorConstants DEF Inv, Types, Phases, Queues, Starts, Attempts, Events, Lives, Stops, StartQueued, Connecting, Singles, connectorVars, clientVars, loopVars, userVars, Happening
<1>8. Types'
  BY <1>1, <1>2, <1>3, <1>4, <1>5, <1>6, ConnectorConstants DEF Inv, Types, Phases, Queues, Starts, Attempts, Events, Lives, Stops, StartQueued, Connecting, Singles, connectorVars, clientVars, loopVars, userVars, Happening
<1>9. Phases'
  BY <1>1, <1>2, <1>3, <1>4, <1>5, <1>6, ConnectorConstants DEF Inv, Types, Phases, Queues, Starts, Attempts, Events, Lives, Stops, StartQueued, Connecting, Singles, connectorVars, clientVars, loopVars, userVars, Happening
<1>10. Queues'
  BY <1>1, <1>2, <1>3, <1>4, <1>5, <1>6, ConnectorConstants DEF Inv, Types, Phases, Queues, Starts, Attempts, Events, Lives, Stops, StartQueued, Connecting, Singles, connectorVars, clientVars, loopVars, userVars, Happening
<1>11. Starts'
  BY <1>1, <1>2, <1>3, <1>4, <1>5, <1>6, ConnectorConstants DEF Inv, Types, Phases, Queues, Starts, Attempts, Events, Lives, Stops, StartQueued, Connecting, Singles, connectorVars, clientVars, loopVars, userVars, Happening
<1>12. Attempts'
  BY <1>1, <1>2, <1>3, <1>4, <1>5, <1>6, ConnectorConstants DEF Inv, Types, Phases, Queues, Starts, Attempts, Events, Lives, Stops, StartQueued, Connecting, Singles, connectorVars, clientVars, loopVars, userVars, Happening
<1>13. Events'
  <2>1. CASE active' = <<>>
    BY <2>1 DEF Events
  <2>2. ASSUME NEW e \in Happening, active' = <<e>> PROVE Events'
    <3>1. /\ e \in {"write", "error", "retry", "close"}
          /\ e \in {"write", "error"} => channel = "registered"
          /\ e = "retry" => retryTimer # None
          /\ e = "close" => conn = "up"
      BY <2>2 DEF Happening
    <3>2. \A d : active' = <<d>> => d = e
      BY <2>2
    <3>. QED
      BY <1>2, <1>4, <1>6, <2>2, <3>1, <3>2 DEF Events, connectorVars, clientVars
  <2>. QED
    BY <1>5, <2>1, <2>2
<1>14. Lives'
  BY <1>1, <1>2, <1>3, <1>4, <1>5, <1>6, ConnectorConstants DEF Inv, Types, Phases, Queues, Starts, Attempts, Events, Lives, Stops, StartQueued, Connecting, Singles, connectorVars, clientVars, loopVars, userVars, Happening
<1>15. Stops'
  BY <1>1, <1>2, <1>3, <1>4, <1>5, <1>6, ConnectorConstants DEF Inv, Types, Phases, Queues, Starts, Attempts, Events, Lives, Stops, StartQueued, Connecting, Singles, connectorVars, clientVars, loopVars, userVars, Happening
<1>. QED
  BY <1>7, <1>8, <1>9, <1>10, <1>11, <1>12, <1>13, <1>14, <1>15 DEF Inv

(***************************************************************************)
(* A thread begins a call.                                                 *)
(***************************************************************************)
LEMMA ThreadCallsKeeps ==
  ASSUME Inv, MaxConnects <= 1, NEW t \in Threads, ThreadCalls(t)
  PROVE  Inv'
<1>1. IsQueue(pending) /\ IsQueue(batch)
  BY DEF Inv, Queues
<1>2. client = "alive" /\ tpc[t] = <<"out", 0>>
  BY DEF ThreadCalls
<1>3. tpc \in [Threads -> {<<"out", 0>>, <<"disconnect", 1>>} \cup ({"connect", "stop"} \X (1 .. 3))]
  BY DEF Inv, Types
<1>4. \/ /\ connects = 0 /\ connects' = 1 /\ 1 <= MaxConnects
         /\ \A u \in Threads : tpc[u] = <<"out", 0>>
         /\ tpc' = [tpc EXCEPT ![t] = <<"connect", 1>>]
      \/ /\ connects' = connects
         /\ \A u \in Threads : tpc[u][1] # "connect"
         /\ \E op \in {"stop", "disconnect"} : tpc' = [tpc EXCEPT ![t] = <<op, 1>>]
  BY TcpClientConstants DEF ThreadCalls, NoCall, NoConnect, Inv, Types
<1>5. UNCHANGED <<connectorVars, todo, pending, failed, gaveUp, clientVars, loopVars, stopped>>
  BY DEF ThreadCalls
<1>6. (failed = {})'
  BY <1>1, <1>2, <1>3, <1>4, <1>5, ConnectorConstants DEF Inv, Types, Phases, Queues, Starts, Attempts, Events, Lives, Stops, StartQueued, Connecting, Singles, connectorVars, clientVars, loopVars, userVars
<1>7. Types'
  BY <1>1, <1>2, <1>3, <1>4, <1>5, ConnectorConstants DEF Inv, Types, Phases, Queues, Starts, Attempts, Events, Lives, Stops, StartQueued, Connecting, Singles, connectorVars, clientVars, loopVars, userVars
<1>8. Phases'
  BY <1>1, <1>2, <1>3, <1>4, <1>5, ConnectorConstants DEF Inv, Types, Phases, Queues, Starts, Attempts, Events, Lives, Stops, StartQueued, Connecting, Singles, connectorVars, clientVars, loopVars, userVars
<1>9. Queues'
  BY <1>1, <1>2, <1>3, <1>4, <1>5, ConnectorConstants DEF Inv, Types, Phases, Queues, Starts, Attempts, Events, Lives, Stops, StartQueued, Connecting, Singles, connectorVars, clientVars, loopVars, userVars
<1>10. Starts'
  BY <1>1, <1>2, <1>3, <1>4, <1>5, ConnectorConstants DEF Inv, Types, Phases, Queues, Starts, Attempts, Events, Lives, Stops, StartQueued, Connecting, Singles, connectorVars, clientVars, loopVars, userVars
<1>11. Attempts'
  BY <1>1, <1>2, <1>3, <1>4, <1>5, ConnectorConstants DEF Inv, Types, Phases, Queues, Starts, Attempts, Events, Lives, Stops, StartQueued, Connecting, Singles, connectorVars, clientVars, loopVars, userVars
<1>12. Events'
  BY <1>1, <1>2, <1>3, <1>4, <1>5, ConnectorConstants DEF Inv, Types, Phases, Queues, Starts, Attempts, Events, Lives, Stops, StartQueued, Connecting, Singles, connectorVars, clientVars, loopVars, userVars
<1>13. Lives'
  BY <1>1, <1>2, <1>3, <1>4, <1>5, ConnectorConstants DEF Inv, Types, Phases, Queues, Starts, Attempts, Events, Lives, Stops, StartQueued, Connecting, Singles, connectorVars, clientVars, loopVars, userVars
<1>14. Stops'
  BY <1>1, <1>2, <1>3, <1>4, <1>5, ConnectorConstants DEF Inv, Types, Phases, Queues, Starts, Attempts, Events, Lives, Stops, StartQueued, Connecting, Singles, connectorVars, clientVars, loopVars, userVars
<1>. QED
  BY <1>6, <1>7, <1>8, <1>9, <1>10, <1>11, <1>12, <1>13, <1>14 DEF Inv

(***************************************************************************)
(* A thread assigns TcpClient's connect_.                                  *)
(***************************************************************************)
LEMMA ThreadSetsRetryingKeeps ==
  ASSUME Inv, NEW t \in Threads, ThreadSetsRetrying(t)
  PROVE  Inv'
<1>1. IsQueue(pending) /\ IsQueue(batch)
  BY DEF Inv, Queues
<1>2. (failed = {})'
  BY <1>1, ConnectorConstants DEF Inv, Types, Phases, Queues, Starts, Attempts, Events, Lives, Stops, StartQueued, Connecting, Singles, ThreadSetsRetrying, connectorVars, clientVars, loopVars, userVars
<1>3. Types'
  BY <1>1, ConnectorConstants DEF Inv, Types, Phases, Queues, Starts, Attempts, Events, Lives, Stops, StartQueued, Connecting, Singles, ThreadSetsRetrying, connectorVars, clientVars, loopVars, userVars
<1>4. Phases'
  BY <1>1, ConnectorConstants DEF Inv, Types, Phases, Queues, Starts, Attempts, Events, Lives, Stops, StartQueued, Connecting, Singles, ThreadSetsRetrying, connectorVars, clientVars, loopVars, userVars
<1>5. Queues'
  BY <1>1, ConnectorConstants DEF Inv, Types, Phases, Queues, Starts, Attempts, Events, Lives, Stops, StartQueued, Connecting, Singles, ThreadSetsRetrying, connectorVars, clientVars, loopVars, userVars
<1>6. Starts'
  BY <1>1, ConnectorConstants DEF Inv, Types, Phases, Queues, Starts, Attempts, Events, Lives, Stops, StartQueued, Connecting, Singles, ThreadSetsRetrying, connectorVars, clientVars, loopVars, userVars
<1>7. Attempts'
  BY <1>1, ConnectorConstants DEF Inv, Types, Phases, Queues, Starts, Attempts, Events, Lives, Stops, StartQueued, Connecting, Singles, ThreadSetsRetrying, connectorVars, clientVars, loopVars, userVars
<1>8. Events'
  BY <1>1, ConnectorConstants DEF Inv, Types, Phases, Queues, Starts, Attempts, Events, Lives, Stops, StartQueued, Connecting, Singles, ThreadSetsRetrying, connectorVars, clientVars, loopVars, userVars
<1>9. Lives'
  BY <1>1, ConnectorConstants DEF Inv, Types, Phases, Queues, Starts, Attempts, Events, Lives, Stops, StartQueued, Connecting, Singles, ThreadSetsRetrying, connectorVars, clientVars, loopVars, userVars
<1>10. Stops'
  BY <1>1, ConnectorConstants DEF Inv, Types, Phases, Queues, Starts, Attempts, Events, Lives, Stops, StartQueued, Connecting, Singles, ThreadSetsRetrying, connectorVars, clientVars, loopVars, userVars
<1>. QED
  BY <1>2, <1>3, <1>4, <1>5, <1>6, <1>7, <1>8, <1>9, <1>10 DEF Inv

(***************************************************************************)
(* A thread assigns Connector's connect_.                                  *)
(***************************************************************************)
LEMMA ThreadSetsWantedKeeps ==
  ASSUME Inv, NEW t \in Threads, ThreadSetsWanted(t)
  PROVE  Inv'
<1>1. IsQueue(pending) /\ IsQueue(batch)
  BY DEF Inv, Queues
<1>2. (failed = {})'
  BY <1>1, ConnectorConstants DEF Inv, Types, Phases, Queues, Starts, Attempts, Events, Lives, Stops, StartQueued, Connecting, Singles, ThreadSetsWanted, connectorVars, clientVars, loopVars, userVars
<1>3. Types'
  BY <1>1, ConnectorConstants DEF Inv, Types, Phases, Queues, Starts, Attempts, Events, Lives, Stops, StartQueued, Connecting, Singles, ThreadSetsWanted, connectorVars, clientVars, loopVars, userVars
<1>4. Phases'
  BY <1>1, ConnectorConstants DEF Inv, Types, Phases, Queues, Starts, Attempts, Events, Lives, Stops, StartQueued, Connecting, Singles, ThreadSetsWanted, connectorVars, clientVars, loopVars, userVars
<1>5. Queues'
  BY <1>1, ConnectorConstants DEF Inv, Types, Phases, Queues, Starts, Attempts, Events, Lives, Stops, StartQueued, Connecting, Singles, ThreadSetsWanted, connectorVars, clientVars, loopVars, userVars
<1>6. Starts'
  BY <1>1, ConnectorConstants DEF Inv, Types, Phases, Queues, Starts, Attempts, Events, Lives, Stops, StartQueued, Connecting, Singles, ThreadSetsWanted, connectorVars, clientVars, loopVars, userVars
<1>7. Attempts'
  BY <1>1, ConnectorConstants DEF Inv, Types, Phases, Queues, Starts, Attempts, Events, Lives, Stops, StartQueued, Connecting, Singles, ThreadSetsWanted, connectorVars, clientVars, loopVars, userVars
<1>8. Events'
  BY <1>1, ConnectorConstants DEF Inv, Types, Phases, Queues, Starts, Attempts, Events, Lives, Stops, StartQueued, Connecting, Singles, ThreadSetsWanted, connectorVars, clientVars, loopVars, userVars
<1>9. Lives'
  BY <1>1, ConnectorConstants DEF Inv, Types, Phases, Queues, Starts, Attempts, Events, Lives, Stops, StartQueued, Connecting, Singles, ThreadSetsWanted, connectorVars, clientVars, loopVars, userVars
<1>10. Stops'
  BY <1>1, ConnectorConstants DEF Inv, Types, Phases, Queues, Starts, Attempts, Events, Lives, Stops, StartQueued, Connecting, Singles, ThreadSetsWanted, connectorVars, clientVars, loopVars, userVars
<1>. QED
  BY <1>2, <1>3, <1>4, <1>5, <1>6, <1>7, <1>8, <1>9, <1>10 DEF Inv

(***************************************************************************)
(* A thread queues startInLoop() or cancelInLoop().                        *)
(***************************************************************************)
LEMMA ThreadQueuesKeeps ==
  ASSUME Inv, NEW t \in Threads, ThreadQueues(t)
  PROVE  Inv'
<1>1. IsQueue(pending) /\ IsQueue(batch)
  BY DEF Inv, Queues
<1>2. client = "alive" /\ tpc[t] # <<"out", 0>>
  BY DEF ThreadQueues, Inv, Types, Lives
<1>3. \/ Connecting(t) /\ pending' = Append(pending, <<"start", None>>)
      \/ ~ Connecting(t) /\ \E id \in {timerId, None} : pending' = Append(pending, <<"cancel", id>>)
  BY DEF ThreadQueues, Connecting
<1>4. ~ (Connecting(t) /\ StartQueued)
  BY DEF Inv, Starts
<1>5. /\ IsQueue(pending')
      /\ \A f \in Singles : Has(pending', f) <=> Has(pending, f) \/ (f = "start" /\ Connecting(t))
  <2>1. CASE Connecting(t)
    <3>1. pending' = Append(pending, <<"start", None>>) /\ ~ Has(pending, "start")
      BY <1>3, <1>4, <2>1 DEF StartQueued
    <3>. QED
      BY <1>1, <2>1, <3>1, QueueAppend
  <2>2. CASE ~ Connecting(t)
    <3>1. PICK id : pending' = Append(pending, <<"cancel", id>>)
      BY <1>3, <2>2
    <3>2. "cancel" \notin Singles
      BY DEF Singles
    <3>. QED
      BY <1>1, <2>2, <3>1, <3>2, QueueAppend
  <2>. QED
    BY <2>1, <2>2
<1>6. /\ tpc' = [tpc EXCEPT ![t] = <<"out", 0>>] /\ tpc[t][2] = 3
      /\ UNCHANGED <<connectorVars, todo, failed, gaveUp, clientVars, loopVars, connects, calls,
                     stopped>>
  BY DEF ThreadQueues
<1>7. tpc[t] # <<"connect", 2>> /\ \A u \in Threads : u # t => tpc'[u] = tpc[u]
  BY <1>6 DEF Inv, Types
<1>8. (failed = {})'
  BY <1>1, <1>2, <1>3, <1>4, <1>5, <1>6, <1>7, ConnectorConstants DEF Inv, Types, Phases, Queues, Starts, Attempts, Events, Lives, Stops, StartQueued, Connecting, Singles, connectorVars, clientVars, loopVars, userVars
<1>9. Types'
  BY <1>1, <1>2, <1>3, <1>4, <1>5, <1>6, <1>7, ConnectorConstants DEF Inv, Types, Phases, Queues, Starts, Attempts, Events, Lives, Stops, StartQueued, Connecting, Singles, connectorVars, clientVars, loopVars, userVars
<1>10. Phases'
  BY <1>1, <1>2, <1>3, <1>4, <1>5, <1>6, <1>7, ConnectorConstants DEF Inv, Types, Phases, Queues, Starts, Attempts, Events, Lives, Stops, StartQueued, Connecting, Singles, connectorVars, clientVars, loopVars, userVars
<1>11. Queues'
  BY <1>1, <1>2, <1>3, <1>4, <1>5, <1>6, <1>7, ConnectorConstants DEF Inv, Types, Phases, Queues, Starts, Attempts, Events, Lives, Stops, StartQueued, Connecting, Singles, connectorVars, clientVars, loopVars, userVars
<1>12. Starts'
  BY <1>1, <1>2, <1>3, <1>4, <1>5, <1>6, <1>7, ConnectorConstants DEF Inv, Types, Phases, Queues, Starts, Attempts, Events, Lives, Stops, StartQueued, Connecting, Singles, connectorVars, clientVars, loopVars, userVars
<1>13. Attempts'
  BY <1>1, <1>2, <1>3, <1>4, <1>5, <1>6, <1>7, ConnectorConstants DEF Inv, Types, Phases, Queues, Starts, Attempts, Events, Lives, Stops, StartQueued, Connecting, Singles, connectorVars, clientVars, loopVars, userVars
<1>14. Events'
  BY <1>1, <1>2, <1>3, <1>4, <1>5, <1>6, <1>7, ConnectorConstants DEF Inv, Types, Phases, Queues, Starts, Attempts, Events, Lives, Stops, StartQueued, Connecting, Singles, connectorVars, clientVars, loopVars, userVars
<1>15. Lives'
  BY <1>1, <1>2, <1>3, <1>4, <1>5, <1>6, <1>7, ConnectorConstants DEF Inv, Types, Phases, Queues, Starts, Attempts, Events, Lives, Stops, StartQueued, Connecting, Singles, connectorVars, clientVars, loopVars, userVars
<1>16. Stops'
  <2>1. tpc'[t] = <<"out", 0>>
    BY <1>6 DEF Inv, Types
  <2>. QED
    BY <1>6, <1>7, <2>1 DEF Inv, Stops, connectorVars, clientVars
<1>. QED
  BY <1>8, <1>9, <1>10, <1>11, <1>12, <1>13, <1>14, <1>15, <1>16 DEF Inv

-----------------------------------------------------------------------------
(* The theorems *)

LEMMA InitHolds == Init => Inv
<1>. SUFFICES ASSUME Init PROVE Inv
  OBVIOUS
<1>1. pending = <<>> /\ batch = <<>> /\ IsQueue(<<>>) /\ \A f \in Singles : ~ Has(<<>>, f)
  BY QueueEmpty DEF Init, ConnectorInit
<1>2. failed = {} /\ Types
  BY DEF Init, ConnectorInit, Types
<1>3. Phases /\ Queues
  BY <1>1, ConnectorConstants DEF Init, ConnectorInit, Phases, Queues, Singles
<1>4. Starts
  BY <1>1, TcpClientConstants DEF Init, ConnectorInit, Starts, StartQueued, Singles, Connecting
<1>5. Attempts /\ Events /\ Lives /\ Stops
  BY <1>1, ConnectorConstants
  DEF Init, ConnectorInit, Attempts, Events, Lives, Stops, StartQueued, Singles
<1>. QED
  BY <1>2, <1>3, <1>4, <1>5 DEF Inv

(***************************************************************************)
(* Nothing that the invariant is about changes with a stuttering step.     *)
(***************************************************************************)
LEMMA StutterKeeps == Inv /\ UNCHANGED vars => Inv'
<1>. SUFFICES ASSUME Inv, UNCHANGED vars PROVE Inv'
  OBVIOUS
<1>1. /\ UNCHANGED <<wanted, state, channel, retryTimer, todo, pending, failed, retrying>>
      /\ UNCHANGED <<connection, conn, closeCb, client, connector, release, settled>>
      /\ UNCHANGED <<phase, active, batch, user, tpc, connects, stopped>>
  BY DEF vars, connectorVars, clientVars, loopVars, userVars
<1>2. (failed = {})' /\ Types' /\ Phases' /\ Queues'
  BY <1>1 DEF Inv, Types, Phases, Queues
<1>3. Starts' /\ Attempts' /\ Events'
  BY <1>1 DEF Inv, Starts, StartQueued, Connecting, Attempts, Events
<1>4. Lives' /\ Stops'
  BY <1>1 DEF Inv, Lives, StartQueued, Stops
<1>. QED
  BY <1>2, <1>3, <1>4 DEF Inv

(***************************************************************************)
(* Whatever the loop does, or a thread.                                    *)
(***************************************************************************)
LEMMA LoopKeeps == Inv /\ ~ Dangling /\ LoopStep => Inv'
<1>. SUFFICES ASSUME Inv, ~ Dangling, LoopStep PROVE Inv'
  OBVIOUS
<1>1. CASE TakeFunctors
  BY <1>1, TakeFunctorsKeeps
<1>2. CASE CallbackReturns
  BY <1>2, CallbackReturnsKeeps
<1>3. CASE ConnectorWrites
  BY <1>3, ConnectorWritesKeeps
<1>4. CASE ConnectorFails
  BY <1>4, ConnectorFailsKeeps
<1>5. CASE RetryExpires
  BY <1>5, RetryExpiresKeeps
<1>6. CASE CallerStarts
  BY <1>6, CallerStartsKeeps
<1>7. CASE ConnectorConnects
  BY <1>7, ConnectorConnectsKeeps
<1>8. CASE CallStart
  BY <1>8, CallStartKeeps
<1>9. CASE CallReset
  BY <1>9, CallResetKeeps
<1>10. CASE CallCancel
  BY <1>10, CallCancelKeeps
<1>11. CASE NewConnection
  BY <1>11, NewConnectionKeeps
<1>12. CASE HandleClose
  BY <1>12, HandleCloseKeeps
<1>13. CASE RestartConnector
  BY <1>13, RestartConnectorKeeps
<1>14. CASE CallDestroy
  BY <1>14, CallDestroyKeeps
<1>15. CASE ReleaseExpires
  BY <1>15, ReleaseExpiresKeeps
<1>. QED
  BY <1>1, <1>2, <1>3, <1>4, <1>5, <1>6, <1>7, <1>8, <1>9, <1>10, <1>11, <1>12, <1>13, <1>14, <1>15 DEF LoopStep

LEMMA NextKeeps ==
  ASSUME MaxConnects <= 1, Inv, [Next]_vars
  PROVE  Inv'
<1>1. CASE Poll
  BY <1>1, PollKeeps
<1>2. CASE ~ Dangling /\ LoopStep
  BY <1>2, LoopKeeps
<1>3. CASE UserDestroys
  BY <1>3, UserDestroysKeeps
<1>4. CASE LoopConnects
  BY <1>4, LoopConnectsKeeps
<1>5. CASE CallbackStops
  BY <1>5, CallbackStopsKeeps
<1>6. ASSUME NEW t \in Threads, ThreadCalls(t) PROVE Inv'
  BY <1>6, ThreadCallsKeeps
<1>7. ASSUME NEW t \in Threads, ThreadStep(t) PROVE Inv'
  BY <1>7, ThreadSetsRetryingKeeps, ThreadSetsWantedKeeps, ThreadQueuesKeeps DEF ThreadStep
<1>8. CASE UNCHANGED vars
  BY <1>8, StutterKeeps
<1>. QED
  BY <1>1, <1>2, <1>3, <1>4, <1>5, <1>6, <1>7, <1>8 DEF Next, Running

(***************************************************************************)
(* Invariance: if connect() is called at most once, whatever the threads   *)
(* do, the Connector does one thing at a time, poll() reports one event at *)
(* a time, and no functor that belongs to an attempt or to a connection is *)
(* queued twice.                                                           *)
(***************************************************************************)
THEOREM Invariance ==
  ASSUME MaxConnects <= 1
  PROVE  Spec => []Inv
<1>1. Inv /\ [Next]_vars => Inv'
  BY NextKeeps
<1>. QED
  BY <1>1, InitHolds, PTL DEF Spec

(***************************************************************************)
(* No assertion of Connector and TcpClient fails, if connect() is called   *)
(* at most once: startInLoop() and connecting() meet no attempt under way, *)
(* no retry timer is set while one is, an attempt ends in kConnecting, and *)
(* removeConnection() is called for the current connection.                *)
(***************************************************************************)
THEOREM AssertionsHold ==
  ASSUME MaxConnects <= 1
  PROVE  Spec => []NoAssertionFails
<1>1. Inv => NoAssertionFails
  BY ConnectorConstants DEF Inv, Attempts, NoAssertionFails
<1>. QED
  BY <1>1, Invariance, PTL

(***************************************************************************)
(* After the end of the client neither the connection nor the Connector    *)
(* leads back to it, and a Connector that was idle then leaves no timer,   *)
(* channel or functor behind.                                              *)
(***************************************************************************)
THEOREM NothingLeftDangling ==
  ASSUME MaxConnects <= 1
  PROVE  Spec => []NothingDangles
<1>1. Inv => NothingDangles
  <2>. SUFFICES ASSUME Inv PROVE NothingDangles
    OBVIOUS
  <2>1. client = "destroyed" => /\ conn = "up" => closeCb = "detached"
                                /\ todo \notin {"newConnection", "restart"}
                                /\ connector = "alive" => ~ wanted
    BY ConnectorConstants DEF Inv, Lives
  <2>2. ASSUME connector = "destroyed"
        PROVE  client = "destroyed" /\ retryTimer = None /\ todo = None
    BY <2>2 DEF Inv, Lives, Types
  <2>3. ASSUME connector = "destroyed", settled
        PROVE  ~ Dangling
    <3>1. channel = None /\ ~ StartQueued
      BY <2>2, <2>3 DEF Inv, Lives
    <3>2. \A f \in {"start", "reset"} : ~ Has(pending, f) /\ ~ Has(batch, f)
      BY <3>1, ConnectorConstants DEF Inv, Queues, StartQueued
    <3>3. \A f \in {"start", "reset"} : <<f, None>> \notin ToSet(pending) \cup ToSet(batch)
      BY <3>2, QueueHolds DEF Inv, Queues, Singles
    <3>. QED
      BY <3>1, <3>3 DEF Dangling, ConnectorFunctors, Functors
  <2>. QED
    BY <2>1, <2>2, <2>3 DEF NothingDangles
<1>. QED
  BY <1>1, Invariance, PTL

(***************************************************************************)
(* stop() is final, if connect() is called at most once: no step after it  *)
(* begins an attempt or makes a connection.                                *)
(***************************************************************************)
THEOREM StopHolds ==
  ASSUME MaxConnects <= 1
  PROVE  Spec => StopIsFinal
<1>1. ASSUME Inv, [Next]_vars, stopped, stopped'
      PROVE  /\ state' = "kConnecting" => state = "kConnecting"
             /\ conn' = "up" => conn = "up"
  <2>1. todo = None
    BY <1>1 DEF Inv, Stops
  <2>2. ~ NewConnection /\ ~ ConnectorConnects /\ ~ CallerStarts /\ ~ RestartConnector
    BY <2>1, ConnectorConstants
    DEF NewConnection, ConnectorConnects, Connect, CallerStarts, RestartConnector
  <2>3. LoopStep => /\ state' = "kConnecting" => state = "kConnecting"
                    /\ conn' = "up" => conn = "up"
    BY <2>2, RetryEffect
    DEF LoopStep, TakeFunctors, CallbackReturns, ConnectorWrites, HandleWrite, ConnectorFails,
        HandleError, RetryExpires, CallStart, CallReset, CallCancel, HandleClose, CallDestroy,
        ReleaseExpires, connectorVars, clientVars
  <2>4. (UNCHANGED vars \/ Poll \/ UserDestroys \/ LoopConnects \/ CallbackStops
         \/ \E t \in Threads : ThreadCalls(t) \/ ThreadStep(t)) => UNCHANGED <<state, conn>>
    BY DEF vars, Poll, UserDestroys, LoopConnects, CallbackStops, ThreadCalls, ThreadStep,
           ThreadSetsRetrying, ThreadSetsWanted, ThreadQueues, connectorVars, clientVars
  <2>. QED
    BY <1>1, <2>3, <2>4 DEF Next
<1>. QED
  BY <1>1, Invariance, PTL DEF Spec, StopIsFinal

=============================================================================

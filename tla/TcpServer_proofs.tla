-------------------------- MODULE TcpServer_proofs --------------------------
(***************************************************************************)
(* Proofs about the life of the connections of a TcpServer, for any        *)
(* clients, descriptors and I/O threads.  But for the types, they are      *)
(* about the uses that Discipline allows: user code runs in callbacks      *)
(* only, and if there are I/O threads a callback uses its own connection.  *)
(***************************************************************************)
EXTENDS TcpServer, FiniteSetTheorems, SequenceTheorems, WellFoundedInduction, TLAPS

(***************************************************************************)
(* The functors of a loop: what has been queued and what of it is being    *)
(* called.  None is in there twice.                                        *)
(***************************************************************************)
Line(p, b) == IsInjective(p) /\ IsInjective(b) /\ Range(p) \cap Range(b) = {}

Queued == [l \in Loops |-> Range(pending[l]) \cup Range(batch[l])]

\* What is queued for connection c in Q.
OpsOf(Q, c) == {op \in Calls : \E l \in Loops : <<op, c>> \in Q[l]}

-----------------------------------------------------------------------------
(* The inductive invariant *)

Lines == \A l \in Loops : Line(pending[l], batch[l])

\* What a functor may be queued for, and in which loop.
PlacedIn(Q, cs) ==
  \A l \in Loops : \A f \in Q[l] :
    /\ f \in {"establish", "remove", "destroy"} \X Conns
    /\ l = IF f[1] = "remove" THEN Base ELSE cs[f[2]].loop

Placed == PlacedIn(Queued, conn)

(***************************************************************************)
(* The life of a connection that is r, is in connections_ if m, and for    *)
(* which ops is queued: each stage has its functor.                        *)
(***************************************************************************)
Open(r) == r.state \in {"kConnected", "kDisconnecting"}

Starting(r, m, ops) ==
  /\ r.state = "kConnecting" /\ r.index = "kNew" /\ r.events = {}
  /\ r.loop # Base /\ m /\ ops = {"establish"}

Up(r, m, ops) ==
  Open(r) /\ r.index = "kAdded" /\ "read" \in r.events /\ m /\ ops = {}

Closing(r, m, ops) ==
  /\ Open(r) /\ r.index = "kDeleted" /\ r.events = {}
  /\ r.loop # Base /\ m /\ ops = {"remove"}

Closed(r, m, ops) ==
  /\ Open(r) /\ r.events \subseteq {"write"} /\ ~ m /\ ops = {"destroy"}
  /\ r.index = IF r.events = {} THEN "kDeleted" ELSE "kAdded"
  /\ Pool # <<>> => r.events = {}

Down(r, m, ops) ==
  /\ r.state = "kDisconnected" /\ r.index = "kNew" /\ r.events = {}
  /\ ~ m /\ ops = {}

Stage(r, m, ops) ==
  \/ Starting(r, m, ops) \/ Up(r, m, ops) \/ Closing(r, m, ops)
  \/ Closed(r, m, ops) \/ Down(r, m, ops)

Lives ==
  \A c \in Conns :
    IF c < nextConnId THEN Stage(conn[c], c \in connections, OpsOf(Queued, c))
    ELSE conn[c] = Unborn /\ c \notin connections /\ OpsOf(Queued, c) = {}

IsUp(c) == Up(conn[c], c \in connections, OpsOf(Queued, c))
IsDown(c) == conn[c].state = "kDisconnected"

\* Without I/O threads what is closed is destroyed before the next poll().
Phases ==
  /\ \A l \in Loops : IF phase[l] = "events" THEN batch[l] = <<>> ELSE active[l] = <<>>
  /\ Pool = <<>> /\ phase[Base] = "functors" =>
       \A c \in Conns : <<"destroy", c>> \notin Range(pending[Base])

\* Events are handled for connections that are not destroyed.
Actives ==
  \A l \in Loops : \A c \in Range(active[l]) \ {Listener} :
    /\ conn[c].loop = l
    /\ Open(conn[c])
    /\ "hup" \notin revents[c]
    /\ "in" \in revents[c] => IsUp(c)

\* No callback of a connection runs while it waits to be destroyed.
Users ==
  \A l \in Loops : user[l] # None =>
    /\ conn[user[l]].loop = l
    /\ Pool # <<>> => IsUp(user[l]) \/ IsDown(user[l])

Chans ==
  /\ \A l \in Loops, fd \in Fds : channels[l][fd] # None =>
       LET r == conn[channels[l][fd]] IN r.loop = l /\ r.fd = fd /\ r.index # "kNew"
  /\ \A c \in Conns : conn[c].index # "kNew" => channels[conn[c].loop][conn[c].fd] = c

Descriptors ==
  /\ \A c \in Live : conn[c].fd \in Fds
  /\ \A c, d \in Live : conn[c].fd = conn[d].fd => c = d

\* acceptChannel_ is active at most once, and only if a client may connect.
Listens ==
  /\ \A l \in Loops : IsInjective(active[l])
  /\ Listener \in Range(active[Base]) => nextConnId <= MaxConns

TypeInv == TypeOK /\ next <= nextConnId - 1 /\ Listens

Inv ==
  /\ TypeInv /\ failed = {}
  /\ Lines /\ Placed /\ Lives /\ Phases /\ Actives /\ Users /\ Chans /\ Descriptors

-----------------------------------------------------------------------------
(* Sequences and sets *)

LEMMA MinIs ==
  ASSUME NEW S, S \subseteq Nat, S # {}
  PROVE  Min(S) \in S
<1>1. \E x \in S : \A y \in S : ~ (<<y, x>> \in OpToRel(<, Nat))
  BY NatLessThanWellFounded, WFMin
<1>2. \A x, y \in Nat : y < x => <<y, x>> \in OpToRel(<, Nat)
  BY DEF OpToRel
<1>3. PICK x \in S : \A y \in S : ~ (<<y, x>> \in OpToRel(<, Nat))
  BY <1>1
<1>4. \A y \in S : ~ (y < x)
  BY <1>2, <1>3
<1>5. \A y \in S : x =< y
  BY <1>4
<1>. QED
  BY <1>5 DEF Min

LEMMA SetToSeqsIs ==
  ASSUME NEW S, IsFiniteSet(S), NEW s \in SetToSeqs(S)
  PROVE  s \in Seq(S) /\ IsInjective(s) /\ Range(s) \subseteq S
<1>1. Cardinality(S) \in Nat
  BY FS_CardinalityType
<1>2. /\ s \in [1 .. Cardinality(S) -> S]
      /\ \A i, j \in 1 .. Cardinality(S) : i # j => s[i] # s[j]
  BY DEF SetToSeqs
<1>. QED
  BY <1>1, <1>2 DEF IsInjective, Range

LEMMA AppendIs ==
  ASSUME NEW S, NEW q \in Seq(S), NEW e \in S
  PROVE  /\ Append(q, e) \in Seq(S)
         /\ Range(Append(q, e)) = Range(q) \cup {e}
         /\ IsInjective(q) /\ e \notin Range(q) => IsInjective(Append(q, e))
<1>. DEFINE r == Append(q, e)
            n == Len(q) + 1
<1>1. /\ r \in Seq(S) /\ r[n] = e /\ n \in DOMAIN r
      /\ \A i \in DOMAIN q : i \in DOMAIN r /\ r[i] = q[i]
      /\ \A i \in DOMAIN r : i \in DOMAIN q \/ i = n
  OBVIOUS
<1>. HIDE DEF r, n
<1>2. Range(r) = Range(q) \cup {e}
  BY <1>1 DEF Range
<1>3. IsInjective(q) /\ e \notin Range(q) => IsInjective(r)
  BY <1>1 DEF IsInjective, Range
<1>. QED
  BY <1>1, <1>2, <1>3 DEF r

LEMMA TailIs ==
  ASSUME NEW S, NEW q \in Seq(S), q # <<>>
  PROVE  /\ Tail(q) \in Seq(S)
         /\ Head(q) \in Range(q) /\ Head(q) \in S
         /\ Range(q) = Range(Tail(q)) \cup {Head(q)}
         /\ IsInjective(q) => IsInjective(Tail(q)) /\ Head(q) \notin Range(Tail(q))
<1>. DEFINE r == Tail(q)
<1>1. /\ r \in Seq(S)
      /\ Len(q) \in Nat /\ Len(q) >= 1
      /\ DOMAIN q = 1 .. Len(q) /\ DOMAIN r = 1 .. Len(q) - 1
      /\ Head(q) = q[1] /\ q[1] \in S
      /\ \A i \in 1 .. Len(q) - 1 : r[i] = q[i + 1]
  BY HeadTailProperties
<1>. HIDE DEF r
<1>2. /\ 1 \in DOMAIN q
      /\ \A i \in DOMAIN r : i + 1 \in DOMAIN q /\ i + 1 # 1 /\ r[i] = q[i + 1] /\ i \in Nat
      /\ \A i \in DOMAIN q : i # 1 => i - 1 \in DOMAIN r /\ (i - 1) + 1 = i
  BY <1>1
<1>3. Range(q) = Range(r) \cup {q[1]}
  <2>1. ASSUME NEW x \in Range(q), x # q[1] PROVE x \in Range(r)
    <3>1. PICK i \in DOMAIN q : x = q[i]
      BY <2>1 DEF Range
    <3>2. i - 1 \in DOMAIN r /\ r[i - 1] = q[i]
      BY <1>2, <2>1, <3>1
    <3>. QED
      BY <3>1, <3>2 DEF Range
  <2>2. \A x \in Range(r) : x \in Range(q)
    BY <1>2 DEF Range
  <2>3. q[1] \in Range(q)
    BY <1>2 DEF Range
  <2>. QED
    BY <2>1, <2>2, <2>3
<1>4. ASSUME IsInjective(q) PROVE IsInjective(r) /\ q[1] \notin Range(r)
  <2>1. ASSUME NEW i \in DOMAIN r, NEW j \in DOMAIN r, r[i] = r[j] PROVE i = j
    <3>1. i + 1 = j + 1
      BY <1>2, <1>4, <2>1 DEF IsInjective
    <3>. QED
      BY <1>2, <3>1
  <2>2. \A i \in DOMAIN r : r[i] # q[1]
    BY <1>2, <1>4 DEF IsInjective
  <2>. QED
    BY <2>1, <2>2 DEF IsInjective, Range
<1>. QED
  BY <1>1, <1>3, <1>4, <1>2 DEF r, Range

LEMMA RangeIs ==
  ASSUME NEW S, NEW q \in Seq(S)
  PROVE  Range(q) \subseteq S
BY DEF Range

LEMMA EmptyIs ==
  ASSUME NEW S, NEW q \in Seq(S), Range(q) = {}
  PROVE  q = <<>>
<1>1. ASSUME q # <<>> PROVE FALSE
  <2>1. Head(q) \in Range(q)
    BY <1>1, TailIs
  <2>. QED
    BY <2>1
<1>. QED
  BY <1>1

-----------------------------------------------------------------------------
(* Types *)

Connection == [loop   : Loops,
               fd     : Fds \cup {None},
               state  : {"kConnecting", "kConnected", "kDisconnecting", "kDisconnected"},
               events : SUBSET {"read", "write"},
               index  : {"kNew", "kAdded", "kDeleted"},
               output : BOOLEAN,
               shut   : BOOLEAN]

LEMMA ListenerIsNoConn == None \notin Conns /\ Listener \notin Conns /\ Base \in Loops
BY DEF None, Listener, Conns, Loops

LEMMA LiveType == TypeOK => Live \subseteq Conns
<1>. SUFFICES ASSUME TypeOK PROVE Live \subseteq Conns
  OBVIOUS
<1>1. connections \subseteq Conns /\ held \subseteq Conns
  BY DEF TypeOK
<1>2. \A l \in Loops : user[l] \in Conns \cup {None}
  BY DEF TypeOK
<1>3. \A t \in Threads : tpc[t] # <<"out">> => tpc[t][2] \in Conns
  BY DEF TypeOK
<1>4. \A f \in Functors : f[2] \in Conns
  <2>1. \A l \in Loops : pending[l] \in Seq(Calls \X Conns) /\ batch[l] \in Seq(Calls \X Conns)
    BY DEF TypeOK
  <2>2. \A l \in Loops : Range(pending[l]) \cup Range(batch[l]) \subseteq Calls \X Conns
    BY <2>1, RangeIs
  <2>. QED
    BY <2>2 DEF Functors
<1>. QED
  BY <1>1, <1>2, <1>3, <1>4 DEF Live

LEMMA ConnType == TypeOK => conn \in [Conns -> Connection]
BY DEF TypeOK, Connection

(***************************************************************************)
(* A channel is updated.                                                   *)
(***************************************************************************)
LEMMA WithEventsIs ==
  ASSUME NEW r \in Connection, NEW ev \in SUBSET {"read", "write"}
  PROVE  LET s == WithEvents(r, ev)
         IN  /\ s \in Connection
             /\ s.loop = r.loop /\ s.fd = r.fd /\ s.state = r.state /\ s.events = ev
             /\ s.index = IF r.index = "kAdded" /\ ev = {} THEN "kDeleted" ELSE "kAdded"
             /\ s.output = r.output /\ s.shut = r.shut
BY DEF WithEvents, Connection

LEMMA UpdateType ==
  ASSUME TypeOK, NEW c \in Conns, NEW r \in Connection, NEW ev \in SUBSET {"read", "write"},
         UpdateChannel(c, r, ev)
  PROVE  /\ conn' \in [Conns -> Connection]
         /\ channels' \in [Loops -> [Fds -> Conns \cup {None}]]
<1>1. conn' \in [Conns -> Connection]
  BY ConnType, WithEventsIs DEF UpdateChannel
<1>2. channels' \in [Loops -> [Fds -> Conns \cup {None}]]
  BY DEF UpdateChannel, TypeOK
<1>. QED
  BY <1>1, <1>2

LEMMA QueueType ==
  ASSUME TypeOK, NEW l \in Loops, NEW op \in Calls, NEW c \in Conns
  PROVE  Queue(l, op, c) \in [Loops -> Seq(Calls \X Conns)]
<1>1. pending \in [Loops -> Seq(Calls \X Conns)]
  BY DEF TypeOK
<1>2. Append(pending[l], <<op, c>>) \in Seq(Calls \X Conns)
  BY <1>1, AppendIs
<1>. QED
  BY <1>1, <1>2 DEF Queue

LEMMA FailingType == \A a : Failing(a) \subseteq DOMAIN a
BY DEF Failing

-----------------------------------------------------------------------------
(* The parts of the actions keep the types *)

ConnTypes ==
  /\ conn \in [Conns -> Connection]
  /\ channels \in [Loops -> [Fds -> Conns \cup {None}]]
  /\ failed \subseteq {"connecting", "open", "registered", "erased"}

LEMMA ShutdownType ==
  ASSUME NEW r \in Connection
  PROVE  /\ ShutdownInLoop(r) \in Connection
         /\ LET s == ShutdownInLoop(r)
            IN  s.loop = r.loop /\ s.fd = r.fd /\ s.state = r.state /\ s.events = r.events
                /\ s.index = r.index
BY DEF ShutdownInLoop, Connection

LEMMA EstablishType ==
  ASSUME TypeOK, NEW l \in Loops, NEW c \in Conns, NEW r \in Connection,
         ConnectEstablished(l, c, r)
  PROVE  /\ ConnTypes'
         /\ user' \in [Loops -> Conns \cup {None}]
         /\ held' \subseteq Conns
<1>1. PICK s \in Connection : s = [r EXCEPT !.state = "kConnected"]
  BY DEF Connection
<1>2. r.events \cup {"read"} \in SUBSET {"read", "write"}
  BY DEF Connection
<1>3. UpdateChannel(c, s, r.events \cup {"read"})
  BY <1>1 DEF ConnectEstablished
<1>4. /\ conn' \in [Conns -> Connection]
      /\ channels' \in [Loops -> [Fds -> Conns \cup {None}]]
  BY <1>2, <1>3, UpdateType
<1>5. failed' \subseteq {"connecting", "open", "registered", "erased"}
  BY DEF ConnectEstablished, Failing
<1>6. user' \in [Loops -> Conns \cup {None}] /\ held' \subseteq Conns
  BY DEF ConnectEstablished, TypeOK
<1>. QED
  BY <1>4, <1>5, <1>6 DEF ConnTypes

LEMMA OutputType ==
  ASSUME NEW r \in Connection, NEW b \in BOOLEAN
  PROVE  [r EXCEPT !.output = b] \in Connection
BY DEF Connection

LEMMA SendType ==
  ASSUME TypeOK, NEW c \in Conns, SendInLoop(c)
  PROVE  ConnTypes'
<1>1. conn \in [Conns -> Connection]
  BY ConnType
<1>2. failed' \subseteq {"connecting", "open", "registered", "erased"}
  BY DEF SendInLoop, Failing, TypeOK
<1>3. CASE UNCHANGED <<conn, channels>>
  BY <1>1, <1>2, <1>3 DEF ConnTypes, TypeOK
<1>4. CASE conn' = [conn EXCEPT ![c].output = TRUE] /\ UNCHANGED channels
  <2>1. [conn[c] EXCEPT !.output = TRUE] \in Connection
    BY <1>1, OutputType
  <2>2. conn' \in [Conns -> Connection]
    BY <1>1, <1>4, <2>1
  <2>. QED
    BY <1>2, <1>4, <2>2 DEF ConnTypes, TypeOK
<1>5. CASE UpdateChannel(c, [conn[c] EXCEPT !.output = TRUE], conn[c].events \cup {"write"})
  <2>1. PICK s \in Connection : s = [conn[c] EXCEPT !.output = TRUE]
    BY <1>1, OutputType
  <2>2. conn[c].events \cup {"write"} \in SUBSET {"read", "write"}
    BY <1>1 DEF Connection
  <2>3. UpdateChannel(c, s, conn[c].events \cup {"write"})
    BY <1>5, <2>1
  <2>. QED
    BY <1>2, <2>2, <2>3, UpdateType DEF ConnTypes
<1>. QED
  BY <1>3, <1>4, <1>5 DEF SendInLoop

LEMMA RemoveType ==
  ASSUME TypeOK, NEW c \in Conns, RemoveConnection(c)
  PROVE  connections' \subseteq Conns /\ pending' \in [Loops -> Seq(Calls \X Conns)]
<1>1. conn[c].loop \in Loops
  BY ConnType DEF Connection
<1>2. pending' \in [Loops -> Seq(Calls \X Conns)]
  BY <1>1, QueueType DEF RemoveConnection, Calls
<1>. QED
  BY <1>2 DEF RemoveConnection, TypeOK

LEMMA CloseType ==
  ASSUME TypeOK, NEW l \in Loops, NEW c \in Conns, HandleClose(l, c)
  PROVE  /\ ConnTypes'
         /\ connections' \subseteq Conns
         /\ pending' \in [Loops -> Seq(Calls \X Conns)]
<1>1. conn[c] \in Connection /\ {} \in SUBSET {"read", "write"}
  BY ConnType
<1>2. /\ conn' \in [Conns -> Connection]
      /\ channels' \in [Loops -> [Fds -> Conns \cup {None}]]
  BY <1>1, UpdateType DEF HandleClose
<1>3. failed' \subseteq {"connecting", "open", "registered", "erased"}
  BY DEF HandleClose, Failing
<1>4. connections' \subseteq Conns /\ pending' \in [Loops -> Seq(Calls \X Conns)]
  <2>1. CASE l = Base
    BY <2>1, RemoveType DEF HandleClose
  <2>2. CASE l # Base
    <3>1. pending' = Queue(Base, "remove", c) /\ connections' = connections
      BY <2>2 DEF HandleClose
    <3>2. Base \in Loops /\ "remove" \in Calls
      BY ListenerIsNoConn DEF Calls
    <3>3. pending' \in [Loops -> Seq(Calls \X Conns)]
      BY <3>1, <3>2, QueueType
    <3>. QED
      BY <3>1, <3>3 DEF TypeOK
  <2>. QED
    BY <2>1, <2>2
<1>. QED
  BY <1>2, <1>3, <1>4 DEF ConnTypes

LEMMA HandlingType ==
  ASSUME TypeOK, Listens, NEW l \in Loops, NEW c \in Conns, NEW ev, HandlingEvent(l, c, ev)
  PROVE  /\ active' \in [Loops -> Seq(Conns \cup {Listener})]
         /\ revents' \in [Conns -> SUBSET {"hup", "in", "out"}]
         /\ Listens'
         /\ \A k \in Loops : Range(active'[k]) \subseteq Range(active[k])
<1>1. active \in [Loops -> Seq(Conns \cup {Listener})] /\ active[l] # <<>>
  BY DEF TypeOK, HandlingEvent, Handling
<1>2. /\ Tail(active[l]) \in Seq(Conns \cup {Listener})
      /\ Range(Tail(active[l])) \subseteq Range(active[l])
      /\ IsInjective(active[l]) => IsInjective(Tail(active[l]))
  BY <1>1, TailIs
<1>3. PICK q : active' = [active EXCEPT ![l] = q] /\ q \in {active[l], Tail(active[l])}
  BY DEF HandlingEvent
<1>4. active' \in [Loops -> Seq(Conns \cup {Listener})]
  BY <1>1, <1>2, <1>3
<1>5. \A k \in Loops : /\ Range(active'[k]) \subseteq Range(active[k])
                       /\ IsInjective(active'[k])
  BY <1>1, <1>2, <1>3 DEF Listens
<1>6. Listens'
  BY <1>5, ListenerIsNoConn DEF Listens, HandlingEvent
<1>7. revents' \in [Conns -> SUBSET {"hup", "in", "out"}]
  BY DEF TypeOK, HandlingEvent
<1>. QED
  BY <1>4, <1>5, <1>6, <1>7

LEMMA CallingType ==
  ASSUME TypeOK, NEW l \in Loops, NEW c \in Conns, NEW op, Calling(l, op, c)
  PROVE  batch' \in [Loops -> Seq(Calls \X Conns)]
<1>1. batch \in [Loops -> Seq(Calls \X Conns)] /\ batch[l] # <<>>
  BY DEF TypeOK, Calling
<1>2. Tail(batch[l]) \in Seq(Calls \X Conns)
  BY <1>1, TailIs
<1>. QED
  BY <1>1, <1>2 DEF Calling

LEMMA UnbornType == \A fd \in Fds \cup {None}, l \in Loops :
  [Unborn EXCEPT !.loop = l, !.fd = fd] \in Connection
BY ListenerIsNoConn DEF Unborn, Connection

LEMMA PoolType ==
  ASSUME TypeOK
  PROVE  /\ Pool # <<>> => Pool[next + 1] \in Range(Pool)
         /\ Pool # <<>> => Pool[next + 1] \in Loops /\ Pool[next + 1] # Base
         /\ NextIndex \in {0, next + 1}
         /\ NextIndex = 0 \/ NextIndex < Len(Pool)
<1>1. Pool \in Seq(Range(Pool)) /\ Len(Pool) \in Nat /\ next \in Nat
  BY ServerConstants DEF TypeOK
<1>2. NextIndex \in {0, next + 1} /\ (NextIndex = 0 \/ NextIndex < Len(Pool))
  BY <1>1 DEF NextIndex
<1>3. ASSUME Pool # <<>> PROVE next + 1 \in DOMAIN Pool
  <2>1. Len(Pool) # 0 /\ DOMAIN Pool = 1 .. Len(Pool)
    BY <1>1, <1>3
  <2>2. next + 1 \in 1 .. Len(Pool)
    BY <1>1, <2>1 DEF TypeOK
  <2>. QED
    BY <2>1, <2>2
<1>4. Pool # <<>> => Pool[next + 1] \in Range(Pool)
  BY <1>3 DEF Range
<1>. QED
  BY <1>2, <1>4, ServerConstants DEF Loops

-----------------------------------------------------------------------------
(* The actions keep the types *)

LEMMA InitType == Init => TypeInv
<1>. SUFFICES ASSUME Init PROVE TypeInv
  OBVIOUS
<1>1. Unborn \in Connection
  BY ListenerIsNoConn DEF Unborn, Connection
<1>2. conn \in [Conns -> Connection]
  BY <1>1 DEF Init
<1>3. /\ nextConnId \in 1 .. MaxConns + 1
      /\ next \in 0 .. MaxConns /\ (next = 0 \/ next < Len(Pool)) /\ next <= nextConnId - 1
  BY ServerConstants DEF Init
<1>4. /\ channels \in [Loops -> [Fds -> Conns \cup {None}]]
      /\ peer \in [Conns -> {"open", "fin", "rst", "dead"}]
      /\ phase \in [Loops -> {"events", "functors"}]
      /\ revents \in [Conns -> SUBSET {"hup", "in", "out"}]
      /\ user \in [Loops -> Conns \cup {None}]
  BY DEF Init
<1>5. /\ active \in [Loops -> Seq(Conns \cup {Listener})]
      /\ pending \in [Loops -> Seq(Calls \X Conns)]
      /\ batch \in [Loops -> Seq(Calls \X Conns)]
  BY DEF Init
<1>6. /\ tpc \in [Threads -> {<<"out">>} \cup ({"send", "set", "shutdown"} \X Conns)]
      /\ connections \subseteq Conns /\ held \subseteq Conns
      /\ failed \subseteq {"connecting", "open", "registered", "erased"}
  BY DEF Init
<1>7. TypeOK
  BY <1>2, <1>3, <1>4, <1>5, <1>6 DEF TypeOK, Connection
<1>8. Listens
  <2>1. \A l \in Loops : active[l] = <<>>
    BY DEF Init
  <2>2. IsInjective(<<>>) /\ Range(<<>>) = {}
    BY DEF IsInjective, Range
  <2>. QED
    BY <2>1, <2>2, ListenerIsNoConn DEF Listens
<1>. QED
  BY <1>3, <1>7, <1>8 DEF TypeInv

LEMMA ConnsFinite == IsFiniteSet(Conns \cup {Listener})
<1>1. IsFiniteSet(1 .. MaxConns)
  BY ServerConstants, FS_Interval
<1>. QED
  BY <1>1, FS_AddElement DEF Conns

(***************************************************************************)
(* What poll() makes active.                                               *)
(***************************************************************************)
LEMMA PollIs ==
  ASSUME TypeOK, NEW l \in Loops, Poll(l)
  PROVE  \E s \in Seq(Conns \cup {Listener}) :
           /\ active' = [active EXCEPT ![l] = s]
           /\ IsInjective(s)
           /\ Listener \in Range(s) => CanAccept(l)
           /\ \A c \in Range(s) \ {Listener} : c \in Polled(l)
           /\ \A c \in Polled(l) : revents'[c] \subseteq MayReport(c)
           /\ \A c \in Conns : c \notin Polled(l) => revents'[c] = revents[c]
           /\ revents' \in [Conns -> SUBSET {"hup", "in", "out"}]
<1>1. PICK rv \in [Polled(l) -> SUBSET {"hup", "in", "out"}],
           clients \in SUBSET {Listener} :
       /\ \A c \in Polled(l) : MustReport(c) \subseteq rv[c] /\ rv[c] \subseteq MayReport(c)
       /\ clients # {} => CanAccept(l)
       /\ \E s \in SetToSeqs(clients \cup {c \in Polled(l) : rv[c] # {}}) :
            active' = [active EXCEPT ![l] = s]
       /\ revents' = [c \in Conns |-> IF c \in Polled(l) THEN rv[c] ELSE revents[c]]
  BY DEF Poll
<1>. DEFINE ready == clients \cup {c \in Polled(l) : rv[c] # {}}
<1>2. PICK s \in SetToSeqs(ready) : active' = [active EXCEPT ![l] = s]
  BY <1>1
<1>3. Polled(l) \subseteq Conns
  BY LiveType DEF Polled
<1>4. ready \subseteq Conns \cup {Listener}
  BY <1>3
<1>5. IsFiniteSet(ready)
  BY <1>4, ConnsFinite, FS_Subset
<1>. HIDE DEF ready
<1>6. s \in Seq(ready) /\ IsInjective(s) /\ Range(s) \subseteq ready
  BY <1>2, <1>5, SetToSeqsIs
<1>7. s \in Seq(Conns \cup {Listener})
  BY <1>4, <1>6
<1>8. Listener \notin Polled(l)
  BY <1>3, ListenerIsNoConn
<1>9. Listener \in Range(s) => CanAccept(l)
  BY <1>1, <1>6, <1>8 DEF ready
<1>10. \A c \in Range(s) \ {Listener} : c \in Polled(l)
  BY <1>6 DEF ready
<1>11. /\ \A c \in Polled(l) : revents'[c] \subseteq MayReport(c)
       /\ \A c \in Conns : c \notin Polled(l) => revents'[c] = revents[c]
  BY <1>1, <1>3
<1>12. revents' \in [Conns -> SUBSET {"hup", "in", "out"}]
  BY <1>1 DEF TypeOK
<1>. QED
  BY <1>2, <1>6, <1>7, <1>9, <1>10, <1>11, <1>12

LEMMA PollType == ASSUME TypeInv, NEW l \in Loops, Poll(l) PROVE TypeInv'
<1>0. TypeOK /\ Listens
  BY DEF TypeInv
<1>1. PICK s \in Seq(Conns \cup {Listener}) :
           /\ active' = [active EXCEPT ![l] = s]
           /\ IsInjective(s)
           /\ Listener \in Range(s) => CanAccept(l)
           /\ revents' \in [Conns -> SUBSET {"hup", "in", "out"}]
  BY <1>0, PollIs
<1>2. active' \in [Loops -> Seq(Conns \cup {Listener})] /\ active \in [Loops -> Seq(Conns \cup {Listener})]
  BY <1>0, <1>1 DEF TypeOK
<1>3. TypeOK'
  BY <1>0, <1>1, <1>2 DEF TypeOK, Poll
<1>4. Listens'
  <2>1. \A k \in Loops : active'[k] = IF k = l THEN s ELSE active[k]
    BY <1>1, <1>2
  <2>. QED
    BY <1>0, <1>1, <2>1 DEF Listens, CanAccept, Poll
<1>. QED
  BY <1>3, <1>4 DEF TypeInv, Poll

LEMMA HandleEventType == ASSUME TypeInv, NEW l \in Loops, HandleEvent(l) PROVE TypeInv'
<1>0. TypeOK /\ Listens
  BY DEF TypeInv
<1>1. PICK c \in Conns : HandleHup(l, c) \/ HandleRead(l, c) \/ HandleWrite(l, c)
  BY DEF HandleEvent
<1>2. PICK ev : HandlingEvent(l, c, ev)
  BY <1>1 DEF HandleHup, HandleRead, HandleWrite
<1>3. /\ active' \in [Loops -> Seq(Conns \cup {Listener})]
      /\ revents' \in [Conns -> SUBSET {"hup", "in", "out"}]
      /\ Listens'
  BY <1>0, <1>2, HandlingType
<1>4. UNCHANGED <<nextConnId, next, phase, batch, held, tpc>>
  BY <1>2 DEF HandlingEvent
<1>5. TypeOK'
  <2>1. CASE HandleClose(l, c) /\ UNCHANGED <<peer, user>>
    <3>1. /\ ConnTypes'
          /\ connections' \subseteq Conns
          /\ pending' \in [Loops -> Seq(Calls \X Conns)]
      BY <1>0, <2>1, CloseType
    <3>. QED
      BY <1>0, <1>3, <1>4, <2>1, <3>1 DEF TypeOK, ConnTypes, Connection
  <2>2. CASE /\ user' = [user EXCEPT ![l] = c]
             /\ UNCHANGED <<connections, conn, channels, peer, pending, failed>>
    BY <1>0, <1>3, <1>4, <2>2 DEF TypeOK
  <2>3. CASE /\ peer' = [peer EXCEPT ![c] = "dead"]
             /\ UNCHANGED <<connections, conn, channels, user, pending, failed>>
    BY <1>0, <1>3, <1>4, <2>3 DEF TypeOK
  <2>4. CASE HandleWrite(l, c)
    <3>1. ConnTypes'
      <4>1. CASE UNCHANGED <<conn, channels, failed>>
        BY <1>0, <4>1 DEF ConnTypes, TypeOK, Connection
      <4>2. CASE ~ UNCHANGED <<conn, channels, failed>>
        <5>1. /\ UpdateChannel(c, [conn[c] EXCEPT !.output = FALSE,
                                                  !.shut = @ \/ conn[c].state = "kDisconnecting"],
                               conn[c].events \ {"write"})
              /\ failed' = Failing([registered |-> Registered(c, conn[c])])
          BY <2>4, <4>2 DEF HandleWrite
        <5>2. conn[c] \in Connection
          BY <1>0, ConnType
        <5>3. PICK r \in Connection :
                r = [conn[c] EXCEPT !.output = FALSE,
                                    !.shut = @ \/ conn[c].state = "kDisconnecting"]
          BY <5>2 DEF Connection
        <5>4. conn[c].events \ {"write"} \in SUBSET {"read", "write"}
          BY <5>2 DEF Connection
        <5>5. UpdateChannel(c, r, conn[c].events \ {"write"})
          BY <5>1, <5>3
        <5>6. failed' \subseteq {"connecting", "open", "registered", "erased"}
          BY <5>1 DEF Failing
        <5>. QED
          BY <1>0, <5>4, <5>5, <5>6, UpdateType DEF ConnTypes
      <4>. QED
        BY <4>1, <4>2
    <3>. QED
      BY <1>0, <1>3, <1>4, <2>4, <3>1 DEF TypeOK, ConnTypes, Connection, HandleWrite
  <2>. QED
    BY <1>1, <2>1, <2>2, <2>3, <2>4 DEF HandleHup, HandleRead
<1>. QED
  BY <1>3, <1>4, <1>5 DEF TypeInv

LEMMA TakeFunctorsType == ASSUME TypeInv, NEW l \in Loops, TakeFunctors(l) PROVE TypeInv'
<1>1. TypeOK'
  <2>1. batch' \in [Loops -> Seq(Calls \X Conns)] /\ pending' \in [Loops -> Seq(Calls \X Conns)]
    BY DEF TypeInv, TypeOK, TakeFunctors
  <2>. QED
    BY <2>1 DEF TypeInv, TypeOK, TakeFunctors
<1>. QED
  BY <1>1 DEF TypeInv, Listens, TakeFunctors

LEMMA EndType ==
  ASSUME NEW r \in Connection
  PROVE  [r EXCEPT !.state = "kDisconnected", !.events = {}, !.index = "kNew"] \in Connection
BY DEF Connection

LEMMA CallFunctorType == ASSUME TypeInv, NEW l \in Loops, CallFunctor(l) PROVE TypeInv'
<1>0. TypeOK /\ conn \in [Conns -> Connection]
  BY ConnType DEF TypeInv
<1>1. PICK c \in Conns : \/ CallEstablished(l, c) \/ CallRemove(l, c) \/ CallDestroyed(l, c)
                         \/ CallSend(l, c) \/ CallShutdown(l, c)
  BY DEF CallFunctor
<1>2. PICK op : Calling(l, op, c)
  BY <1>1 DEF CallEstablished, CallRemove, CallDestroyed, CallSend, CallShutdown
<1>3. batch' \in [Loops -> Seq(Calls \X Conns)]
  BY <1>0, <1>2, CallingType
<1>4. UNCHANGED <<nextConnId, next, peer, phase, active, revents, tpc>>
  BY <1>2 DEF Calling
<1>5. TypeOK'
  <2>1. CASE CallEstablished(l, c)
    <3>1. /\ ConnTypes'
          /\ user' \in [Loops -> Conns \cup {None}]
          /\ held' \subseteq Conns
      BY <1>0, <2>1, EstablishType DEF CallEstablished
    <3>. QED
      BY <1>0, <1>3, <1>4, <2>1, <3>1 DEF TypeOK, ConnTypes, Connection, CallEstablished
  <2>2. CASE CallRemove(l, c)
    <3>1. connections' \subseteq Conns /\ pending' \in [Loops -> Seq(Calls \X Conns)]
      BY <1>0, <2>2, RemoveType DEF CallRemove
    <3>2. failed' \subseteq {"connecting", "open", "registered", "erased"}
      BY <2>2 DEF CallRemove, Failing
    <3>. QED
      BY <1>0, <1>3, <1>4, <2>2, <3>1, <3>2 DEF TypeOK, CallRemove
  <2>3. CASE CallDestroyed(l, c)
    <3>1. [conn[c] EXCEPT !.state = "kDisconnected", !.events = {}, !.index = "kNew"] \in Connection
      BY <1>0, EndType
    <3>2. conn' \in [Conns -> Connection]
      <4>1. conn' = [conn EXCEPT ![c] = [@ EXCEPT !.state = "kDisconnected", !.events = {},
                                                  !.index = "kNew"]]
        BY <1>0, <2>3 DEF CallDestroyed
      <4>. QED
        BY <1>0, <3>1, <4>1
    <3>3. channels' \in [Loops -> [Fds -> Conns \cup {None}]] /\ user' \in [Loops -> Conns \cup {None}]
      BY <1>0, <2>3 DEF CallDestroyed, TypeOK
    <3>4. failed' \subseteq {"connecting", "open", "registered", "erased"}
      BY <2>3 DEF CallDestroyed, Failing
    <3>. QED
      BY <1>0, <1>3, <1>4, <2>3, <3>2, <3>3, <3>4 DEF TypeOK, Connection, CallDestroyed
  <2>4. CASE CallSend(l, c)
    <3>1. ConnTypes'
      BY <1>0, <2>4, SendType DEF CallSend
    <3>. QED
      BY <1>0, <1>3, <1>4, <2>4, <3>1 DEF TypeOK, ConnTypes, Connection, CallSend
  <2>5. CASE CallShutdown(l, c)
    <3>1. conn' \in [Conns -> Connection]
      BY <1>0, <2>5, ShutdownType DEF CallShutdown
    <3>. QED
      BY <1>0, <1>3, <1>4, <2>5, <3>1 DEF TypeOK, Connection, CallShutdown
  <2>. QED
    BY <1>1, <2>1, <2>2, <2>3, <2>4, <2>5
<1>. QED
  BY <1>4, <1>5 DEF TypeInv, Listens

(***************************************************************************)
(* newConnection(): which loop and which descriptor.                       *)
(***************************************************************************)
LEMMA NewIs ==
  ASSUME TypeOK, FreeFds # {}, NEW c \in Conns, c = nextConnId, NewConnection(Min(FreeFds))
  PROVE  \E k \in Loops, fd \in FreeFds, r \in Connection :
           /\ r = [Unborn EXCEPT !.loop = k, !.fd = fd]
           /\ k = Base <=> Pool = <<>>
           /\ fd \in Fds
           /\ nextConnId' = nextConnId + 1
           /\ next' = IF Pool = <<>> THEN next ELSE NextIndex
           /\ connections' = connections \cup {c}
           /\ IF k = Base
              THEN ConnectEstablished(Base, c, r) /\ UNCHANGED pending
              ELSE /\ conn' = [conn EXCEPT ![c] = r]
                   /\ pending' = Queue(k, "establish", c)
                   /\ UNCHANGED <<channels, user, held, failed>>
<1>1. PICK fd \in FreeFds : fd = Min(FreeFds)
  BY ServerConstants, MinIs DEF FreeFds
<1>2. fd \in Fds
  BY DEF FreeFds
<1>3. PICK k \in Loops : k = IF Pool = <<>> THEN Base ELSE Pool[next + 1]
  BY PoolType, ListenerIsNoConn
<1>4. k = Base <=> Pool = <<>>
  BY <1>3, PoolType
<1>5. PICK r \in Connection : r = [Unborn EXCEPT !.loop = k, !.fd = fd]
  BY <1>2, UnbornType
<1>6. /\ nextConnId' = nextConnId + 1
      /\ next' = IF Pool = <<>> THEN next ELSE NextIndex
      /\ connections' = connections \cup {c}
      /\ IF k = Base
         THEN ConnectEstablished(Base, c, r) /\ UNCHANGED pending
         ELSE /\ conn' = [conn EXCEPT ![c] = r]
              /\ pending' = Queue(k, "establish", c)
              /\ UNCHANGED <<channels, user, held, failed>>
  BY <1>1, <1>3, <1>5 DEF NewConnection
<1>. QED
  BY <1>2, <1>4, <1>5, <1>6

LEMMA AcceptType == ASSUME TypeInv, Accept PROVE TypeInv'
<1>0. TypeOK /\ Listens /\ next <= nextConnId - 1
  BY DEF TypeInv
<1>1. /\ active[Base] # <<>> /\ Listener = Head(active[Base])
      /\ active' = [active EXCEPT ![Base] = Tail(@)]
      /\ UNCHANGED <<peer, phase, revents, batch, tpc>>
  BY DEF Accept, Handling
<1>2. active \in [Loops -> Seq(Conns \cup {Listener})]
  BY <1>0 DEF TypeOK
<1>3. /\ Tail(active[Base]) \in Seq(Conns \cup {Listener})
      /\ Listener \in Range(active[Base])
      /\ Listener \notin Range(Tail(active[Base]))
      /\ IsInjective(Tail(active[Base]))
  BY <1>0, <1>1, <1>2, TailIs, ListenerIsNoConn DEF Listens
<1>4. active' \in [Loops -> Seq(Conns \cup {Listener})]
  BY <1>1, <1>2, <1>3
<1>5. Listens'
  <2>1. \A k \in Loops : active'[k] = IF k = Base THEN Tail(active[Base]) ELSE active[k]
    BY <1>1, <1>2
  <2>. QED
    BY <1>0, <1>3, <2>1, ListenerIsNoConn DEF Listens
<1>6. CASE UNCHANGED <<nextConnId, next, connections, conn, channels, user, pending, held, failed>>
  <2>1. TypeOK'
    BY <1>0, <1>1, <1>4, <1>6 DEF TypeOK
  <2>. QED
    BY <1>0, <1>5, <1>6, <2>1 DEF TypeInv
<1>7. CASE FreeFds # {} /\ NewConnection(Min(FreeFds))
  <2>1. nextConnId \in 1 .. MaxConns /\ nextConnId \in Conns
    BY <1>0, <1>3 DEF TypeOK, Listens, Conns
  <2>2. PICK c \in Conns : c = nextConnId
    BY <2>1
  <2>3. PICK k \in Loops, fd \in FreeFds, r \in Connection :
           /\ nextConnId' = nextConnId + 1
           /\ next' = IF Pool = <<>> THEN next ELSE NextIndex
           /\ connections' = connections \cup {c}
           /\ IF k = Base
              THEN ConnectEstablished(Base, c, r) /\ UNCHANGED pending
              ELSE /\ conn' = [conn EXCEPT ![c] = r]
                   /\ pending' = Queue(k, "establish", c)
                   /\ UNCHANGED <<channels, user, held, failed>>
    BY <1>0, <1>7, <2>2, NewIs
  <2>4. /\ nextConnId' \in 1 .. MaxConns + 1
        /\ next' \in 0 .. MaxConns
        /\ next' = 0 \/ next' < Len(Pool)
        /\ next' <= nextConnId' - 1
        /\ connections' \subseteq Conns
    <3>1. next \in Nat /\ MaxConns \in Nat /\ connections \subseteq Conns
      BY <1>0, ServerConstants DEF TypeOK
    <3>2. next' \in {0, next, next + 1} /\ (next' = 0 \/ next' < Len(Pool))
      BY <1>0, <2>3, PoolType DEF TypeOK
    <3>. QED
      BY <1>0, <2>1, <2>3, <3>1, <3>2
  <2>5. /\ ConnTypes'
        /\ user' \in [Loops -> Conns \cup {None}]
        /\ held' \subseteq Conns
        /\ pending' \in [Loops -> Seq(Calls \X Conns)]
    <3>1. CASE k = Base
      <4>1. ConnectEstablished(Base, c, r) /\ UNCHANGED pending
        BY <2>3, <3>1
      <4>2. ConnTypes' /\ user' \in [Loops -> Conns \cup {None}] /\ held' \subseteq Conns
        BY <1>0, <4>1, ListenerIsNoConn, EstablishType
      <4>. QED
        BY <1>0, <4>1, <4>2 DEF TypeOK
    <3>2. CASE k # Base
      <4>1. /\ conn' = [conn EXCEPT ![c] = r]
            /\ pending' = Queue(k, "establish", c)
            /\ UNCHANGED <<channels, user, held, failed>>
        BY <2>3, <3>2
      <4>2. conn' \in [Conns -> Connection]
        BY <1>0, <4>1, ConnType
      <4>3. pending' \in [Loops -> Seq(Calls \X Conns)]
        BY <1>0, <4>1, QueueType DEF Calls
      <4>. QED
        BY <1>0, <4>1, <4>2, <4>3 DEF ConnTypes, TypeOK
    <3>. QED
      BY <3>1, <3>2
  <2>6. TypeOK'
    BY <1>0, <1>1, <1>4, <2>4, <2>5 DEF TypeOK, ConnTypes, Connection
  <2>. QED
    BY <1>5, <2>4, <2>6 DEF TypeInv
<1>. QED
  BY <1>6, <1>7 DEF Accept

LEMMA UserType ==
  ASSUME TypeInv, NEW l \in Loops, NEW c \in Conns, UserSend(l, c) \/ UserShutdown(l, c)
  PROVE  TypeInv'
<1>0. TypeOK /\ conn \in [Conns -> Connection]
  BY ConnType DEF TypeInv
<1>1. CASE UserSend(l, c)
  <2>1. ConnTypes'
    BY <1>0, <1>1, SendType DEF UserSend
  <2>2. TypeOK'
    BY <1>0, <1>1, <2>1 DEF TypeOK, ConnTypes, Connection, UserSend, loopVars
  <2>. QED
    BY <1>1, <2>2 DEF TypeInv, Listens, UserSend, loopVars
<1>2. CASE UserShutdown(l, c)
  <2>1. [conn[c] EXCEPT !.state = "kDisconnecting"] \in Connection
    BY <1>0 DEF Connection
  <2>2. conn' \in [Conns -> Connection]
    BY <1>0, <1>2, <2>1, ShutdownType DEF UserShutdown
  <2>3. TypeOK'
    BY <1>0, <1>2, <2>2 DEF TypeOK, Connection, UserShutdown, loopVars
  <2>. QED
    BY <1>2, <2>3 DEF TypeInv, Listens, UserShutdown, loopVars
<1>. QED
  BY <1>1, <1>2

LEMMA CallbackReturnsType ==
  ASSUME TypeInv, NEW l \in Loops, CallbackReturns(l) PROVE TypeInv'
<1>1. TypeOK'
  BY DEF TypeInv, TypeOK, CallbackReturns
<1>. QED
  BY <1>1 DEF TypeInv, Listens, CallbackReturns

LEMMA ReleaseType == ASSUME TypeInv, NEW c \in Conns, Release(c) PROVE TypeInv'
<1>1. TypeOK'
  BY DEF TypeInv, TypeOK, Release, loopVars
<1>. QED
  BY <1>1 DEF TypeInv, Listens, Release, loopVars

LEMMA PeerEndsType == ASSUME TypeInv, NEW c \in Conns, PeerEnds(c) PROVE TypeInv'
<1>1. TypeOK'
  BY DEF TypeInv, TypeOK, PeerEnds, loopVars
<1>. QED
  BY <1>1 DEF TypeInv, Listens, PeerEnds, loopVars

\* What is left of the call of a user thread.
LEMMA CallsType ==
  ASSUME TypeOK, NEW t \in Threads, NEW call,
         call = <<"out">> \/ call \in {"send", "set", "shutdown"} \X Conns
  PROVE  [tpc EXCEPT ![t] = call]
           \in [Threads -> {<<"out">>} \cup ({"send", "set", "shutdown"} \X Conns)]
<1>1. tpc \in [Threads -> {<<"out">>} \cup ({"send", "set", "shutdown"} \X Conns)]
  BY DEF TypeOK
<1>. QED
  BY <1>1

LEMMA ThreadType ==
  ASSUME TypeInv, NEW t \in Threads, NEW c \in Conns,
         \/ ThreadTests(t, c) \/ ThreadSetsState(t, c)
         \/ \E op \in {"send", "shutdown"} : ThreadQueues(t, op, c)
  PROVE  TypeInv'
<1>0. TypeOK /\ conn \in [Conns -> Connection]
  BY ConnType DEF TypeInv
<1>1. CASE ThreadTests(t, c)
  <2>1. tpc' \in [Threads -> {<<"out">>} \cup ({"send", "set", "shutdown"} \X Conns)]
    <3>1. PICK call \in {"send", "set"} : tpc' = [tpc EXCEPT ![t] = <<call, c>>]
      BY <1>1 DEF ThreadTests, CallsOf
    <3>. QED
      BY <1>0, <3>1, CallsType
  <2>2. TypeOK'
    BY <1>0, <1>1, <2>1 DEF TypeOK, ThreadTests, loopVars
  <2>. QED
    BY <1>1, <2>2 DEF TypeInv, Listens, ThreadTests, loopVars
<1>2. CASE ThreadSetsState(t, c)
  <2>1. [conn[c] EXCEPT !.state = "kDisconnecting"] \in Connection
    BY <1>0 DEF Connection
  <2>2. conn' \in [Conns -> Connection]
    BY <1>0, <1>2, <2>1 DEF ThreadSetsState
  <2>3. tpc' \in [Threads -> {<<"out">>} \cup ({"send", "set", "shutdown"} \X Conns)]
    <3>1. tpc' = [tpc EXCEPT ![t] = <<"shutdown", c>>]
      BY <1>2 DEF ThreadSetsState
    <3>. QED
      BY <1>0, <3>1, CallsType
  <2>4. TypeOK'
    BY <1>0, <1>2, <2>2, <2>3 DEF TypeOK, Connection, ThreadSetsState, loopVars
  <2>. QED
    BY <1>2, <2>4 DEF TypeInv, Listens, ThreadSetsState, loopVars
<1>3. ASSUME NEW op \in {"send", "shutdown"}, ThreadQueues(t, op, c) PROVE TypeInv'
  <2>1. conn[c].loop \in Loops /\ op \in Calls
    BY <1>0 DEF Connection, Calls
  <2>2. pending' \in [Loops -> Seq(Calls \X Conns)]
    BY <1>0, <1>3, <2>1, QueueType DEF ThreadQueues
  <2>3. tpc' \in [Threads -> {<<"out">>} \cup ({"send", "set", "shutdown"} \X Conns)]
    <3>1. tpc' = [tpc EXCEPT ![t] = <<"out">>]
      BY <1>3 DEF ThreadQueues
    <3>. QED
      BY <1>0, <3>1, CallsType
  <2>4. TypeOK'
    BY <1>0, <1>3, <2>2, <2>3 DEF TypeOK, ThreadQueues, loopVars
  <2>. QED
    BY <1>3, <2>4 DEF TypeInv, Listens, ThreadQueues, loopVars
<1>. QED
  BY <1>1, <1>2, <1>3

LEMMA NextType == TypeInv /\ [Next]_vars => TypeInv'
<1>. SUFFICES ASSUME TypeInv, [Next]_vars PROVE TypeInv'
  OBVIOUS
<1>1. ASSUME NEW l \in Loops, PollTimesOut(l) PROVE UNCHANGED vars
  BY <1>1 DEF PollTimesOut
<1>2. CASE UNCHANGED vars
  <2>1. TypeOK'
    BY <1>2 DEF TypeInv, TypeOK, vars
  <2>. QED
    BY <1>2, <2>1 DEF TypeInv, Listens, vars
<1>3. ASSUME NEW l \in Loops, Poll(l) \/ PollTimesOut(l) \/ LoopStep(l) \/ CallbackReturns(l)
      PROVE  TypeInv'
  BY <1>1, <1>2, <1>3, PollType, HandleEventType, AcceptType, TakeFunctorsType, CallFunctorType,
     CallbackReturnsType DEF LoopStep
<1>4. CASE UserStep
  BY <1>4, UserType, ReleaseType, ThreadType DEF UserStep
<1>5. CASE \E c \in Conns : PeerEnds(c)
  BY <1>5, PeerEndsType
<1>. QED
  BY <1>2, <1>3, <1>4, <1>5 DEF Next

(***************************************************************************)
(* Type correctness, for any user threads and callbacks: in particular     *)
(* getNextLoop() stays within loops_, whatever their number, and           *)
(* newConnection() is called only for a client that has connected.         *)
(***************************************************************************)
THEOREM TypeCorrect == Spec => []TypeOK
<1>1. TypeInv => TypeOK
  BY DEF TypeInv
<1>. QED
  BY <1>1, InitType, NextType, PTL DEF Spec

-----------------------------------------------------------------------------
(* The functors queued *)

Items == Calls \X Conns

\* R is Q with f in loop l too.
Adds(Q, R, l, f) ==
  /\ \A k \in Loops : k # l => R[k] = Q[k]
  /\ R[l] = Q[l] \cup {f}

\* R is Q without f in loop l.
Takes(Q, R, l, f) ==
  /\ \A k \in Loops : k # l => R[k] = Q[k]
  /\ R[l] = Q[l] \ {f}

LEMMA QueuedType == TypeOK => Queued \in [Loops -> SUBSET Items]
<1>. SUFFICES ASSUME TypeOK PROVE Queued \in [Loops -> SUBSET Items]
  OBVIOUS
<1>1. \A l \in Loops : pending[l] \in Seq(Items) /\ batch[l] \in Seq(Items)
  BY DEF TypeOK, Items
<1>2. \A l \in Loops : Range(pending[l]) \cup Range(batch[l]) \subseteq Items
  BY <1>1, RangeIs
<1>. QED
  BY <1>2 DEF Queued

\* Functors c is the subject of, once one more is queued.
LEMMA OpsAdded ==
  ASSUME NEW Q, NEW R, NEW l \in Loops, NEW op \in Calls, NEW c \in Conns,
         Adds(Q, R, l, <<op, c>>)
  PROVE  /\ OpsOf(R, c) = OpsOf(Q, c) \cup {op}
         /\ \A d \in Conns \ {c} : OpsOf(R, d) = OpsOf(Q, d)
<1>1. \A d, o : <<o, d>> = <<op, c>> <=> o = op /\ d = c
  OBVIOUS
<1>2. ASSUME NEW d \in Conns, NEW o \in Calls
      PROVE  (\E k \in Loops : <<o, d>> \in R[k])
               <=> ((\E k \in Loops : <<o, d>> \in Q[k]) \/ <<o, d>> = <<op, c>>)
  <2>. DEFINE f == <<o, d>>
              g == <<op, c>>
  <2>1. Adds(Q, R, l, g)
    OBVIOUS
  <2>. HIDE DEF f, g
  <2>2. (\E k \in Loops : f \in R[k]) <=> ((\E k \in Loops : f \in Q[k]) \/ f = g)
    BY <2>1 DEF Adds
  <2>. QED
    BY <2>2 DEF f, g
<1>3. OpsOf(R, c) = OpsOf(Q, c) \cup {op}
  BY <1>1, <1>2 DEF OpsOf
<1>4. \A d \in Conns \ {c} : OpsOf(R, d) = OpsOf(Q, d)
  BY <1>1, <1>2 DEF OpsOf
<1>. QED
  BY <1>3, <1>4

\* Functors c is the subject of, once one that only loop l has is taken out.
LEMMA OpsTaken ==
  ASSUME NEW Q, NEW R, NEW l \in Loops, NEW op \in Calls, NEW c \in Conns,
         \A k \in Loops : <<op, c>> \in Q[k] => k = l,
         Takes(Q, R, l, <<op, c>>)
  PROVE  /\ OpsOf(R, c) = OpsOf(Q, c) \ {op}
         /\ \A d \in Conns \ {c} : OpsOf(R, d) = OpsOf(Q, d)
<1>1. \A d, o : <<o, d>> = <<op, c>> <=> o = op /\ d = c
  OBVIOUS
<1>2. ASSUME NEW d \in Conns, NEW o \in Calls
      PROVE  (\E k \in Loops : <<o, d>> \in R[k])
               <=> ((\E k \in Loops : <<o, d>> \in Q[k]) /\ <<o, d>> # <<op, c>>)
  <2>. DEFINE f == <<o, d>>
              g == <<op, c>>
  <2>1. Takes(Q, R, l, g) /\ \A k \in Loops : g \in Q[k] => k = l
    OBVIOUS
  <2>. HIDE DEF f, g
  <2>2. (\E k \in Loops : f \in R[k]) <=> ((\E k \in Loops : f \in Q[k]) /\ f # g)
    BY <2>1 DEF Takes
  <2>. QED
    BY <2>2 DEF f, g
<1>3. OpsOf(R, c) = OpsOf(Q, c) \ {op}
  BY <1>1, <1>2 DEF OpsOf
<1>4. \A d \in Conns \ {c} : OpsOf(R, d) = OpsOf(Q, d)
  BY <1>1, <1>2 DEF OpsOf
<1>. QED
  BY <1>3, <1>4

\* What is queued once the loops have taken their next functors.
Remaining == [k \in Loops |-> Range(pending[k]) \cup Range(batch'[k])]

(***************************************************************************)
(* queueInLoop() adds a functor that is not in the line.                   *)
(***************************************************************************)
LEMMA QueueIs ==
  ASSUME TypeOK, NEW l \in Loops, NEW op \in Calls, NEW c \in Conns,
         \A k \in Loops : Line(pending[k], batch'[k]),
         <<op, c>> \notin Remaining[l], pending' = Queue(l, op, c)
  PROVE  /\ Lines'
         /\ Adds(Remaining, Queued', l, <<op, c>>)
<1>1. /\ pending \in [Loops -> Seq(Items)]
      /\ <<op, c>> \in Items
  BY DEF TypeOK, Items
<1>2. PICK q : q = Append(pending[l], <<op, c>>)
  OBVIOUS
<1>3. /\ Range(q) = Range(pending[l]) \cup {<<op, c>>}
      /\ IsInjective(pending[l]) /\ <<op, c>> \notin Range(pending[l]) => IsInjective(q)
  BY <1>1, <1>2, AppendIs
<1>4. \A k \in Loops : pending'[k] = IF k = l THEN q ELSE pending[k]
  BY <1>1, <1>2 DEF Queue
<1>5. Remaining[l] = Range(pending[l]) \cup Range(batch'[l])
  BY DEF Remaining
<1>6. Lines'
  BY <1>3, <1>4, <1>5 DEF Lines, Line
<1>7. Adds(Remaining, Queued', l, <<op, c>>)
  BY <1>3, <1>4 DEF Queued, Remaining, Adds
<1>. QED
  BY <1>6, <1>7

(***************************************************************************)
(* A functor that is called is out of the line.                            *)
(***************************************************************************)
LEMMA CallingIs ==
  ASSUME TypeOK, Lines, NEW l \in Loops, NEW op, NEW c \in Conns, Calling(l, op, c)
  PROVE  /\ op \in Calls /\ <<op, c>> \in Queued[l]
         /\ \A k \in Loops : k # l => batch'[k] = batch[k]
         /\ \A k \in Loops : Line(pending[k], batch'[k])
         /\ Takes(Queued, Remaining, l, <<op, c>>)
<1>1. /\ batch \in [Loops -> Seq(Items)] /\ batch[l] # <<>> /\ Head(batch[l]) = <<op, c>>
      /\ batch[l] \in Seq(Items)
  BY DEF TypeOK, Items, Calling
<1>2. PICK q : q = Tail(batch[l])
  OBVIOUS
<1>3. /\ Head(batch[l]) \in Range(batch[l]) /\ Head(batch[l]) \in Items
      /\ Range(batch[l]) = Range(q) \cup {Head(batch[l])}
      /\ IsInjective(batch[l]) => IsInjective(q) /\ Head(batch[l]) \notin Range(q)
  BY <1>1, <1>2, TailIs
<1>4. /\ <<op, c>> \in Range(batch[l]) /\ <<op, c>> \in Items
      /\ Range(batch[l]) = Range(q) \cup {<<op, c>>}
      /\ IsInjective(batch[l]) => IsInjective(q) /\ <<op, c>> \notin Range(q)
  BY <1>1, <1>3
<1>5. \A k \in Loops : batch'[k] = IF k = l THEN q ELSE batch[k]
  BY <1>1, <1>2 DEF Calling
<1>6. \A k \in Loops : Line(pending[k], batch[k])
  BY DEF Lines
<1>7. \A k \in Loops : Line(pending[k], batch'[k])
  BY <1>4, <1>5, <1>6 DEF Line
<1>8. Takes(Queued, Remaining, l, <<op, c>>)
  BY <1>4, <1>5, <1>6 DEF Line, Queued, Remaining, Takes
<1>9. op \in Calls /\ <<op, c>> \in Queued[l]
  BY <1>4 DEF Items, Queued
<1>. QED
  BY <1>5, <1>7, <1>8, <1>9

-----------------------------------------------------------------------------
(* Steps that concern one connection *)

\* The uses of the callbacks and threads about which the theorems are.
Discipline ==
  /\ Threads = {}
  /\ Pool = <<>> \/ Callers \subseteq {"own"}

Referred ==
  \A c \in Conns : c \in Live <=> \/ c \in connections \/ c \in held
                                  \/ OpsOf(Queued, c) # {}
                                  \/ \E l \in Loops : user[l] = c

LEMMA LiveIs == Discipline /\ TypeOK /\ Placed => Referred
<1>. SUFFICES ASSUME Discipline, TypeOK, Placed, NEW c \in Conns
              PROVE  c \in Live <=> \/ c \in connections \/ c \in held
                                    \/ OpsOf(Queued, c) # {}
                                    \/ \E l \in Loops : user[l] = c
  BY DEF Referred
<1>1. \A l \in Loops : /\ Range(pending[l]) \cup Range(batch[l]) = Queued[l]
                       /\ Queued[l] \subseteq Items
  BY QueuedType DEF Queued
<1>2. Functors = UNION {Queued[l] : l \in Loops}
  BY <1>1 DEF Functors
<1>3. \A l \in Loops : \A f \in Queued[l] : f[1] # "shutdown"
  BY DEF Placed, PlacedIn
<1>4. c \in {f[2] : f \in {g \in Functors : g[1] # "shutdown"}} <=> OpsOf(Queued, c) # {}
  <2>1. ASSUME NEW l \in Loops, NEW f \in Queued[l], c = f[2] PROVE OpsOf(Queued, c) # {}
    BY <1>1, <2>1 DEF OpsOf, Items
  <2>2. ASSUME NEW op \in OpsOf(Queued, c)
        PROVE  c \in {f[2] : f \in {g \in Functors : g[1] # "shutdown"}}
    <3>1. PICK l \in Loops : <<op, c>> \in Queued[l]
      BY DEF OpsOf
    <3>. QED
      BY <1>2, <1>3, <3>1
  <2>. QED
    BY <1>2, <2>1, <2>2
<1>5. {tpc[t][2] : t \in {u \in Threads : tpc[u] # <<"out">>}} = {}
  BY DEF Discipline
<1>. QED
  BY <1>4, <1>5, ListenerIsNoConn DEF Live

LEMMA LiveThen ==
  ASSUME Discipline, TypeOK', Placed'
  PROVE  Referred'
BY LiveIs, PTL

(***************************************************************************)
(* A step that concerns connection c alone.                                *)
(***************************************************************************)
Concerns(c) ==
  /\ UNCHANGED nextConnId
  /\ \A d \in Conns \ {c} : /\ conn'[d] = conn[d]
                            /\ d \in connections' <=> d \in connections
                            /\ OpsOf(Queued', d) = OpsOf(Queued, d)
  /\ conn'[c].loop = conn[c].loop /\ conn'[c].fd = conn[c].fd
  /\ held' \subseteq held \cup {c}
  /\ \A l \in Loops : user'[l] \in {user[l], None, c}

\* Connection c is handled, called or called about, and has not been destroyed.
Alive(c) == c < nextConnId /\ ~ IsDown(c) /\ Stage(conn[c], c \in connections, OpsOf(Queued, c))

LEMMA AliveIsLive ==
  ASSUME Inv, Discipline, NEW c \in Conns, Alive(c)
  PROVE  c \in Live
<1>1. Referred
  BY LiveIs DEF Inv, TypeInv
<1>2. c \in connections \/ OpsOf(Queued, c) # {}
  BY DEF Alive, IsDown, Stage, Starting, Up, Closing, Closed, Down
<1>. QED
  BY <1>1, <1>2 DEF Referred

LEMMA OpenIsAlive ==
  ASSUME Inv, NEW c \in Conns,
         Open(conn[c]) \/ conn[c].index # "kNew" \/ OpsOf(Queued, c) # {}
  PROVE  Alive(c)
<1>1. ~ IsDown(c) \/ OpsOf(Queued, c) # {} \/ conn[c].index # "kNew"
  BY DEF Open, IsDown
<1>2. c < nextConnId
  BY DEF Inv, Lives, Open, Unborn
<1>3. Stage(conn[c], c \in connections, OpsOf(Queued, c))
  BY <1>2 DEF Inv, Lives
<1>4. ~ IsDown(c)
  BY <1>1, <1>3 DEF Stage, Starting, Up, Closing, Closed, Down, Open, IsDown
<1>. QED
  BY <1>2, <1>3, <1>4 DEF Alive

LEMMA ConcernsLives ==
  ASSUME Inv, NEW c \in Conns, Concerns(c), c < nextConnId,
         Stage(conn'[c], c \in connections', OpsOf(Queued', c))
  PROVE  Lives'
<1>1. ASSUME NEW d \in Conns, d # c
      PROVE  IF d < nextConnId' THEN Stage(conn'[d], d \in connections', OpsOf(Queued', d))
             ELSE conn'[d] = Unborn /\ d \notin connections' /\ OpsOf(Queued', d) = {}
  <2>1. /\ nextConnId' = nextConnId /\ conn'[d] = conn[d]
        /\ d \in connections' <=> d \in connections
        /\ OpsOf(Queued', d) = OpsOf(Queued, d)
    BY <1>1 DEF Concerns
  <2>2. (d \in connections') = (d \in connections)
    BY <2>1
  <2>3. IF d < nextConnId THEN Stage(conn[d], d \in connections, OpsOf(Queued, d))
             ELSE conn[d] = Unborn /\ d \notin connections /\ OpsOf(Queued, d) = {}
    BY DEF Inv, Lives
  <2>. QED
    BY <2>1, <2>2, <2>3
<1>2. nextConnId' = nextConnId
  BY DEF Concerns
<1>. QED
  BY <1>1, <1>2 DEF Lives

LEMMA ConcernsDescriptors ==
  ASSUME Inv, Discipline, NEW c \in Conns, Concerns(c), Alive(c), TypeOK', Placed'
  PROVE  Descriptors' /\ Live' \subseteq Live
<1>1. Referred /\ Referred'
  BY LiveIs, LiveThen DEF Inv, TypeInv
<1>2. Live' \subseteq Live
  <2>1. SUFFICES ASSUME NEW d \in Live', d # c PROVE d \in Live
    BY AliveIsLive
  <2>2. d \in Conns
    <3>1. (Live \subseteq Conns)'
      BY LiveType, PTL
    <3>. QED
      BY <3>1
  <2>3. \/ d \in connections' \/ d \in held' \/ OpsOf(Queued', d) # {}
        \/ \E l \in Loops : user'[l] = d
    BY <1>1, <2>2 DEF Referred
  <2>4. \/ d \in connections \/ d \in held \/ OpsOf(Queued, d) # {}
        \/ \E l \in Loops : user[l] = d
    BY <2>1, <2>2, <2>3, ListenerIsNoConn DEF Concerns
  <2>. QED
    BY <1>1, <2>2, <2>4 DEF Referred
<1>3. Live \subseteq Conns
  BY LiveType DEF Inv, TypeInv
<1>4. \A d \in Conns : conn'[d].fd = conn[d].fd
  BY DEF Concerns
<1>5. Descriptors'
  BY <1>2, <1>3, <1>4 DEF Inv, Descriptors
<1>. QED
  BY <1>2, <1>5

LEMMA ConcernsPlaced ==
  ASSUME Inv, NEW c \in Conns, Concerns(c),
         \A l \in Loops : \A f \in Queued'[l] :
           \/ f \in Queued[l]
           \/ \E op \in {"establish", "remove", "destroy"} :
                f = <<op, c>> /\ l = IF op = "remove" THEN Base ELSE conn[c].loop
  PROVE  Placed'
<1>1. \A d \in Conns : conn'[d].loop = conn[d].loop
  BY DEF Concerns
<1>2. ASSUME NEW l \in Loops, NEW f \in Queued'[l]
      PROVE  /\ f \in {"establish", "remove", "destroy"} \X Conns
             /\ l = IF f[1] = "remove" THEN Base ELSE conn[f[2]].loop
  <2>1. CASE f \in Queued[l]
    BY <2>1 DEF Inv, Placed, PlacedIn
  <2>2. CASE f \notin Queued[l]
    BY <1>2, <2>2
  <2>. QED
    BY <2>1, <2>2
<1>3. \A f \in {"establish", "remove", "destroy"} \X Conns : f[2] \in Conns
  OBVIOUS
<1>4. \A l \in Loops : \A f \in Queued'[l] :
        /\ f \in {"establish", "remove", "destroy"} \X Conns
        /\ l = IF f[1] = "remove" THEN Base ELSE conn'[f[2]].loop
  BY <1>1, <1>2, <1>3
<1>. QED
  BY <1>4 DEF Placed, PlacedIn

\* c is only changed: its Channel stays where it is.
LEMMA SameChans ==
  ASSUME Inv, NEW c \in Conns, Concerns(c), conn'[c].index = conn[c].index, UNCHANGED channels
  PROVE  Chans'
<1>1. \A d \in Conns : /\ conn'[d].loop = conn[d].loop /\ conn'[d].fd = conn[d].fd
                       /\ conn'[d].index = conn[d].index
  BY DEF Concerns
<1>2. \A l \in Loops, fd \in Fds : channels[l][fd] \in Conns \cup {None}
  BY DEF Inv, TypeInv, TypeOK
<1>. QED
  BY <1>1, <1>2 DEF Inv, Chans

\* c's Channel has been updated, in its place or for the first time.
LEMMA ChannelUpdated ==
  ASSUME Inv, NEW c \in Conns, NEW k \in Loops, NEW e \in Fds,
         \A d \in Conns \ {c} : conn'[d] = conn[d],
         conn'[c].loop = k, conn'[c].fd = e, conn'[c].index # "kNew",
         conn[c].index # "kNew" => conn[c].loop = k /\ conn[c].fd = e,
         channels[k][e] \in {None, c},
         channels' = [channels EXCEPT ![k][e] = c]
  PROVE  Chans'
<1>1. channels \in [Loops -> [Fds -> Conns \cup {None}]]
  BY DEF Inv, TypeInv, TypeOK
<1>2. \A l \in Loops, fd \in Fds :
        channels'[l][fd] = IF l = k /\ fd = e THEN c ELSE channels[l][fd]
  BY <1>1
<1>3. ASSUME NEW l \in Loops, NEW fd \in Fds, channels'[l][fd] # None
      PROVE  LET r == conn'[channels'[l][fd]] IN r.loop = l /\ r.fd = fd /\ r.index # "kNew"
  <2>1. CASE l = k /\ fd = e
    BY <1>2, <2>1
  <2>2. CASE ~ (l = k /\ fd = e)
    <3>1. channels'[l][fd] = channels[l][fd] /\ channels[l][fd] \in Conns
      BY <1>1, <1>2, <1>3, <2>2
    <3>2. LET r == conn[channels[l][fd]] IN r.loop = l /\ r.fd = fd /\ r.index # "kNew"
      BY <1>3, <3>1 DEF Inv, Chans
    <3>3. channels[l][fd] # c
      BY <2>2, <3>2
    <3>. QED
      BY <3>1, <3>2, <3>3
  <2>. QED
    BY <2>1, <2>2
<1>4. ASSUME NEW d \in Conns, conn'[d].index # "kNew"
      PROVE  channels'[conn'[d].loop][conn'[d].fd] = d
  <2>1. CASE d = c
    BY <1>2, <2>1
  <2>2. CASE d # c
    <3>1. channels[conn[d].loop][conn[d].fd] = d
      BY <1>4, <2>2 DEF Inv, Chans
    <3>2. d # None
      BY ListenerIsNoConn
    <3>3. channels'[conn[d].loop][conn[d].fd] = d
      BY <1>1, <2>2, <3>1, <3>2
    <3>. QED
      BY <2>2, <3>3
  <2>. QED
    BY <2>1, <2>2
<1>. QED
  BY <1>3, <1>4 DEF Chans

LEMMA UpdatedChans ==
  ASSUME Inv, NEW c \in Conns, Concerns(c), conn[c].fd \in Fds,
         channels[conn[c].loop][conn[c].fd] \in {None, c},
         conn'[c].index # "kNew",
         channels' = [channels EXCEPT ![conn[c].loop][conn[c].fd] = c]
  PROVE  Chans'
<1>1. PICK k \in Loops, e \in Fds : k = conn[c].loop /\ e = conn[c].fd
  BY ConnType DEF Inv, TypeInv, Connection
<1>. QED
  BY <1>1, ChannelUpdated DEF Concerns

LEMMA ConcernsActives ==
  ASSUME Inv, NEW c \in Conns, Concerns(c),
         \A l \in Loops : Range(active'[l]) \subseteq Range(active[l]),
         \A d \in Conns : revents'[d] \subseteq revents[d],
         \A l \in Loops : c \in Range(active'[l]) =>
           Open(conn'[c]) /\ ("in" \in revents'[c] => IsUp(c)')
  PROVE  Actives'
<1>1. SUFFICES ASSUME NEW l \in Loops, NEW d \in Range(active'[l]) \ {Listener}
               PROVE  /\ conn'[d].loop = l
                      /\ Open(conn'[d])
                      /\ "hup" \notin revents'[d]
                      /\ "in" \in revents'[d] => IsUp(d)'
  BY DEF Actives
<1>2. d \in Range(active[l]) \ {Listener}
  BY <1>1
<1>3. /\ conn[d].loop = l /\ Open(conn[d]) /\ "hup" \notin revents[d]
      /\ "in" \in revents[d] => IsUp(d)
  BY <1>2 DEF Inv, Actives
<1>4. d \in Conns
  <2>1. active[l] \in Seq(Conns \cup {Listener})
    BY DEF Inv, TypeInv, TypeOK
  <2>. QED
    BY <1>2, <2>1, RangeIs
<1>5. CASE d = c
  BY <1>1, <1>3, <1>4, <1>5 DEF Concerns
<1>6. CASE d # c
  <2>1. /\ conn'[d] = conn[d] /\ revents'[d] \subseteq revents[d]
        /\ (d \in connections') = (d \in connections)
        /\ OpsOf(Queued', d) = OpsOf(Queued, d)
    BY <1>4, <1>6 DEF Concerns
  <2>2. IsUp(d) => IsUp(d)'
    BY <2>1 DEF IsUp
  <2>. QED
    BY <1>3, <2>1, <2>2
<1>. QED
  BY <1>5, <1>6

LEMMA ConcernsUsers ==
  ASSUME Inv, NEW c \in Conns, Concerns(c),
         \A l \in Loops : user'[l] = c =>
           /\ conn[c].loop = l
           /\ Pool # <<>> => IsUp(c)' \/ IsDown(c)'
  PROVE  Users'
<1>1. SUFFICES ASSUME NEW l \in Loops, user'[l] # None, user'[l] # c
               PROVE  /\ conn'[user'[l]].loop = l
                      /\ Pool # <<>> => IsUp(user[l])' \/ IsDown(user[l])'
  BY DEF Users, Concerns
<1>2. PICK d : d = user'[l]
  OBVIOUS
<1>3. d = user[l] /\ d # None /\ d # c /\ d \in Conns
  BY <1>1, <1>2 DEF Concerns, Inv, TypeInv, TypeOK
<1>4. conn[d].loop = l /\ (Pool # <<>> => IsUp(d) \/ IsDown(d))
  BY <1>3 DEF Inv, Users
<1>5. /\ conn'[d] = conn[d]
      /\ (d \in connections') = (d \in connections)
      /\ OpsOf(Queued', d) = OpsOf(Queued, d)
  BY <1>3 DEF Concerns
<1>6. (IsUp(d) => IsUp(d)') /\ (IsDown(d) => IsDown(d)')
  BY <1>5 DEF IsUp, IsDown
<1>. QED
  BY <1>2, <1>4, <1>5, <1>6 DEF IsUp, IsDown

LEMMA ConcernsInv ==
  ASSUME Inv, Discipline, TypeInv', failed' = {}, NEW c \in Conns, Alive(c), Concerns(c),
         Lines', Phases', Chans',
         \A l \in Loops : \A f \in Queued'[l] :
           \/ f \in Queued[l]
           \/ \E op \in {"establish", "remove", "destroy"} :
                f = <<op, c>> /\ l = IF op = "remove" THEN Base ELSE conn[c].loop,
         Stage(conn'[c], c \in connections', OpsOf(Queued', c)),
         \A l \in Loops : Range(active'[l]) \subseteq Range(active[l]),
         \A d \in Conns : revents'[d] \subseteq revents[d],
         \A l \in Loops : c \in Range(active'[l]) =>
           Open(conn'[c]) /\ ("in" \in revents'[c] => IsUp(c)'),
         \A l \in Loops : user'[l] = c =>
           /\ conn[c].loop = l
           /\ Pool # <<>> => IsUp(c)' \/ IsDown(c)'
  PROVE  Inv'
<1>1. TypeOK'
  BY DEF TypeInv
<1>2. Placed'
  BY ConcernsPlaced
<1>3. Lives'
  BY ConcernsLives DEF Alive
<1>4. Descriptors'
  BY <1>1, <1>2, ConcernsDescriptors
<1>5. Actives'
  BY ConcernsActives
<1>6. Users'
  BY ConcernsUsers
<1>. QED
  BY <1>2, <1>3, <1>4, <1>5, <1>6 DEF Inv

(***************************************************************************)
(* Whatever the step does to an open connection that is not waiting to be  *)
(* taken out of connections_, it stays what it is.                         *)
(***************************************************************************)
Touches(c) ==
  /\ UNCHANGED <<nextConnId, connections, pending, batch, held, phase>>
  /\ \A d \in Conns \ {c} : conn'[d] = conn[d]
  /\ conn'[c].loop = conn[c].loop /\ conn'[c].fd = conn[c].fd
  /\ Open(conn'[c])
  /\ \/ UNCHANGED channels /\ conn'[c].index = conn[c].index
     \/ /\ channels' = [channels EXCEPT ![conn[c].loop][conn[c].fd] = c]
        /\ conn'[c].index # "kNew"
  /\ \A l \in Loops : Range(active'[l]) \subseteq Range(active[l])
  /\ \A d \in Conns : revents'[d] \subseteq revents[d]
  /\ \A l \in Loops : user'[l] = user[l] \/ (user'[l] = c /\ conn[c].loop = l /\ IsUp(c))
  /\ failed' = {}

LEMMA TouchesInv ==
  ASSUME Inv, Discipline, TypeInv', NEW c \in Conns, Open(conn[c]), Touches(c),
         LET m == c \in connections
             ops == OpsOf(Queued, c)
         IN  /\ Up(conn[c], m, ops) \/ Closed(conn[c], m, ops)
             /\ Up(conn[c], m, ops) => Up(conn'[c], m, ops)
             /\ Closed(conn[c], m, ops) => Closed(conn'[c], m, ops)
  PROVE  Inv'
<1>1. Alive(c)
  BY OpenIsAlive
<1>2. Queued' = Queued /\ nextConnId' = nextConnId /\ connections' = connections
  BY DEF Touches, Queued
<1>3. Concerns(c)
  BY <1>2 DEF Touches, Concerns
<1>4. Lines' /\ Phases'
  <2>1. Lines'
    BY DEF Inv, Lines, Touches
  <2>2. \A l \in Loops : IF phase'[l] = "events" THEN batch'[l] = <<>> ELSE active'[l] = <<>>
    <3>1. SUFFICES ASSUME NEW l \in Loops, phase[l] # "events" PROVE active'[l] = <<>>
      BY DEF Inv, Phases, Touches
    <3>2. active[l] = <<>> /\ Range(<<>>) = {}
      BY <3>1 DEF Inv, Phases, Range
    <3>3. active'[l] \in Seq(Conns \cup {Listener}) /\ Range(active'[l]) = {}
      BY <3>2 DEF TypeInv, TypeOK, Touches
    <3>. QED
      BY <3>3, EmptyIs
  <2>3. Pool = <<>> /\ phase'[Base] = "functors" =>
          \A d \in Conns : <<"destroy", d>> \notin Range(pending'[Base])
    BY DEF Inv, Phases, Touches
  <2>. QED
    BY <2>1, <2>2, <2>3 DEF Phases
<1>5. IsUp(c) => IsUp(c)'
  BY <1>2 DEF IsUp
<1>6. conn[c].fd \in Fds
  BY <1>1, AliveIsLive DEF Inv, Descriptors
<1>7. Chans'
  <2>1. conn[c].index # "kNew"
    BY DEF Up, Closed
  <2>2. channels[conn[c].loop][conn[c].fd] = c
    BY <2>1 DEF Inv, Chans
  <2>3. CASE UNCHANGED channels /\ conn'[c].index = conn[c].index
    BY <1>3, <2>3, SameChans
  <2>4. CASE /\ channels' = [channels EXCEPT ![conn[c].loop][conn[c].fd] = c]
             /\ conn'[c].index # "kNew"
    BY <1>3, <1>6, <2>2, <2>4, UpdatedChans DEF TypeInv
  <2>. QED
    BY <2>3, <2>4 DEF Touches
<1>8. Stage(conn'[c], c \in connections', OpsOf(Queued', c))
  BY <1>2 DEF Stage
<1>9. \A l \in Loops : c \in Range(active'[l]) =>
        Open(conn'[c]) /\ ("in" \in revents'[c] => IsUp(c)')
  <2>1. \A l \in Loops : c \in Range(active[l]) => ("in" \in revents[c] => IsUp(c))
    BY ListenerIsNoConn DEF Inv, Actives
  <2>. QED
    BY <1>5, <2>1 DEF Touches
<1>10. \A l \in Loops : user'[l] = c =>
           /\ conn[c].loop = l
           /\ Pool # <<>> => IsUp(c)' \/ IsDown(c)'
  <2>1. ~ IsDown(c) /\ c # None
    BY ListenerIsNoConn DEF Open, IsDown
  <2>2. \A l \in Loops : user[l] = c => conn[c].loop = l /\ (Pool # <<>> => IsUp(c))
    BY <2>1 DEF Inv, Users
  <2>. QED
    BY <1>5, <2>2 DEF Touches
<1>. QED
  BY <1>1, <1>2, <1>3, <1>4, <1>7, <1>8, <1>9, <1>10, ConcernsInv DEF Touches

-----------------------------------------------------------------------------
(* The actions keep the invariant *)

LEMMA NoPool == Pool = <<>> => Loops = {Base}
BY DEF Loops, Range

LEMMA NoneFails ==
  /\ \A a : a => Failing([registered |-> a]) = {}
  /\ \A a : a => Failing([erased |-> a]) = {}
  /\ \A a, b : a /\ b => Failing([connecting |-> a, registered |-> b]) = {}
  /\ \A a, b : a /\ b => Failing([open |-> a, registered |-> b]) = {}
  /\ \A a, b, d : a /\ b /\ d => Failing([open |-> a, registered |-> b, erased |-> d]) = {}
BY DEF Failing

LEMMA UpdateIs ==
  ASSUME TypeOK, NEW c \in Conns, NEW r \in Connection, NEW ev \in SUBSET {"read", "write"},
         UpdateChannel(c, r, ev)
  PROVE  /\ \A d \in Conns \ {c} : conn'[d] = conn[d]
         /\ conn'[c].loop = r.loop /\ conn'[c].fd = r.fd /\ conn'[c].state = r.state
         /\ conn'[c].events = ev
         /\ conn'[c].index = IF r.index = "kAdded" /\ ev = {} THEN "kDeleted" ELSE "kAdded"
         /\ channels' = [channels EXCEPT ![r.loop][r.fd] = c]
<1>1. conn \in [Conns -> Connection]
  BY ConnType
<1>2. conn'[c] = WithEvents(r, ev) /\ \A d \in Conns \ {c} : conn'[d] = conn[d]
  BY <1>1 DEF UpdateChannel
<1>. QED
  BY <1>2, WithEventsIs DEF UpdateChannel

\* What of an open connection is handled or used is up or waits for its end.
LEMMA OpenStages ==
  ASSUME Inv, Discipline, NEW c \in Conns, Open(conn[c])
  PROVE  LET m == c \in connections
             ops == OpsOf(Queued, c)
         IN  /\ Up(conn[c], m, ops) \/ Closing(conn[c], m, ops) \/ Closed(conn[c], m, ops)
             /\ conn[c].index # "kNew"
             /\ channels[conn[c].loop][conn[c].fd] = c
             /\ conn[c].fd \in Fds
             /\ conn[c] \in Connection
<1>1. /\ c < nextConnId
      /\ Stage(conn[c], c \in connections, OpsOf(Queued, c))
  BY DEF Inv, Lives, Open, Unborn
<1>2. LET m == c \in connections
          ops == OpsOf(Queued, c)
      IN  Up(conn[c], m, ops) \/ Closing(conn[c], m, ops) \/ Closed(conn[c], m, ops)
  BY <1>1 DEF Stage, Starting, Down, Open
<1>3. conn[c].index # "kNew"
  BY <1>2 DEF Up, Closing, Closed
<1>4. channels[conn[c].loop][conn[c].fd] = c
  BY <1>3 DEF Inv, Chans
<1>5. conn[c] \in Connection /\ conn[c].loop \in Loops /\ conn[c].fd \in Fds \cup {None}
  BY ConnType DEF Inv, TypeInv, Connection
<1>6. ASSUME conn[c].fd \notin Fds PROVE FALSE
  <2>1. c \in Live
    BY OpenIsAlive, AliveIsLive
  <2>. QED
    BY <1>6, <2>1 DEF Inv, Descriptors
<1>. QED
  BY <1>2, <1>3, <1>4, <1>5, <1>6

\* User code holds a connection that is up, or closed without I/O threads.
LEMMA UsedStages ==
  ASSUME Inv, Discipline, NEW l \in Loops, NEW c \in Conns, InCallback(l, c),
         conn[c].state = "kConnected"
  PROVE  Up(conn[c], c \in connections, OpsOf(Queued, c))
           \/ Closed(conn[c], c \in connections, OpsOf(Queued, c))
<1>1. Open(conn[c])
  BY DEF Open
<1>2. CASE Pool = <<>>
  <2>1. conn[c].loop = Base
    BY <1>2, NoPool DEF InCallback
  <2>. QED
    BY <1>1, <2>1, OpenStages DEF Closing
<1>3. CASE Pool # <<>>
  <2>1. c = user[l] /\ c # None
    BY <1>3 DEF Discipline, InCallback
  <2>2. IsUp(c)
    BY <1>3, <2>1 DEF Inv, Users, IsDown
  <2>. QED
    BY <2>2 DEF IsUp
<1>. QED
  BY <1>2, <1>3

LEMMA SendTouches ==
  ASSUME Inv, Discipline, NEW c \in Conns, Open(conn[c]), SendInLoop(c)
  PROVE  LET m == c \in connections
             ops == OpsOf(Queued, c)
         IN  /\ \A d \in Conns \ {c} : conn'[d] = conn[d]
             /\ conn'[c].loop = conn[c].loop /\ conn'[c].fd = conn[c].fd
             /\ Open(conn'[c])
             /\ \/ UNCHANGED channels /\ conn'[c].index = conn[c].index
                \/ /\ channels' = [channels EXCEPT ![conn[c].loop][conn[c].fd] = c]
                   /\ conn'[c].index # "kNew"
             /\ failed' = {}
             /\ Up(conn[c], m, ops) => Up(conn'[c], m, ops)
             /\ Pool = <<>> /\ Closed(conn[c], m, ops) => Closed(conn'[c], m, ops)
<1>1. /\ conn \in [Conns -> Connection] /\ conn[c] \in Connection /\ failed = {}
      /\ conn[c].index # "kNew" /\ channels[conn[c].loop][conn[c].fd] = c
  BY ConnType, OpenStages DEF Inv, TypeInv
<1>2. CASE UNCHANGED <<conn, channels, failed>>
  BY <1>1, <1>2
<1>3. CASE conn' = [conn EXCEPT ![c].output = TRUE] /\ UNCHANGED <<channels, failed>>
  <2>1. /\ \A d \in Conns \ {c} : conn'[d] = conn[d]
        /\ conn'[c] = [conn[c] EXCEPT !.output = TRUE]
    BY <1>1, <1>3
  <2>2. /\ conn'[c].loop = conn[c].loop /\ conn'[c].fd = conn[c].fd
        /\ conn'[c].state = conn[c].state /\ conn'[c].index = conn[c].index
        /\ conn'[c].events = conn[c].events
    BY <1>1, <2>1 DEF Connection
  <2>. QED
    BY <1>1, <1>3, <2>1, <2>2 DEF Open, Up, Closed
<1>4. CASE /\ UpdateChannel(c, [conn[c] EXCEPT !.output = TRUE], conn[c].events \cup {"write"})
           /\ failed' = Failing([registered |-> Registered(c, conn[c])])
  <2>1. PICK r \in Connection : r = [conn[c] EXCEPT !.output = TRUE]
    BY <1>1, OutputType
  <2>2. PICK ev \in SUBSET {"read", "write"} : ev = conn[c].events \cup {"write"}
    BY <1>1 DEF Connection
  <2>3. /\ r.loop = conn[c].loop /\ r.fd = conn[c].fd
        /\ r.state = conn[c].state /\ r.index = conn[c].index
    BY <1>1, <2>1 DEF Connection
  <2>4. UpdateChannel(c, r, ev)
    BY <1>4, <2>1, <2>2
  <2>5. /\ \A d \in Conns \ {c} : conn'[d] = conn[d]
        /\ conn'[c].loop = r.loop /\ conn'[c].fd = r.fd /\ conn'[c].state = r.state
        /\ conn'[c].events = ev
        /\ conn'[c].index = "kAdded"
        /\ channels' = [channels EXCEPT ![r.loop][r.fd] = c]
    BY <2>2, <2>4, UpdateIs DEF Inv, TypeInv
  <2>6. failed' = {}
    BY <1>1, <1>4, NoneFails DEF Registered
  <2>. QED
    BY <2>2, <2>3, <2>5, <2>6 DEF Open, Up, Closed
<1>. QED
  BY <1>2, <1>3, <1>4 DEF SendInLoop

LEMMA UserInv ==
  ASSUME Inv, Discipline, TypeInv', NEW l \in Loops, NEW c \in Conns,
         UserSend(l, c) \/ UserShutdown(l, c)
  PROVE  Inv'
<1>1. /\ InCallback(l, c) /\ conn[c].state = "kConnected" /\ Open(conn[c])
      /\ conn \in [Conns -> Connection] /\ conn[c] \in Connection /\ failed = {}
  BY ConnType DEF UserSend, UserShutdown, Open, Inv, TypeInv
<1>2. /\ Up(conn[c], c \in connections, OpsOf(Queued, c))
           \/ Closed(conn[c], c \in connections, OpsOf(Queued, c))
      /\ Pool # <<>> => Up(conn[c], c \in connections, OpsOf(Queued, c))
  <2>1. CASE Pool = <<>>
    BY <1>1, <2>1, UsedStages
  <2>2. CASE Pool # <<>>
    <3>1. c = user[l] /\ c # None
      BY <1>1, <2>2 DEF Discipline, InCallback
    <3>2. IsUp(c)
      BY <1>1, <2>2, <3>1 DEF Inv, Users, IsDown
    <3>. QED
      BY <3>2 DEF IsUp
  <2>. QED
    BY <2>1, <2>2
<1>3. CASE UserSend(l, c)
  <2>1. /\ SendInLoop(c)
        /\ UNCHANGED <<nextConnId, connections, pending, held, phase, active, revents, user, batch>>
    BY <1>3 DEF UserSend, loopVars
  <2>2. Touches(c)
    BY <1>1, <2>1, SendTouches DEF Touches
  <2>3. LET m == c \in connections
            ops == OpsOf(Queued, c)
        IN  /\ Up(conn[c], m, ops) => Up(conn'[c], m, ops)
            /\ Closed(conn[c], m, ops) => Closed(conn'[c], m, ops)
    <3>1. Up(conn[c], c \in connections, OpsOf(Queued, c)) =>
            ~ Closed(conn[c], c \in connections, OpsOf(Queued, c))
      BY DEF Up, Closed
    <3>. QED
      BY <1>1, <1>2, <2>1, <3>1, SendTouches
  <2>. QED
    BY <1>1, <1>2, <2>2, <2>3, TouchesInv
<1>4. CASE UserShutdown(l, c)
  <2>1. PICK r \in Connection : r = [conn[c] EXCEPT !.state = "kDisconnecting"]
    BY <1>1 DEF Connection
  <2>2. /\ conn' = [conn EXCEPT ![c] = ShutdownInLoop(r)]
        /\ UNCHANGED <<nextConnId, connections, channels, pending, held, phase, active,
                      revents, user, batch, failed>>
    BY <1>1, <1>4, <2>1 DEF UserShutdown, loopVars
  <2>3. conn'[c] = ShutdownInLoop(r) /\ \A d \in Conns \ {c} : conn'[d] = conn[d]
    BY <1>1, <2>2
  <2>4. /\ conn'[c].loop = conn[c].loop /\ conn'[c].fd = conn[c].fd
        /\ conn'[c].state = "kDisconnecting" /\ conn'[c].index = conn[c].index
        /\ conn'[c].events = conn[c].events
    <3>1. /\ r.loop = conn[c].loop /\ r.fd = conn[c].fd /\ r.state = "kDisconnecting"
          /\ r.index = conn[c].index /\ r.events = conn[c].events
      BY <1>1, <2>1 DEF Connection
    <3>. QED
      BY <2>3, <3>1, ShutdownType
  <2>5. Touches(c)
    BY <1>1, <2>2, <2>3, <2>4 DEF Touches, Open
  <2>6. LET m == c \in connections
            ops == OpsOf(Queued, c)
        IN  /\ Up(conn[c], m, ops) => Up(conn'[c], m, ops)
            /\ Closed(conn[c], m, ops) => Closed(conn'[c], m, ops)
    BY <2>4 DEF Up, Closed, Open
  <2>. QED
    BY <1>1, <1>2, <2>5, <2>6, TouchesInv
<1>. QED
  BY <1>3, <1>4

(***************************************************************************)
(* Steps after which every connection is what it was.                      *)
(***************************************************************************)
LEMMA RestsInv ==
  ASSUME Inv, Discipline, TypeInv',
         UNCHANGED <<nextConnId, connections, conn, channels, failed>>,
         Queued' = Queued, held' \subseteq held,
         \A l \in Loops : user'[l] \in {user[l], None},
         Lines', Phases', Actives'
  PROVE  Inv'
<1>1. Placed' /\ Lives' /\ Chans'
  <2>1. Placed'
    BY DEF Inv, Placed, PlacedIn
  <2>2. Lives'
    BY DEF Inv, Lives
  <2>3. Chans'
    BY DEF Inv, Chans
  <2>. QED
    BY <2>1, <2>2, <2>3
<1>2. Users'
  <2>1. SUFFICES ASSUME NEW l \in Loops, user'[l] # None
                 PROVE  /\ conn'[user'[l]].loop = l
                        /\ Pool # <<>> => IsUp(user[l])' \/ IsDown(user[l])'
    BY DEF Users
  <2>2. user'[l] = user[l] /\ user[l] # None
    BY <2>1
  <2>3. conn[user[l]].loop = l /\ (Pool # <<>> => IsUp(user[l]) \/ IsDown(user[l]))
    BY <2>2 DEF Inv, Users
  <2>. QED
    BY <2>2, <2>3 DEF IsUp, IsDown
<1>3. Referred /\ Referred' /\ Live' \subseteq Conns
  <2>1. TypeOK /\ TypeOK' /\ Placed
    BY DEF Inv, TypeInv
  <2>2. (Live \subseteq Conns)'
    BY <2>1, LiveType, PTL
  <2>. QED
    BY <1>1, <2>1, <2>2, LiveIs, LiveThen
<1>4. Live' \subseteq Live
  <2>1. SUFFICES ASSUME NEW d \in Live' PROVE d \in Live
    OBVIOUS
  <2>2. d \in Conns
    BY <1>3
  <2>3. \/ d \in connections \/ d \in held \/ OpsOf(Queued, d) # {}
        \/ \E l \in Loops : user'[l] = d
    BY <1>3, <2>2 DEF Referred
  <2>4. \/ d \in connections \/ d \in held \/ OpsOf(Queued, d) # {}
        \/ \E l \in Loops : user[l] = d
    BY <2>2, <2>3, ListenerIsNoConn
  <2>. QED
    BY <1>3, <2>2, <2>4 DEF Referred
<1>5. Descriptors'
  BY <1>4 DEF Inv, Descriptors
<1>. QED
  BY <1>1, <1>2, <1>5 DEF Inv

(***************************************************************************)
(* poll() reports of connections that are up only: EPoller does not ask    *)
(* for a deleted Channel's events, and a Channel that is not deleted when  *)
(* its connection is closed is removed before the next poll().             *)
(***************************************************************************)
LEMMA PolledIsUp ==
  ASSUME Inv, Discipline, NEW l \in Loops, InPoll(l), NEW c \in Polled(l)
  PROVE  c \in Conns /\ IsUp(c)
<1>1. c \in Conns /\ conn[c].loop = l /\ conn[c].index = "kAdded"
  BY LiveType DEF Inv, TypeInv, Polled
<1>2. c < nextConnId
  BY <1>1 DEF Inv, Lives, Unborn
<1>3. Stage(conn[c], c \in connections, OpsOf(Queued, c))
  BY <1>1, <1>2 DEF Inv, Lives
<1>4. CASE Closed(conn[c], c \in connections, OpsOf(Queued, c))
  <2>1. Pool = <<>> /\ l = Base
    BY <1>1, <1>4, NoPool DEF Closed
  <2>2. "destroy" \in OpsOf(Queued, c)
    BY <1>4 DEF Closed
  <2>3. PICK k \in Loops : <<"destroy", c>> \in Queued[k]
    BY <2>2 DEF OpsOf
  <2>4. k = Base
    BY <2>1, NoPool
  <2>5. <<"destroy", c>> \in Range(pending[Base]) \cup Range(<<>>)
    BY <2>1, <2>3, <2>4 DEF Queued, InPoll
  <2>6. Range(<<>>) = {}
    BY DEF Range
  <2>7. <<"destroy", c>> \notin Range(pending[Base])
    BY <1>1, <2>1 DEF Inv, Phases, InPoll
  <2>. QED
    BY <2>5, <2>6, <2>7
<1>5. CASE ~ Closed(conn[c], c \in connections, OpsOf(Queued, c))
  BY <1>1, <1>3, <1>5 DEF Stage, Starting, Closing, Down, IsUp
<1>. QED
  BY <1>1, <1>4, <1>5

LEMMA PollInv ==
  ASSUME Inv, Discipline, TypeInv', NEW l \in Loops, Poll(l)
  PROVE  Inv'
<1>1. TypeOK
  BY DEF Inv, TypeInv
<1>2. /\ InPoll(l) /\ phase' = [phase EXCEPT ![l] = "events"]
      /\ UNCHANGED <<nextConnId, connections, conn, channels, user, pending, batch, held, failed>>
  BY DEF Poll
<1>3. PICK s \in Seq(Conns \cup {Listener}) :
           /\ active' = [active EXCEPT ![l] = s]
           /\ \A c \in Range(s) \ {Listener} : c \in Polled(l)
           /\ \A c \in Polled(l) : revents'[c] \subseteq MayReport(c)
           /\ \A c \in Conns : c \notin Polled(l) => revents'[c] = revents[c]
  BY <1>1, PollIs
<1>4. Queued' = Queued /\ Lines'
  BY <1>2 DEF Queued, Inv, Lines
<1>5. \A k \in Loops : /\ phase'[k] = IF k = l THEN "events" ELSE phase[k]
                       /\ active'[k] = IF k = l THEN s ELSE active[k]
  BY <1>1, <1>2, <1>3 DEF TypeOK
<1>6. Phases'
  <2>1. \A k \in Loops : IF phase'[k] = "events" THEN batch'[k] = <<>> ELSE active'[k] = <<>>
    BY <1>2, <1>5 DEF Inv, Phases, InPoll
  <2>2. Pool = <<>> /\ phase'[Base] = "functors" =>
       \A c \in Conns : <<"destroy", c>> \notin Range(pending'[Base])
    <3>1. Base \in Loops
      BY ListenerIsNoConn
    <3>2. phase'[Base] = "functors" => phase[Base] = "functors"
      BY <1>5, <3>1
    <3>. QED
      BY <1>2, <3>2 DEF Inv, Phases
  <2>. QED
    BY <2>1, <2>2 DEF Phases
<1>7. Actives'
  <2>1. SUFFICES ASSUME NEW k \in Loops, NEW c \in Range(active'[k]) \ {Listener}
                 PROVE  /\ conn[c].loop = k
                        /\ Open(conn[c])
                        /\ "hup" \notin revents'[c]
                        /\ "in" \in revents'[c] => IsUp(c)
    <3>1. \A c : IsUp(c) => IsUp(c)'
      BY <1>2, <1>4 DEF IsUp
    <3>. QED
      BY <1>2, <2>1, <3>1 DEF Actives
  <2>2. CASE k = l
    <3>1. c \in Polled(l)
      BY <1>3, <1>5, <2>2
    <3>2. c \in Conns /\ IsUp(c) /\ conn[c].loop = l
      BY <1>2, <3>1, PolledIsUp DEF Polled
    <3>3. Open(conn[c]) /\ "read" \in conn[c].events
      BY <3>2 DEF IsUp, Up
    <3>4. "hup" \notin MayReport(c)
      BY <3>3 DEF MayReport, MustReport, HangUp
    <3>. QED
      BY <1>3, <2>2, <3>1, <3>2, <3>3, <3>4
  <2>3. CASE k # l
    <3>1. c \in Range(active[k]) \ {Listener}
      BY <1>5, <2>1, <2>3
    <3>2. /\ conn[c].loop = k /\ Open(conn[c]) /\ "hup" \notin revents[c]
          /\ "in" \in revents[c] => IsUp(c)
      BY <3>1 DEF Inv, Actives
    <3>3. c \in Conns
      <4>1. active[k] \in Seq(Conns \cup {Listener})
        BY <1>1 DEF TypeOK
      <4>. QED
        BY <3>1, <4>1, RangeIs
    <3>4. revents'[c] = revents[c]
      BY <1>3, <2>3, <3>2, <3>3 DEF Polled
    <3>. QED
      BY <3>2, <3>4
  <2>. QED
    BY <2>2, <2>3
<1>. QED
  BY <1>2, <1>4, <1>6, <1>7, RestsInv

LEMMA TakeFunctorsInv ==
  ASSUME Inv, Discipline, TypeInv', NEW l \in Loops, TakeFunctors(l)
  PROVE  Inv'
<1>1. /\ phase[l] = "events" /\ active[l] = <<>>
      /\ batch' = [batch EXCEPT ![l] = pending[l]]
      /\ pending' = [pending EXCEPT ![l] = <<>>]
      /\ phase' = [phase EXCEPT ![l] = "functors"]
      /\ UNCHANGED <<nextConnId, connections, conn, channels, active, revents, user, held, failed>>
  BY DEF TakeFunctors
<1>2. batch[l] = <<>>
  BY <1>1 DEF Inv, Phases
<1>3. \A k \in Loops : /\ batch'[k] = IF k = l THEN pending[l] ELSE batch[k]
                       /\ pending'[k] = IF k = l THEN <<>> ELSE pending[k]
                       /\ phase'[k] = IF k = l THEN "functors" ELSE phase[k]
  BY <1>1 DEF Inv, TypeInv, TypeOK
<1>4. Range(<<>>) = {} /\ IsInjective(<<>>)
  BY DEF Range, IsInjective
<1>5. Queued' = Queued
  BY <1>2, <1>3, <1>4 DEF Queued
<1>6. Lines'
  BY <1>2, <1>3, <1>4 DEF Inv, Lines, Line
<1>7. Phases'
  <2>1. \A k \in Loops : IF phase'[k] = "events" THEN batch'[k] = <<>> ELSE active'[k] = <<>>
    BY <1>1, <1>3 DEF Inv, Phases
  <2>2. Pool = <<>> => pending'[Base] = <<>>
    BY <1>3, NoPool, ListenerIsNoConn
  <2>3. Pool = <<>> /\ phase'[Base] = "functors" =>
       \A c \in Conns : <<"destroy", c>> \notin Range(pending'[Base])
    BY <1>4, <2>2
  <2>. QED
    BY <2>1, <2>3 DEF Phases
<1>8. Actives'
  <2>1. \A c : IsUp(c) => IsUp(c)'
    BY <1>1, <1>5 DEF IsUp
  <2>. QED
    BY <1>1, <2>1 DEF Inv, Actives
<1>. QED
  BY <1>1, <1>5, <1>6, <1>7, <1>8, RestsInv

LEMMA OtherInv ==
  ASSUME Inv, Discipline, TypeInv', UNCHANGED <<nextConnId, connections, conn, channels, phase,
           active, revents, pending, batch, failed>>,
         held' \subseteq held,
         \A l \in Loops : user'[l] \in {user[l], None}
  PROVE  Inv'
<1>1. Queued' = Queued /\ Lines' /\ Phases'
  BY DEF Queued, Inv, Lines, Phases
<1>2. Actives'
  <2>1. \A c : IsUp(c) => IsUp(c)'
    BY <1>1 DEF IsUp
  <2>. QED
    BY <2>1 DEF Inv, Actives
<1>. QED
  BY <1>1, <1>2, RestsInv

(***************************************************************************)
(* The event handled is never POLLHUP alone, and what is read from is up.  *)
(***************************************************************************)
LEMMA HandlingIs ==
  ASSUME Inv, NEW l \in Loops, NEW c \in Conns, NEW ev, HandlingEvent(l, c, ev)
  PROVE  /\ phase[l] = "events" /\ batch[l] = <<>> /\ user[l] = None
         /\ Open(conn[c]) /\ conn[c].loop = l
         /\ ev # "hup"
         /\ ev = "in" => IsUp(c)
         /\ "in" \notin revents'[c]
         /\ \A k \in Loops : Range(active'[k]) \subseteq Range(active[k])
         /\ \A k \in Loops : active[k] = <<>> => active'[k] = <<>>
         /\ \A d \in Conns : revents'[d] \subseteq revents[d]
         /\ UNCHANGED <<nextConnId, next, phase, batch, held, tpc>>
<1>0. TypeOK /\ Listens
  BY DEF Inv, TypeInv
<1>1. /\ phase[l] = "events" /\ user[l] = None /\ active[l] # <<>> /\ c = Head(active[l])
      /\ c # Listener
      /\ revents' = [revents EXCEPT ![c] = @ \ {ev}]
      /\ active' = [active EXCEPT ![l] = IF revents[c] = {ev} THEN Tail(@) ELSE @]
      /\ UNCHANGED <<nextConnId, next, phase, batch, held, tpc>>
  BY DEF HandlingEvent, Handling
<1>2. batch[l] = <<>>
  BY <1>1 DEF Inv, Phases
<1>3. active \in [Loops -> Seq(Conns \cup {Listener})] /\ active[l] \in Seq(Conns \cup {Listener})
  BY <1>0 DEF TypeOK
<1>4. c \in Range(active[l])
  BY <1>1, <1>3, TailIs
<1>5. /\ conn[c].loop = l /\ Open(conn[c]) /\ "hup" \notin revents[c]
      /\ "in" \in revents[c] => IsUp(c)
  BY <1>1, <1>4 DEF Inv, Actives
<1>6. ev = IF "in" \in revents[c] THEN "in" ELSE "out"
  BY <1>5 DEF HandlingEvent
<1>7. \A k \in Loops : Range(active'[k]) \subseteq Range(active[k])
  BY <1>0, HandlingType
<1>8. \A k \in Loops : active[k] = <<>> => active'[k] = <<>>
  BY <1>1, <1>3
<1>9. \A d \in Conns : revents'[d] = IF d = c THEN revents[c] \ {ev} ELSE revents[d]
  BY <1>0, <1>1 DEF TypeOK
<1>10. "in" \notin revents'[c] /\ \A d \in Conns : revents'[d] \subseteq revents[d]
  BY <1>6, <1>9
<1>11. ev # "hup" /\ (ev = "in" => IsUp(c))
  BY <1>5, <1>6
<1>. QED
  BY <1>1, <1>2, <1>5, <1>7, <1>8, <1>10, <1>11

LEMMA WriteInv ==
  ASSUME Inv, Discipline, TypeInv', NEW l \in Loops, NEW c \in Conns, HandleWrite(l, c)
  PROVE  Inv'
<1>1. HandlingEvent(l, c, "out") /\ UNCHANGED <<connections, pending, peer, user>>
  BY DEF HandleWrite
<1>2. /\ Open(conn[c])
      /\ \A k \in Loops : Range(active'[k]) \subseteq Range(active[k])
      /\ \A d \in Conns : revents'[d] \subseteq revents[d]
      /\ UNCHANGED <<nextConnId, next, phase, batch, held, tpc>>
      /\ "in" \notin revents'[c]
      /\ \A k \in Loops : active[k] = <<>> => active'[k] = <<>>
  BY <1>1, HandlingIs
<1>3. /\ conn \in [Conns -> Connection] /\ conn[c] \in Connection /\ failed = {}
      /\ conn[c].index # "kNew" /\ channels[conn[c].loop][conn[c].fd] = c
  BY <1>2, ConnType, OpenStages DEF Inv, TypeInv
<1>4. CASE UNCHANGED <<conn, channels, failed>>
  <2>1. Queued' = Queued /\ Lines'
    BY <1>1, <1>2 DEF Queued, Inv, Lines
  <2>2. Phases'
    BY <1>1, <1>2 DEF Inv, Phases
  <2>3. Actives'
    <3>1. \A d : IsUp(d) => IsUp(d)'
      BY <1>1, <1>4, <2>1 DEF IsUp
    <3>2. \A k \in Loops : Range(active[k]) \subseteq Conns \cup {Listener}
      <4>1. \A k \in Loops : active[k] \in Seq(Conns \cup {Listener})
        BY DEF Inv, TypeInv, TypeOK
      <4>. QED
        BY <4>1, RangeIs
    <3>. QED
      BY <1>2, <1>4, <3>1, <3>2 DEF Inv, Actives
  <2>. QED
    BY <1>1, <1>2, <1>4, <2>1, <2>2, <2>3, RestsInv
<1>5. CASE /\ Writing(c)
           /\ UpdateChannel(c, [conn[c] EXCEPT !.output = FALSE,
                                               !.shut = @ \/ conn[c].state = "kDisconnecting"],
                            conn[c].events \ {"write"})
           /\ failed' = Failing([registered |-> Registered(c, conn[c])])
  <2>1. PICK r \in Connection : r = [conn[c] EXCEPT !.output = FALSE,
                                       !.shut = @ \/ conn[c].state = "kDisconnecting"]
    BY <1>3 DEF Connection
  <2>2. PICK ev \in SUBSET {"read", "write"} : ev = conn[c].events \ {"write"}
    BY <1>3 DEF Connection
  <2>3. /\ r.loop = conn[c].loop /\ r.fd = conn[c].fd
        /\ r.state = conn[c].state /\ r.index = conn[c].index
    BY <1>3, <2>1 DEF Connection
  <2>4. UpdateChannel(c, r, ev)
    BY <1>5, <2>1, <2>2
  <2>5. /\ \A d \in Conns \ {c} : conn'[d] = conn[d]
        /\ conn'[c].loop = r.loop /\ conn'[c].fd = r.fd /\ conn'[c].state = r.state
        /\ conn'[c].events = ev
        /\ conn'[c].index = IF r.index = "kAdded" /\ ev = {} THEN "kDeleted" ELSE "kAdded"
        /\ channels' = [channels EXCEPT ![r.loop][r.fd] = c]
    BY <2>4, UpdateIs DEF Inv, TypeInv
  <2>6. failed' = {}
    BY <1>3, <1>5, NoneFails DEF Registered
  <2>7. LET m == c \in connections
            ops == OpsOf(Queued, c)
        IN  /\ Up(conn[c], m, ops) \/ Closed(conn[c], m, ops)
            /\ Up(conn[c], m, ops) => Up(conn'[c], m, ops)
            /\ Closed(conn[c], m, ops) => Closed(conn'[c], m, ops)
    <3>1. Up(conn[c], c \in connections, OpsOf(Queued, c))
            \/ Closed(conn[c], c \in connections, OpsOf(Queued, c))
      BY <1>2, <1>5, OpenStages DEF Closing, Writing
    <3>2. Up(conn[c], c \in connections, OpsOf(Queued, c)) =>
            Up(conn'[c], c \in connections, OpsOf(Queued, c))
      BY <2>2, <2>3, <2>5 DEF Up, Open
    <3>3. Closed(conn[c], c \in connections, OpsOf(Queued, c)) =>
            Closed(conn'[c], c \in connections, OpsOf(Queued, c))
      BY <1>5, <2>2, <2>3, <2>5 DEF Closed, Open, Writing
    <3>. QED
      BY <3>1, <3>2, <3>3
  <2>8. Touches(c)
    BY <1>1, <1>2, <2>3, <2>5, <2>6 DEF Touches, Open
  <2>. QED
    BY <1>2, <2>7, <2>8, TouchesInv
<1>. QED
  BY <1>4, <1>5 DEF HandleWrite

LEMMA CloseInv ==
  ASSUME Inv, Discipline, TypeInv', NEW l \in Loops, NEW c \in Conns,
         HandlingEvent(l, c, "in"), HandleClose(l, c), UNCHANGED <<peer, user>>
  PROVE  Inv'
<1>1. /\ phase[l] = "events" /\ user[l] = None
      /\ Open(conn[c]) /\ conn[c].loop = l /\ IsUp(c)
      /\ "in" \notin revents'[c]
      /\ \A k \in Loops : Range(active'[k]) \subseteq Range(active[k])
      /\ \A k \in Loops : active[k] = <<>> => active'[k] = <<>>
      /\ \A d \in Conns : revents'[d] \subseteq revents[d]
      /\ UNCHANGED <<nextConnId, next, phase, batch, held, tpc>>
  BY HandlingIs
<1>2. /\ TypeOK /\ conn[c] \in Connection /\ conn[c].fd \in Fds /\ Alive(c)
      /\ conn[c].index # "kNew" /\ channels[conn[c].loop][conn[c].fd] = c
  BY <1>1, OpenStages, OpenIsAlive DEF Inv, TypeInv
<1>3. /\ conn[c].index = "kAdded" /\ c \in connections /\ OpsOf(Queued, c) = {}
  BY <1>1 DEF IsUp, Up
<1>4. UpdateChannel(c, conn[c], {})
  BY DEF HandleClose
<1>5. /\ \A d \in Conns \ {c} : conn'[d] = conn[d]
      /\ conn'[c].loop = conn[c].loop /\ conn'[c].fd = conn[c].fd
      /\ conn'[c].state = conn[c].state
      /\ conn'[c].events = {}
      /\ conn'[c].index = "kDeleted"
      /\ channels' = [channels EXCEPT ![conn[c].loop][conn[c].fd] = c]
  <2>1. {} \in SUBSET {"read", "write"}
    OBVIOUS
  <2>. QED
    BY <1>2, <1>3, <1>4, <2>1, UpdateIs
<1>6. failed' = {}
  <2>1. Registered(c, conn[c])
    BY <1>2 DEF Registered
  <2>2. conn[c].state \in {"kConnected", "kDisconnecting"} /\ (l = Base => c \in connections)
    BY <1>1, <1>3 DEF Open
  <2>. QED
    BY <2>1, <2>2, NoneFails DEF HandleClose
<1>7. PICK op \in {"remove", "destroy"} :
        /\ op = IF l = Base THEN "destroy" ELSE "remove"
        /\ pending' = Queue(Base, op, c)
        /\ connections' = IF l = Base THEN connections \ {c} ELSE connections
  BY <1>1 DEF HandleClose, RemoveConnection
<1>8. op \in Calls /\ Base \in Loops
  BY ListenerIsNoConn DEF Calls
<1>9. Remaining = Queued
  BY <1>1 DEF Remaining, Queued
<1>10. \A k \in Loops : <<op, c>> \notin Queued[k]
  BY <1>3, <1>8 DEF OpsOf
<1>11. Lines' /\ Adds(Queued, Queued', Base, <<op, c>>)
  <2>1. \A k \in Loops : Line(pending[k], batch'[k])
    BY <1>1 DEF Inv, Lines
  <2>. QED
    BY <1>2, <1>7, <1>8, <1>9, <1>10, <2>1, QueueIs
<1>12. /\ OpsOf(Queued', c) = {op}
       /\ \A d \in Conns \ {c} : OpsOf(Queued', d) = OpsOf(Queued, d)
  BY <1>3, <1>8, <1>11, OpsAdded
<1>13. Concerns(c)
  BY <1>1, <1>5, <1>7, <1>12 DEF Concerns
<1>14. Chans'
  BY <1>2, <1>5, <1>13, UpdatedChans DEF TypeInv
<1>15. Phases'
  <2>1. \A k \in Loops : IF phase'[k] = "events" THEN batch'[k] = <<>> ELSE active'[k] = <<>>
    BY <1>1 DEF Inv, Phases
  <2>2. Pool = <<>> => phase'[Base] = "events"
    BY <1>1, NoPool
  <2>. QED
    BY <2>1, <2>2 DEF Phases
<1>16. Stage(conn'[c], c \in connections', OpsOf(Queued', c))
  <2>1. CASE l = Base
    BY <1>1, <1>5, <1>7, <1>12, <2>1 DEF Stage, Closed, Open
  <2>2. CASE l # Base
    BY <1>1, <1>3, <1>5, <1>7, <1>12, <2>2 DEF Stage, Closing, Open
  <2>. QED
    BY <2>1, <2>2
<1>17. \A k \in Loops : \A f \in Queued'[k] :
         \/ f \in Queued[k]
         \/ \E o \in {"establish", "remove", "destroy"} :
              f = <<o, c>> /\ k = IF o = "remove" THEN Base ELSE conn[c].loop
  BY <1>1, <1>7, <1>8, <1>11 DEF Adds
<1>18. Open(conn'[c])
  BY <1>1, <1>5 DEF Open
<1>19. \A k \in Loops : user'[k] # c
  <2>1. \A k \in Loops : user[k] = c => conn[c].loop = k
    BY ListenerIsNoConn DEF Inv, Users
  <2>. QED
    BY <1>1, <2>1, ListenerIsNoConn
<1>. QED
  BY <1>1, <1>2, <1>6, <1>11, <1>13, <1>14, <1>15, <1>16, <1>17, <1>18, <1>19, ConcernsInv

LEMMA HandleEventInv ==
  ASSUME Inv, Discipline, TypeInv', NEW l \in Loops, HandleEvent(l)
  PROVE  Inv'
<1>1. PICK c \in Conns : HandleHup(l, c) \/ HandleRead(l, c) \/ HandleWrite(l, c)
  BY DEF HandleEvent
<1>2. ~ HandleHup(l, c)
  BY HandlingIs DEF HandleHup
<1>3. CASE HandleWrite(l, c)
  BY <1>3, WriteInv
<1>4. CASE HandleRead(l, c)
  <2>1. HandlingEvent(l, c, "in")
    BY <1>4 DEF HandleRead
  <2>2. CASE HandleClose(l, c) /\ UNCHANGED <<peer, user>>
    BY <2>1, <2>2, CloseInv
  <2>3. CASE /\ UNCHANGED <<connections, conn, channels, pending, failed>>
             /\ user' = user \/ user' = [user EXCEPT ![l] = c]
    <3>1. /\ Open(conn[c]) /\ conn[c].loop = l /\ IsUp(c)
          /\ \A k \in Loops : Range(active'[k]) \subseteq Range(active[k])
          /\ \A d \in Conns : revents'[d] \subseteq revents[d]
          /\ UNCHANGED <<nextConnId, next, phase, batch, held, tpc>>
      BY <2>1, HandlingIs
    <3>2. user \in [Loops -> Conns \cup {None}] /\ failed = {}
      BY DEF Inv, TypeInv, TypeOK
    <3>3. Touches(c)
      BY <2>3, <3>1, <3>2 DEF Touches
    <3>4. Up(conn[c], c \in connections, OpsOf(Queued, c))
      BY <3>1 DEF IsUp
    <3>. QED
      BY <2>3, <3>1, <3>3, <3>4, TouchesInv
  <2>. QED
    BY <1>4, <2>2, <2>3 DEF HandleRead
<1>. QED
  BY <1>1, <1>2, <1>3, <1>4

(***************************************************************************)
(* The functor called is the one its connection's stage is waiting for.    *)
(***************************************************************************)
LEMMA CalledIs ==
  ASSUME Inv, Discipline, NEW l \in Loops, NEW op, NEW c \in Conns, Calling(l, op, c)
  PROVE  /\ phase[l] = "functors" /\ user[l] = None /\ active[l] = <<>>
         /\ op \in {"establish", "remove", "destroy"}
         /\ l = IF op = "remove" THEN Base ELSE conn[c].loop
         /\ OpsOf(Queued, c) = {op} /\ Alive(c) /\ c \in Live
         /\ \A k \in Loops : Line(pending[k], batch'[k])
         /\ Takes(Queued, Remaining, l, <<op, c>>)
         /\ OpsOf(Remaining, c) = {}
         /\ \A d \in Conns \ {c} : OpsOf(Remaining, d) = OpsOf(Queued, d)
         /\ conn[c] \in Connection /\ conn[c].fd \in Fds
         /\ \A k \in Loops : phase[k] = "events" => batch'[k] = <<>>
         /\ \A k \in Loops : user[k] = c => conn[c].loop = k
         /\ UNCHANGED <<nextConnId, next, peer, phase, active, revents, tpc>>
<1>0. TypeOK /\ Lines
  BY DEF Inv, TypeInv
<1>1. /\ phase[l] = "functors" /\ user[l] = None
      /\ UNCHANGED <<nextConnId, next, peer, phase, active, revents, tpc>>
  BY DEF Calling
<1>2. /\ op \in Calls /\ <<op, c>> \in Queued[l]
      /\ \A k \in Loops : k # l => batch'[k] = batch[k]
      /\ \A k \in Loops : Line(pending[k], batch'[k])
      /\ Takes(Queued, Remaining, l, <<op, c>>)
  BY <1>0, CallingIs
<1>3. \A k \in Loops : <<op, c>> \in Queued[k] =>
        /\ op \in {"establish", "remove", "destroy"}
        /\ k = IF op = "remove" THEN Base ELSE conn[c].loop
  BY DEF Inv, Placed, PlacedIn
<1>4. op \in OpsOf(Queued, c)
  BY <1>2 DEF OpsOf
<1>5. Alive(c) /\ c \in Live
  BY <1>4, OpenIsAlive, AliveIsLive
<1>6. OpsOf(Queued, c) = {op}
  BY <1>4, <1>5 DEF Alive, Stage, Starting, Up, Closing, Closed, Down
<1>7. /\ OpsOf(Remaining, c) = OpsOf(Queued, c) \ {op}
      /\ \A d \in Conns \ {c} : OpsOf(Remaining, d) = OpsOf(Queued, d)
  BY <1>2, <1>3, OpsTaken
<1>8. active[l] = <<>> /\ \A k \in Loops : phase[k] = "events" => batch[k] = <<>>
  BY <1>1 DEF Inv, Phases
<1>9. \A k \in Loops : phase[k] = "events" => batch'[k] = <<>>
  BY <1>1, <1>2, <1>8
<1>10. conn[c] \in Connection /\ conn[c].fd \in Fds
  BY <1>0, <1>5, ConnType DEF Inv, Descriptors
<1>11. \A k \in Loops : user[k] = c => conn[c].loop = k
  BY ListenerIsNoConn DEF Inv, Users
<1>. QED
  BY <1>1, <1>2, <1>3, <1>5, <1>6, <1>7, <1>8, <1>9, <1>10, <1>11

\* What is called does not disturb the phases, unless it queues.
LEMMA CalledPhases ==
  ASSUME Inv, UNCHANGED <<phase, active>>,
         \A k \in Loops : phase[k] = "events" => batch'[k] = <<>>,
         UNCHANGED pending \/ Pool # <<>>
  PROVE  Phases'
<1>1. \A k \in Loops : IF phase'[k] = "events" THEN batch'[k] = <<>> ELSE active'[k] = <<>>
  BY DEF Inv, Phases
<1>2. Pool = <<>> /\ phase'[Base] = "functors" =>
        \A c \in Conns : <<"destroy", c>> \notin Range(pending'[Base])
  BY DEF Inv, Phases
<1>. QED
  BY <1>1, <1>2 DEF Phases

(***************************************************************************)
(* A descriptor that a new connection brings is not in channels_.          *)
(***************************************************************************)
LEMMA NewIsUnregistered ==
  ASSUME Inv, Discipline, NEW l \in Loops, NEW fd \in Fds,
         \A d \in Live : conn[d].fd = fd => conn[d].index = "kNew"
  PROVE  channels[l][fd] = None
<1>1. ASSUME channels[l][fd] # None PROVE FALSE
  <2>1. PICK d : d = channels[l][fd]
    OBVIOUS
  <2>2. d \in Conns
    BY <1>1, <2>1 DEF Inv, TypeInv, TypeOK
  <2>3. conn[d].fd = fd /\ conn[d].index # "kNew"
    BY <1>1, <2>1 DEF Inv, Chans
  <2>4. d \in Live
    BY <2>2, <2>3, OpenIsAlive, AliveIsLive
  <2>. QED
    BY <2>3, <2>4
<1>. QED
  BY <1>1

LEMMA CallEstablishedInv ==
  ASSUME Inv, Discipline, TypeInv', NEW l \in Loops, NEW c \in Conns, CallEstablished(l, c)
  PROVE  Inv'
<1>1. /\ Calling(l, "establish", c) /\ ConnectEstablished(l, c, conn[c])
      /\ UNCHANGED <<connections, pending>>
  BY DEF CallEstablished
<1>2. /\ user[l] = None /\ active[l] = <<>> /\ l = conn[c].loop
      /\ OpsOf(Queued, c) = {"establish"} /\ Alive(c) /\ c \in Live
      /\ \A k \in Loops : Line(pending[k], batch'[k])
      /\ Takes(Queued, Remaining, l, <<"establish", c>>)
      /\ OpsOf(Remaining, c) = {}
      /\ \A d \in Conns \ {c} : OpsOf(Remaining, d) = OpsOf(Queued, d)
      /\ conn[c] \in Connection /\ conn[c].fd \in Fds
      /\ \A k \in Loops : phase[k] = "events" => batch'[k] = <<>>
      /\ \A k \in Loops : user[k] = c => conn[c].loop = k
      /\ UNCHANGED <<nextConnId, next, peer, phase, active, revents, tpc>>
  BY <1>1, CalledIs
<1>3. TypeOK /\ user \in [Loops -> Conns \cup {None}]
  BY DEF Inv, TypeInv, TypeOK
<1>4. Starting(conn[c], c \in connections, OpsOf(Queued, c))
  BY <1>2 DEF Alive, Stage, Up, Closing, Closed, Down
<1>5. channels[conn[c].loop][conn[c].fd] = None
  <2>1. \A d \in Live : conn[d].fd = conn[c].fd => conn[d].index = "kNew"
    BY <1>2, <1>4 DEF Inv, Descriptors, Starting
  <2>. QED
    BY <1>2, <2>1, NewIsUnregistered
<1>6. failed' = {}
  <2>1. Registered(c, conn[c]) /\ conn[c].state = "kConnecting"
    BY <1>4, <1>5 DEF Registered, Starting
  <2>. QED
    BY <1>1, <2>1, NoneFails DEF ConnectEstablished
<1>7. /\ \A d \in Conns \ {c} : conn'[d] = conn[d]
      /\ conn'[c].loop = conn[c].loop /\ conn'[c].fd = conn[c].fd
      /\ conn'[c].state = "kConnected"
      /\ conn'[c].events = {"read"}
      /\ conn'[c].index = "kAdded"
      /\ channels' = [channels EXCEPT ![conn[c].loop][conn[c].fd] = c]
  <2>1. PICK r \in Connection : r = [conn[c] EXCEPT !.state = "kConnected"]
    BY <1>2 DEF Connection
  <2>2. PICK ev \in SUBSET {"read", "write"} : ev = conn[c].events \cup {"read"} /\ ev = {"read"}
    BY <1>4 DEF Starting
  <2>3. UpdateChannel(c, r, ev)
    BY <1>1, <2>1, <2>2 DEF ConnectEstablished
  <2>4. r.loop = conn[c].loop /\ r.fd = conn[c].fd /\ r.state = "kConnected"
    BY <1>2, <2>1 DEF Connection
  <2>. QED
    BY <1>3, <2>2, <2>3, <2>4, UpdateIs
<1>8. Queued' = Remaining
  BY <1>1 DEF Queued, Remaining
<1>9. /\ \A k \in Loops : user'[k] = IF k = l THEN c ELSE user[k]
      /\ held' \subseteq held \cup {c}
  BY <1>1, <1>3 DEF ConnectEstablished
<1>10. Concerns(c)
  BY <1>1, <1>2, <1>7, <1>8, <1>9 DEF Concerns
<1>11. Lines' /\ Phases'
  <2>1. Lines'
    BY <1>1, <1>2 DEF Lines
  <2>. QED
    BY <1>1, <1>2, <2>1, CalledPhases
<1>12. Chans'
  BY <1>2, <1>5, <1>7, <1>10, UpdatedChans DEF TypeInv
<1>13. Up(conn'[c], c \in connections', OpsOf(Queued', c))
  BY <1>1, <1>2, <1>4, <1>7, <1>8 DEF Up, Starting, Open
<1>14. Stage(conn'[c], c \in connections', OpsOf(Queued', c)) /\ IsUp(c)' /\ Open(conn'[c])
  BY <1>13 DEF Stage, IsUp, Up
<1>15. \A k \in Loops : \A f \in Queued'[k] : f \in Queued[k]
  BY <1>2, <1>8 DEF Takes
<1>16. \A k \in Loops : user'[k] = c => conn[c].loop = k
  BY <1>2, <1>9
<1>. QED
  BY <1>2, <1>6, <1>10, <1>11, <1>12, <1>14, <1>15, <1>16, ConcernsInv

LEMMA CallRemoveInv ==
  ASSUME Inv, Discipline, TypeInv', NEW l \in Loops, NEW c \in Conns, CallRemove(l, c)
  PROVE  Inv'
<1>1. /\ Calling(l, "remove", c)
      /\ connections' = connections \ {c}
      /\ pending' = Queue(conn[c].loop, "destroy", c)
      /\ failed' = Failing([erased |-> c \in connections])
      /\ UNCHANGED <<conn, channels, user, held>>
  BY DEF CallRemove, RemoveConnection
<1>2. /\ l = Base
      /\ OpsOf(Queued, c) = {"remove"} /\ Alive(c)
      /\ \A k \in Loops : Line(pending[k], batch'[k])
      /\ Takes(Queued, Remaining, l, <<"remove", c>>)
      /\ OpsOf(Remaining, c) = {}
      /\ \A d \in Conns \ {c} : OpsOf(Remaining, d) = OpsOf(Queued, d)
      /\ conn[c] \in Connection
      /\ \A k \in Loops : phase[k] = "events" => batch'[k] = <<>>
      /\ UNCHANGED <<nextConnId, next, peer, phase, active, revents, tpc>>
  BY <1>1, CalledIs
<1>3. TypeOK
  BY DEF Inv, TypeInv
<1>4. Closing(conn[c], c \in connections, OpsOf(Queued, c))
  BY <1>2 DEF Alive, Stage, Up, Starting, Closed, Down
<1>5. conn[c].loop \in Loops /\ conn[c].loop # Base /\ Pool # <<>> /\ c \in connections
  <2>1. conn[c].loop \in Loops /\ conn[c].loop # Base /\ c \in connections
    BY <1>2, <1>4 DEF Closing, Connection
  <2>. QED
    BY <2>1, NoPool
<1>6. failed' = {}
  BY <1>1, <1>5, NoneFails
<1>7. "destroy" \in Calls
  BY DEF Calls
<1>8. Lines' /\ Adds(Remaining, Queued', conn[c].loop, <<"destroy", c>>)
  <2>1. <<"destroy", c>> \notin Remaining[conn[c].loop]
    BY <1>2, <1>5, <1>7 DEF OpsOf
  <2>. QED
    BY <1>1, <1>2, <1>3, <1>5, <1>7, <2>1, QueueIs
<1>9. /\ OpsOf(Queued', c) = {"destroy"}
      /\ \A d \in Conns \ {c} : OpsOf(Queued', d) = OpsOf(Queued, d)
  <2>1. /\ OpsOf(Queued', c) = OpsOf(Remaining, c) \cup {"destroy"}
        /\ \A d \in Conns \ {c} : OpsOf(Queued', d) = OpsOf(Remaining, d)
    BY <1>5, <1>7, <1>8, OpsAdded
  <2>. QED
    BY <1>2, <2>1
<1>10. Concerns(c)
  BY <1>1, <1>2, <1>9 DEF Concerns
<1>11. Phases'
  BY <1>2, <1>5, CalledPhases
<1>12. Chans'
  BY <1>1, <1>10, SameChans
<1>13. Stage(conn'[c], c \in connections', OpsOf(Queued', c)) /\ Open(conn'[c])
  BY <1>1, <1>4, <1>9 DEF Stage, Closing, Closed, Open
<1>14. \A k \in Loops : \A f \in Queued'[k] :
         \/ f \in Queued[k]
         \/ \E o \in {"establish", "remove", "destroy"} :
              f = <<o, c>> /\ k = IF o = "remove" THEN Base ELSE conn[c].loop
  <2>1. \A k \in Loops : \A f \in Remaining[k] : f \in Queued[k]
    BY <1>2 DEF Takes
  <2>2. \A k \in Loops : \A f \in Queued'[k] :
          f \in Remaining[k] \/ (f = <<"destroy", c>> /\ k = conn[c].loop)
    BY <1>8 DEF Adds
  <2>. QED
    BY <2>1, <2>2
<1>15. ~ IsUp(c) /\ ~ IsDown(c)
  BY <1>4 DEF Closing, IsUp, Up, IsDown, Open
<1>16. \A k \in Loops : c \in Range(active'[k]) => "in" \notin revents'[c]
  BY <1>2, <1>15, ListenerIsNoConn DEF Inv, Actives
<1>17. \A k \in Loops : user'[k] # c
  BY <1>1, <1>5, <1>15, ListenerIsNoConn DEF Inv, Users
<1>. QED
  BY <1>2, <1>6, <1>8, <1>10, <1>11, <1>12, <1>13, <1>14, <1>16, <1>17, ConcernsInv

LEMMA CallDestroyedInv ==
  ASSUME Inv, Discipline, TypeInv', NEW l \in Loops, NEW c \in Conns, CallDestroyed(l, c)
  PROVE  Inv'
<1>1. /\ Calling(l, "destroy", c)
      /\ conn' = [conn EXCEPT ![c].state = "kDisconnected", ![c].events = {},
                              ![c].index = "kNew"]
      /\ channels' = [channels EXCEPT ![l][conn[c].fd] = None]
      /\ user' = [user EXCEPT ![l] = c]
      /\ failed' = Failing([open       |-> conn[c].state \in {"kConnected", "kDisconnecting"},
                            registered |-> Registered(c, conn[c])])
      /\ UNCHANGED <<connections, pending, held>>
  BY DEF CallDestroyed
<1>2. /\ user[l] = None /\ active[l] = <<>> /\ l = conn[c].loop
      /\ OpsOf(Queued, c) = {"destroy"} /\ Alive(c)
      /\ \A k \in Loops : Line(pending[k], batch'[k])
      /\ Takes(Queued, Remaining, l, <<"destroy", c>>)
      /\ OpsOf(Remaining, c) = {}
      /\ \A d \in Conns \ {c} : OpsOf(Remaining, d) = OpsOf(Queued, d)
      /\ conn[c] \in Connection /\ conn[c].fd \in Fds
      /\ \A k \in Loops : phase[k] = "events" => batch'[k] = <<>>
      /\ \A k \in Loops : user[k] = c => conn[c].loop = k
      /\ UNCHANGED <<nextConnId, next, peer, phase, active, revents, tpc>>
  BY <1>1, CalledIs
<1>3. /\ user \in [Loops -> Conns \cup {None}] /\ conn \in [Conns -> Connection]
      /\ channels \in [Loops -> [Fds -> Conns \cup {None}]]
  BY ConnType DEF Inv, TypeInv, TypeOK
<1>4. Closed(conn[c], c \in connections, OpsOf(Queued, c))
  BY <1>2 DEF Alive, Stage, Up, Starting, Closing, Down
<1>5. failed' = {}
  <2>1. Open(conn[c])
    BY <1>4 DEF Closed
  <2>2. Registered(c, conn[c])
    BY <2>1, OpenStages DEF Registered
  <2>. QED
    BY <1>1, <2>1, <2>2, NoneFails DEF Open
<1>6. /\ \A d \in Conns \ {c} : conn'[d] = conn[d]
      /\ conn'[c].loop = conn[c].loop /\ conn'[c].fd = conn[c].fd
      /\ conn'[c].state = "kDisconnected"
      /\ conn'[c].events = {}
      /\ conn'[c].index = "kNew"
  BY <1>1, <1>3 DEF Connection
<1>7. Queued' = Remaining
  BY <1>1 DEF Queued, Remaining
<1>8. \A k \in Loops : user'[k] = IF k = l THEN c ELSE user[k]
  BY <1>1, <1>3
<1>9. Concerns(c)
  BY <1>1, <1>2, <1>6, <1>7, <1>8 DEF Concerns
<1>10. Lines' /\ Phases'
  <2>1. Lines'
    BY <1>1, <1>2 DEF Lines
  <2>. QED
    BY <1>1, <1>2, <2>1, CalledPhases
<1>11. Chans'
  <2>1. \A d \in Conns : /\ conn'[d].loop = conn[d].loop /\ conn'[d].fd = conn[d].fd
                         /\ d # c => conn'[d].index = conn[d].index
    BY <1>6
  <2>2. channels[l][conn[c].fd] = c
    <3>1. Open(conn[c])
      BY <1>4 DEF Closed
    <3>. QED
      BY <1>2, <3>1, OpenStages
  <2>3. \A k \in Loops, fd \in Fds :
          channels'[k][fd] = IF k = l /\ fd = conn[c].fd THEN None ELSE channels[k][fd]
    BY <1>1, <1>2, <1>3
  <2>4. ASSUME NEW k \in Loops, NEW fd \in Fds, channels'[k][fd] # None
        PROVE  LET r == conn'[channels'[k][fd]] IN r.loop = k /\ r.fd = fd /\ r.index # "kNew"
    <3>1. channels'[k][fd] = channels[k][fd] /\ channels[k][fd] \in Conns
      BY <1>3, <2>3, <2>4
    <3>2. LET r == conn[channels[k][fd]] IN r.loop = k /\ r.fd = fd /\ r.index # "kNew"
      BY <2>4, <3>1 DEF Inv, Chans
    <3>3. channels[k][fd] # c
      BY <1>2, <2>3, <2>4, <3>2
    <3>. QED
      BY <2>1, <3>1, <3>2, <3>3
  <2>5. ASSUME NEW d \in Conns, conn'[d].index # "kNew"
        PROVE  channels'[conn'[d].loop][conn'[d].fd] = d
    <3>1. d # c
      BY <1>6, <2>5
    <3>2. channels[conn[d].loop][conn[d].fd] = d /\ Alive(d)
      BY <2>1, <2>5, <3>1, OpenIsAlive DEF Inv, Chans
    <3>3. conn[d].loop \in Loops /\ conn[d].fd \in Fds
      BY <1>3, <3>2, AliveIsLive DEF Inv, Descriptors, Connection
    <3>4. channels'[conn[d].loop][conn[d].fd] = d
      BY <2>2, <2>3, <3>1, <3>2, <3>3
    <3>. QED
      BY <2>1, <3>4
  <2>. QED
    BY <2>4, <2>5 DEF Chans
<1>12. Stage(conn'[c], c \in connections', OpsOf(Queued', c)) /\ IsDown(c)'
  BY <1>1, <1>2, <1>4, <1>6, <1>7 DEF Stage, Closed, Down, IsDown
<1>13. \A k \in Loops : \A f \in Queued'[k] : f \in Queued[k]
  BY <1>2, <1>7 DEF Takes
<1>14. \A k \in Loops : user'[k] = c => conn[c].loop = k
  BY <1>2, <1>8
<1>15. \A k \in Loops : c \notin Range(active'[k])
  <2>1. \A k \in Loops : c \in Range(active[k]) => k = l
    BY <1>2, ListenerIsNoConn DEF Inv, Actives
  <2>2. Range(<<>>) = {}
    BY DEF Range
  <2>. QED
    BY <1>2, <2>1, <2>2
<1>. QED
  BY <1>2, <1>5, <1>9, <1>10, <1>11, <1>12, <1>13, <1>14, <1>15, ConcernsInv

LEMMA CallFunctorInv ==
  ASSUME Inv, Discipline, TypeInv', NEW l \in Loops, CallFunctor(l)
  PROVE  Inv'
<1>1. PICK c \in Conns : \/ CallEstablished(l, c) \/ CallRemove(l, c) \/ CallDestroyed(l, c)
                         \/ CallSend(l, c) \/ CallShutdown(l, c)
  BY DEF CallFunctor
<1>2. ~ CallSend(l, c) /\ ~ CallShutdown(l, c)
  <2>1. ASSUME NEW op, Calling(l, op, c) PROVE op \in {"establish", "remove", "destroy"}
    BY <2>1, CalledIs
  <2>. QED
    BY <2>1 DEF CallSend, CallShutdown
<1>. QED
  BY <1>1, <1>2, CallEstablishedInv, CallRemoveInv, CallDestroyedInv

(***************************************************************************)
(* newConnection(): the new connection takes the place of an unborn one.   *)
(***************************************************************************)
LEMMA NewLives ==
  ASSUME Inv, NEW c \in Conns, c = nextConnId, nextConnId' = nextConnId + 1,
         \A d \in Conns \ {c} : /\ conn'[d] = conn[d]
                                /\ d \in connections' <=> d \in connections
                                /\ OpsOf(Queued', d) = OpsOf(Queued, d),
         Stage(conn'[c], c \in connections', OpsOf(Queued', c))
  PROVE  Lives'
<1>1. ASSUME NEW d \in Conns, d # c
      PROVE  IF d < nextConnId' THEN Stage(conn'[d], d \in connections', OpsOf(Queued', d))
             ELSE conn'[d] = Unborn /\ d \notin connections' /\ OpsOf(Queued', d) = {}
  <2>1. /\ conn'[d] = conn[d]
        /\ OpsOf(Queued', d) = OpsOf(Queued, d)
    BY <1>1
  <2>2. (d \in connections') = (d \in connections)
    BY <1>1
  <2>3. IF d < nextConnId THEN Stage(conn[d], d \in connections, OpsOf(Queued, d))
             ELSE conn[d] = Unborn /\ d \notin connections /\ OpsOf(Queued, d) = {}
    BY DEF Inv, Lives
  <2>4. d < nextConnId' <=> d < nextConnId
    BY <1>1 DEF Conns
  <2>. QED
    BY <2>1, <2>2, <2>3, <2>4
<1>2. c < nextConnId'
  BY DEF Conns
<1>. QED
  BY <1>1, <1>2 DEF Lives

LEMMA NewDescriptors ==
  ASSUME Inv, Discipline, TypeOK', Placed', NEW c \in Conns,
         conn'[c].fd \in FreeFds,
         \A d \in Conns \ {c} : /\ conn'[d] = conn[d]
                                /\ d \in connections' <=> d \in connections
                                /\ OpsOf(Queued', d) = OpsOf(Queued, d),
         held' \subseteq held \cup {c},
         \A l \in Loops : user'[l] \in {user[l], c}
  PROVE  Descriptors'
<1>1. Referred /\ Referred'
  BY LiveIs, LiveThen DEF Inv, TypeInv
<1>2. Live' \subseteq Conns
  <2>1. (Live \subseteq Conns)'
    BY LiveType, PTL
  <2>. QED
    BY <2>1
<1>3. ASSUME NEW d \in Live', d # c PROVE d \in Live /\ d \in Conns
  <2>1. d \in Conns
    BY <1>2
  <2>2. \/ d \in connections' \/ d \in held' \/ OpsOf(Queued', d) # {}
        \/ \E l \in Loops : user'[l] = d
    BY <1>1, <2>1 DEF Referred
  <2>3. \/ d \in connections \/ d \in held \/ OpsOf(Queued, d) # {}
        \/ \E l \in Loops : user[l] = d
    BY <1>3, <2>1, <2>2
  <2>. QED
    BY <1>1, <2>1, <2>3 DEF Referred
<1>4. ASSUME NEW d \in Live', d # c
      PROVE  conn'[d].fd = conn[d].fd /\ conn[d].fd \in Fds /\ conn[d].fd # conn'[c].fd
  BY <1>3, <1>4 DEF FreeFds, Inv, Descriptors
<1>5. conn'[c].fd \in Fds
  BY DEF FreeFds
<1>. QED
  BY <1>3, <1>4, <1>5 DEF Inv, Descriptors

LEMMA AcceptInv ==
  ASSUME Inv, Discipline, TypeInv', Accept
  PROVE  Inv'
<1>0. TypeOK /\ Listens /\ failed = {} /\ Base \in Loops
  BY ListenerIsNoConn DEF Inv, TypeInv
<1>1. /\ phase[Base] = "events" /\ user[Base] = None
      /\ active[Base] # <<>> /\ Listener = Head(active[Base])
      /\ active' = [active EXCEPT ![Base] = Tail(@)]
      /\ UNCHANGED <<peer, phase, revents, batch, tpc>>
  BY DEF Accept, Handling
<1>2. active \in [Loops -> Seq(Conns \cup {Listener})]
  BY <1>0 DEF TypeOK
<1>3. Listener \in Range(active[Base]) /\ Range(Tail(active[Base])) \subseteq Range(active[Base])
  BY <1>0, <1>1, <1>2, TailIs
<1>4. /\ \A k \in Loops : Range(active'[k]) \subseteq Range(active[k])
      /\ \A k \in Loops : active[k] = <<>> => active'[k] = <<>>
  <2>1. \A k \in Loops : active'[k] = IF k = Base THEN Tail(active[Base]) ELSE active[k]
    BY <1>1, <1>2
  <2>. QED
    BY <1>1, <1>3, <2>1
<1>5. Phases'
  <2>1. \A k \in Loops : IF phase'[k] = "events" THEN batch'[k] = <<>> ELSE active'[k] = <<>>
    BY <1>1, <1>4 DEF Inv, Phases
  <2>. QED
    BY <1>1, <2>1 DEF Phases
<1>6. \A k \in Loops : Range(active[k]) \subseteq Conns \cup {Listener}
  <2>1. \A k \in Loops : active[k] \in Seq(Conns \cup {Listener})
    BY <1>2
  <2>. QED
    BY <2>1, RangeIs
<1>7. CASE UNCHANGED <<nextConnId, next, connections, conn, channels, user, pending, held, failed>>
  <2>1. Queued' = Queued /\ Lines'
    BY <1>1, <1>7 DEF Queued, Inv, Lines
  <2>2. Actives'
    <3>1. \A d : IsUp(d) => IsUp(d)'
      BY <1>7, <2>1 DEF IsUp
    <3>. QED
      BY <1>1, <1>4, <1>7, <3>1 DEF Inv, Actives
  <2>. QED
    BY <1>5, <1>7, <2>1, <2>2, RestsInv
<1>8. CASE FreeFds # {} /\ NewConnection(Min(FreeFds))
  <2>1. nextConnId \in Conns
    BY <1>0, <1>3 DEF TypeOK, Listens, Conns
  <2>2. PICK c \in Conns : c = nextConnId
    BY <2>1
  <2>3. PICK k \in Loops, fd \in FreeFds, r \in Connection :
           /\ r = [Unborn EXCEPT !.loop = k, !.fd = fd]
           /\ k = Base <=> Pool = <<>>
           /\ fd \in Fds
           /\ nextConnId' = nextConnId + 1
           /\ next' = IF Pool = <<>> THEN next ELSE NextIndex
           /\ connections' = connections \cup {c}
           /\ IF k = Base
              THEN ConnectEstablished(Base, c, r) /\ UNCHANGED pending
              ELSE /\ conn' = [conn EXCEPT ![c] = r]
                   /\ pending' = Queue(k, "establish", c)
                   /\ UNCHANGED <<channels, user, held, failed>>
    BY <1>0, <1>8, <2>2, NewIs
  <2>4. conn[c] = Unborn /\ c \notin connections /\ OpsOf(Queued, c) = {}
    <3>1. ~ (c < nextConnId)
      BY <2>2 DEF Conns
    <3>. QED
      BY <3>1 DEF Inv, Lives
  <2>5. /\ r.loop = k /\ r.fd = fd /\ r.state = "kConnecting" /\ r.events = {}
        /\ r.index = "kNew"
    BY <2>3 DEF Unborn
  <2>6. /\ conn[c].loop = Base /\ conn[c].index = "kNew" /\ ~ Open(conn[c])
        /\ ~ IsUp(c) /\ ~ IsDown(c)
    BY <2>4 DEF Unborn, Open, IsUp, Up, IsDown
  <2>7. /\ \A l \in Loops : c \notin Range(active'[l])
        /\ \A l \in Loops : user[l] # c
    <3>1. \A l \in Loops : c \notin Range(active[l])
      BY <2>6, ListenerIsNoConn DEF Inv, Actives
    <3>2. \A l \in Loops : user[l] = c => l = Base
      BY <2>6, ListenerIsNoConn DEF Inv, Users
    <3>. QED
      BY <1>1, <1>4, <3>1, <3>2, ListenerIsNoConn
  <2>8. /\ conn \in [Conns -> Connection]
        /\ user \in [Loops -> Conns \cup {None}]
        /\ \A l \in Loops : Line(pending[l], batch'[l])
        /\ Remaining = Queued
    BY <1>0, <1>1, ConnType DEF TypeOK, Inv, Lines, Remaining, Queued
  <2>9. channels[k][fd] = None
    <3>1. \A d \in Live : conn[d].fd # fd
      BY DEF FreeFds
    <3>. QED
      BY <2>3, <3>1, NewIsUnregistered
  \* What the two cases have in common.
  <2>10. /\ failed' = {} /\ Lines' /\ Chans'
         /\ \A d \in Conns \ {c} : /\ conn'[d] = conn[d]
                                   /\ OpsOf(Queued', d) = OpsOf(Queued, d)
         /\ conn'[c].loop = k /\ conn'[c].fd = fd
         /\ Stage(conn'[c], c \in connections', OpsOf(Queued', c))
         /\ \A l \in Loops : \A f \in Queued'[l] :
              f \in Queued[l] \/ (f = <<"establish", c>> /\ l = k)
         /\ held' \subseteq held \cup {c}
         /\ \A l \in Loops : user'[l] = user[l] \/ (user'[l] = c /\ l = k /\ IsUp(c)')
    <3>1. CASE k = Base
      <4>1. ConnectEstablished(Base, c, r) /\ UNCHANGED pending
        BY <2>3, <3>1
      <4>2. /\ \A d \in Conns \ {c} : conn'[d] = conn[d]
            /\ conn'[c].loop = k /\ conn'[c].fd = fd
            /\ conn'[c].state = "kConnected"
            /\ conn'[c].events = {"read"}
            /\ conn'[c].index = "kAdded"
            /\ channels' = [channels EXCEPT ![k][fd] = c]
        <5>1. PICK s \in Connection : s = [r EXCEPT !.state = "kConnected"]
          BY DEF Connection
        <5>2. PICK ev \in SUBSET {"read", "write"} : ev = r.events \cup {"read"} /\ ev = {"read"}
          BY <2>5
        <5>3. UpdateChannel(c, s, ev)
          BY <4>1, <5>1, <5>2 DEF ConnectEstablished
        <5>4. s.loop = k /\ s.fd = fd /\ s.state = "kConnected"
          BY <2>5, <5>1 DEF Connection
        <5>5. /\ \A d \in Conns \ {c} : conn'[d] = conn[d]
              /\ conn'[c].loop = s.loop /\ conn'[c].fd = s.fd /\ conn'[c].state = s.state
              /\ conn'[c].events = ev
              /\ conn'[c].index = IF s.index = "kAdded" /\ ev = {} THEN "kDeleted" ELSE "kAdded"
              /\ channels' = [channels EXCEPT ![s.loop][s.fd] = c]
          BY <1>0, <5>3, UpdateIs
        <5>. QED
          BY <5>2, <5>4, <5>5
      <4>3. failed' = {}
        <5>1. Registered(c, r) /\ r.state = "kConnecting"
          BY <2>5, <2>9 DEF Registered
        <5>. QED
          BY <4>1, <5>1, NoneFails DEF ConnectEstablished
      <4>4. Queued' = Queued /\ Lines'
        BY <1>1, <4>1 DEF Queued, Inv, Lines
      <4>5. Chans'
        BY <2>3, <2>6, <2>9, <4>2, ChannelUpdated
      <4>6. Up(conn'[c], c \in connections', OpsOf(Queued', c))
        BY <2>3, <2>4, <4>2, <4>4 DEF Up, Open
      <4>7. Stage(conn'[c], c \in connections', OpsOf(Queued', c)) /\ IsUp(c)'
        BY <4>6 DEF Stage, IsUp
      <4>8. /\ held' \subseteq held \cup {c}
            /\ \A l \in Loops : user'[l] = IF l = Base THEN c ELSE user[l]
        BY <2>8, <4>1 DEF ConnectEstablished
      <4>. QED
        BY <3>1, <4>2, <4>3, <4>4, <4>5, <4>7, <4>8
    <3>2. CASE k # Base
      <4>1. /\ conn' = [conn EXCEPT ![c] = r]
            /\ pending' = Queue(k, "establish", c)
            /\ UNCHANGED <<channels, user, held, failed>>
        BY <2>3, <3>2
      <4>2. conn'[c] = r /\ \A d \in Conns \ {c} : conn'[d] = conn[d]
        BY <2>8, <4>1
      <4>3. "establish" \in Calls
        BY DEF Calls
      <4>4. Lines' /\ Adds(Queued, Queued', k, <<"establish", c>>)
        <5>1. <<"establish", c>> \notin Queued[k]
          BY <2>4, <4>3 DEF OpsOf
        <5>. QED
          BY <1>0, <2>8, <4>1, <4>3, <5>1, QueueIs
      <4>5. /\ OpsOf(Queued', c) = {"establish"}
            /\ \A d \in Conns \ {c} : OpsOf(Queued', d) = OpsOf(Queued, d)
        BY <2>4, <4>3, <4>4, OpsAdded
      <4>6. Stage(conn'[c], c \in connections', OpsOf(Queued', c))
        BY <2>3, <2>5, <3>2, <4>2, <4>5 DEF Stage, Starting
      <4>7. \A l \in Loops : \A f \in Queued'[l] :
              f \in Queued[l] \/ (f = <<"establish", c>> /\ l = k)
        BY <4>4 DEF Adds
      <4>8. Chans'
        <5>1. \A d \in Conns : conn'[d].index # "kNew" => d # c
          BY <2>5, <4>2
        <5>2. \A l \in Loops, e \in Fds : channels[l][e] # None =>
                channels[l][e] \in Conns \ {c}
          <6>1. \A l \in Loops, e \in Fds : channels[l][e] \in Conns \cup {None}
            BY <1>0 DEF TypeOK
          <6>2. \A l \in Loops, e \in Fds : channels[l][e] # None => channels[l][e] # c
            BY <2>6 DEF Inv, Chans
          <6>. QED
            BY <6>1, <6>2
        <5>3. UNCHANGED channels
          BY <4>1
        <5>. QED
          BY <4>2, <5>1, <5>2, <5>3 DEF Inv, Chans
      <4>. QED
        BY <1>0, <2>5, <4>1, <4>2, <4>4, <4>5, <4>6, <4>7, <4>8
    <3>. QED
      BY <3>1, <3>2
  <2>11. \A d \in Conns \ {c} : d \in connections' <=> d \in connections
    BY <2>3
  <2>12. Lives'
    BY <2>2, <2>3, <2>10, <2>11, NewLives
  <2>13. Placed'
    <3>1. ASSUME NEW l \in Loops, NEW f \in Queued'[l]
          PROVE  /\ f \in {"establish", "remove", "destroy"} \X Conns
                 /\ l = IF f[1] = "remove" THEN Base ELSE conn'[f[2]].loop
      <4>1. CASE f \in Queued[l]
        <5>1. /\ f \in {"establish", "remove", "destroy"} \X Conns
              /\ l = IF f[1] = "remove" THEN Base ELSE conn[f[2]].loop
          BY <4>1 DEF Inv, Placed, PlacedIn
        <5>2. PICK o \in {"establish", "remove", "destroy"}, d \in Conns : f = <<o, d>>
          BY <5>1
        <5>3. d # c
          BY <2>4, <4>1, <5>2 DEF OpsOf, Calls
        <5>. QED
          BY <2>10, <5>1, <5>2, <5>3
      <4>2. CASE f \notin Queued[l]
        BY <2>10, <3>1, <4>2
      <4>. QED
        BY <4>1, <4>2
    <3>. QED
      BY <3>1 DEF Placed, PlacedIn
  <2>14. Descriptors'
    <3>1. \A l \in Loops : user'[l] \in {user[l], c}
      BY <2>10
    <3>2. conn'[c].fd \in FreeFds
      BY <2>10
    <3>. QED
      BY <2>10, <2>11, <2>13, <3>1, <3>2, NewDescriptors DEF TypeInv
  <2>15. ASSUME NEW d \in Conns, d # c
         PROVE  /\ conn'[d] = conn[d]
                /\ IsUp(d) => IsUp(d)'
                /\ IsDown(d) => IsDown(d)'
    <3>1. /\ conn'[d] = conn[d] /\ OpsOf(Queued', d) = OpsOf(Queued, d)
          /\ (d \in connections') = (d \in connections)
      BY <2>10, <2>11, <2>15
    <3>. QED
      BY <3>1 DEF IsUp, IsDown
  <2>16. Actives'
    <3>1. SUFFICES ASSUME NEW l \in Loops, NEW d \in Range(active'[l]) \ {Listener}
                   PROVE  /\ conn'[d].loop = l
                          /\ Open(conn'[d])
                          /\ "hup" \notin revents'[d]
                          /\ "in" \in revents'[d] => IsUp(d)'
      BY DEF Actives
    <3>2. d \in Range(active[l]) \ {Listener} /\ d # c /\ d \in Conns
      BY <1>4, <1>6, <2>7, <3>1
    <3>3. /\ conn[d].loop = l /\ Open(conn[d]) /\ "hup" \notin revents[d]
          /\ "in" \in revents[d] => IsUp(d)
      BY <3>2 DEF Inv, Actives
    <3>. QED
      BY <1>1, <2>15, <3>2, <3>3
  <2>17. Users'
    <3>1. SUFFICES ASSUME NEW l \in Loops, user'[l] # None
                   PROVE  /\ conn'[user'[l]].loop = l
                          /\ Pool # <<>> => IsUp(user[l])' \/ IsDown(user[l])'
      BY DEF Users
    <3>2. PICK d : d = user'[l]
      OBVIOUS
    <3>3. CASE d = c
      <4>1. l = k /\ IsUp(c)'
        BY <2>7, <2>10, <3>2, <3>3
      <4>. QED
        BY <2>10, <3>2, <3>3, <4>1 DEF IsUp
    <3>4. CASE d # c
      <4>1. d = user[l] /\ d # None /\ d \in Conns
        BY <2>8, <2>10, <3>1, <3>2, <3>4
      <4>2. conn[d].loop = l /\ (Pool # <<>> => IsUp(d) \/ IsDown(d))
        BY <4>1 DEF Inv, Users
      <4>3. conn'[d] = conn[d] /\ (IsUp(d) => IsUp(d)') /\ (IsDown(d) => IsDown(d)')
        BY <2>15, <3>4, <4>1
      <4>. QED
        BY <3>2, <4>2, <4>3 DEF IsUp, IsDown
    <3>. QED
      BY <3>3, <3>4
  <2>. QED
    BY <1>5, <2>10, <2>12, <2>13, <2>14, <2>16, <2>17 DEF Inv
<1>. QED
  BY <1>7, <1>8 DEF Accept

-----------------------------------------------------------------------------
(* The theorems *)

LEMMA InitInv == Discipline /\ Init => Inv
<1>. SUFFICES ASSUME Discipline, Init PROVE Inv
  OBVIOUS
<1>1. TypeInv /\ failed = {}
  BY InitType DEF Init
<1>2. Range(<<>>) = {} /\ IsInjective(<<>>)
  BY DEF Range, IsInjective
<1>3. \A l \in Loops : pending[l] = <<>> /\ batch[l] = <<>> /\ active[l] = <<>> /\ user[l] = None
  BY DEF Init
<1>4. \A l \in Loops : Queued[l] = {}
  BY <1>2, <1>3 DEF Queued
<1>5. Lines /\ Placed
  BY <1>2, <1>3, <1>4 DEF Lines, Line, Placed, PlacedIn
<1>6. Lives
  <2>1. \A c \in Conns : ~ (c < nextConnId)
    BY DEF Init, Conns
  <2>2. \A c \in Conns : conn[c] = Unborn /\ c \notin connections
    BY DEF Init
  <2>3. \A c \in Conns : OpsOf(Queued, c) = {}
    BY <1>4 DEF OpsOf
  <2>. QED
    BY <2>1, <2>2, <2>3 DEF Lives
<1>7. Phases
  BY <1>2, <1>3, ListenerIsNoConn DEF Phases, Init
<1>8. Actives /\ Users
  BY <1>2, <1>3 DEF Actives, Users
<1>9. Chans
  <2>1. \A c \in Conns : conn[c].index = "kNew"
    BY DEF Init, Unborn
  <2>2. \A l \in Loops, fd \in Fds : channels[l][fd] = None
    BY DEF Init
  <2>. QED
    BY <2>1, <2>2 DEF Chans
<1>10. Descriptors
  <2>1. Referred /\ Live \subseteq Conns
    BY <1>1, <1>5, LiveIs, LiveType DEF TypeInv
  <2>2. \A c \in Conns : /\ c \notin connections /\ c \notin held /\ OpsOf(Queued, c) = {}
                         /\ \A l \in Loops : user[l] # c
    BY <1>3, <1>4, ListenerIsNoConn DEF Init, OpsOf
  <2>3. \A c \in Live : FALSE
    BY <2>1, <2>2 DEF Referred
  <2>. QED
    BY <2>3 DEF Descriptors
<1>. QED
  BY <1>1, <1>5, <1>6, <1>7, <1>8, <1>9, <1>10 DEF Inv

LEMMA NextInv == Discipline /\ Inv /\ [Next]_vars => Inv'
<1>. SUFFICES ASSUME Discipline, Inv, [Next]_vars PROVE Inv'
  OBVIOUS
<1>1. TypeInv'
  BY NextType DEF Inv
<1>2. CASE UNCHANGED vars
  BY <1>1, <1>2, OtherInv DEF vars
<1>3. ASSUME NEW l \in Loops, Poll(l) \/ PollTimesOut(l) \/ LoopStep(l) PROVE Inv'
  <2>1. PollTimesOut(l) => UNCHANGED vars
    BY DEF PollTimesOut
  <2>. QED
    BY <1>1, <1>2, <1>3, <2>1, PollInv, HandleEventInv, AcceptInv, TakeFunctorsInv, CallFunctorInv
       DEF LoopStep
<1>4. ASSUME NEW l \in Loops, CallbackReturns(l) PROVE Inv'
  <2>1. \A k \in Loops : user'[k] \in {user[k], None}
    BY <1>4 DEF CallbackReturns, Inv, TypeInv, TypeOK
  <2>. QED
    BY <1>1, <1>4, <2>1, OtherInv DEF CallbackReturns
<1>5. CASE UserStep
  <2>1. Threads = {}
    BY DEF Discipline
  <2>2. CASE \E l \in Loops, c \in Conns : UserSend(l, c) \/ UserShutdown(l, c)
    BY <1>1, <2>2, UserInv
  <2>3. CASE \E c \in Conns : Release(c)
    BY <1>1, <2>3, OtherInv DEF Release, loopVars
  <2>. QED
    BY <1>5, <2>1, <2>2, <2>3 DEF UserStep
<1>6. CASE \E c \in Conns : PeerEnds(c)
  BY <1>1, <1>6, OtherInv DEF PeerEnds, loopVars
<1>. QED
  BY <1>2, <1>3, <1>4, <1>5, <1>6 DEF Next

(***************************************************************************)
(* The life of a connection: newConnection(), connectEstablished(),        *)
(* handleClose(), removeConnectionInLoop() and connectDestroyed() happen   *)
(* to it once each and in this order, because at each stage just the       *)
(* functor that leads to the next one is queued, in the loop that has to   *)
(* call it, and because a connection is closed while it is polled only.    *)
(***************************************************************************)
THEOREM Invariance == ASSUME Discipline PROVE Spec => []Inv
BY InitInv, NextInv, PTL DEF Spec

(***************************************************************************)
(* No assertion of removeConnectionInLoop(), connectEstablished(),         *)
(* connectDestroyed(), handleClose(), or of EPoller's updateChannel() and  *)
(* removeChannel() fails, however clients connect and close and whatever   *)
(* descriptors are used again.                                             *)
(***************************************************************************)
THEOREM AssertionsHold == ASSUME Discipline PROVE Spec => []NoAssertionFails
<1>1. Inv => NoAssertionFails
  BY DEF Inv, NoAssertionFails
<1>. QED
  BY <1>1, Invariance, PTL

(***************************************************************************)
(* What channels_, activeChannels_ and the queued functors point to has    *)
(* not been destroyed.                                                     *)
(***************************************************************************)
THEOREM PointersHold == ASSUME Discipline PROVE Spec => []NothingDangles
<1>1. Discipline /\ Inv => NothingDangles
  <2>. SUFFICES ASSUME Discipline, Inv, NEW l \in Loops
                PROVE  /\ (Range(channels[l]) \cup Range(active[l])) \ {None} \subseteq Live
                       /\ \A f \in Range(pending[l]) \cup Range(batch[l]) : f[2] \in Live
    BY DEF NothingDangles
  <2>1. ASSUME NEW c \in Range(channels[l]) \ {None} PROVE c \in Live
    <3>1. PICK fd \in Fds : c = channels[l][fd]
      BY DEF Range, Inv, TypeInv, TypeOK
    <3>2. c \in Conns /\ conn[c].index # "kNew"
      BY <2>1, <3>1 DEF Inv, TypeInv, TypeOK, Chans
    <3>. QED
      BY <3>2, OpenIsAlive, AliveIsLive
  <2>2. ASSUME NEW c \in Range(active[l]) \ {None} PROVE c \in Live
    <3>1. active[l] \in Seq(Conns \cup {Listener}) /\ Listener = None
      BY DEF Inv, TypeInv, TypeOK, Listener, None
    <3>2. c \in Conns /\ Open(conn[c])
      BY <2>2, <3>1, RangeIs DEF Inv, Actives
    <3>. QED
      BY <3>2, OpenIsAlive, AliveIsLive
  <2>3. ASSUME NEW f \in Range(pending[l]) \cup Range(batch[l]) PROVE f[2] \in Live
    <3>1. f \in Queued[l]
      BY DEF Queued
    <3>2. PICK op \in {"establish", "remove", "destroy"}, c \in Conns : f = <<op, c>>
      BY <3>1 DEF Inv, Placed, PlacedIn
    <3>3. op \in OpsOf(Queued, c)
      BY <3>1, <3>2 DEF OpsOf, Calls
    <3>. QED
      BY <3>2, <3>3, OpenIsAlive, AliveIsLive
  <2>. QED
    BY <2>1, <2>2, <2>3
<1>. QED
  BY <1>1, Invariance, PTL

(***************************************************************************)
(* connections_ and the life of a connection agree: none is in the map     *)
(* once it is down, and none is destroyed before it is.                    *)
(***************************************************************************)
THEOREM MapHolds == ASSUME Discipline PROVE Spec => []MapAgrees
<1>1. Discipline /\ Inv => MapAgrees
  <2>. SUFFICES ASSUME Discipline, Inv, NEW c \in 1 .. nextConnId - 1
                PROVE  /\ c \in connections => conn[c].state # "kDisconnected"
                       /\ conn[c].state # "kDisconnected" => c \in Live
    BY DEF MapAgrees
  <2>1. c \in Conns /\ c < nextConnId
    BY ServerConstants DEF Conns, Inv, TypeInv, TypeOK
  <2>2. Stage(conn[c], c \in connections, OpsOf(Queued, c))
    BY <2>1 DEF Inv, Lives
  <2>3. c \in connections => conn[c].state # "kDisconnected"
    BY <2>2 DEF Stage, Starting, Up, Closing, Closed, Down, Open
  <2>4. ASSUME conn[c].state # "kDisconnected" PROVE c \in Live
    BY <2>1, <2>2, <2>4, AliveIsLive DEF Alive, IsDown
  <2>. QED
    BY <2>3, <2>4
<1>. QED
  BY <1>1, Invariance, PTL


\* What a step does is about connection c, or about none.
About(c) ==
  /\ \A d \in Conns \ {c} : conn'[d] = conn[d]
  /\ connections' \subseteq connections \cup {c}
  /\ \A l \in Loops : user'[l] \in {user[l], c}

AboutNone ==
  /\ UNCHANGED <<conn, connections>>
  /\ \A l \in Loops : user'[l] \in {user[l], None}

\* A step is about one connection at most, and not about one that is down.
LEMMA AboutOne ==
  ASSUME Discipline, Inv, [Next]_vars
  PROVE  AboutNone \/ \E c \in Conns : ~ IsDown(c) /\ About(c)
<1>0. conn \in [Conns -> Connection] /\ TypeOK /\ user \in [Loops -> Conns \cup {None}]
  BY ConnType DEF Inv, TypeInv, TypeOK
<1>1. ASSUME NEW c \in Conns, NEW r, conn' = [conn EXCEPT ![c] = r]
      PROVE  \A d \in Conns \ {c} : conn'[d] = conn[d]
  BY <1>0, <1>1
<1>2. ASSUME NEW c \in Conns, NEW r, NEW ev, UpdateChannel(c, r, ev)
      PROVE  \A d \in Conns \ {c} : conn'[d] = conn[d]
  BY <1>1, <1>2 DEF UpdateChannel
<1>3. ASSUME NEW c \in Conns, SendInLoop(c)
      PROVE  \A d \in Conns \ {c} : conn'[d] = conn[d]
  BY <1>0, <1>2, <1>3 DEF SendInLoop
<1>u. ASSUME NEW c \in Conns, NEW k \in Loops, UNCHANGED user \/ user' = [user EXCEPT ![k] = c]
      PROVE  \A l \in Loops : user'[l] \in {user[l], c}
  BY <1>0, <1>u
<1>4. ASSUME NEW l \in Loops, HandleEvent(l)
      PROVE  \E c \in Conns : ~ IsDown(c) /\ About(c)
  <2>1. PICK c \in Conns : HandleHup(l, c) \/ HandleRead(l, c) \/ HandleWrite(l, c)
    BY <1>4 DEF HandleEvent
  <2>2. PICK ev : HandlingEvent(l, c, ev)
    BY <2>1 DEF HandleHup, HandleRead, HandleWrite
  <2>3. ~ IsDown(c)
    BY <2>2, HandlingIs DEF IsDown, Open
  <2>4. \A d \in Conns \ {c} : conn'[d] = conn[d]
    BY <1>2, <2>1 DEF HandleHup, HandleRead, HandleWrite, HandleClose
  <2>5. connections' \subseteq connections \cup {c}
    BY <2>1 DEF HandleHup, HandleRead, HandleWrite, HandleClose, RemoveConnection
  <2>6. UNCHANGED user \/ user' = [user EXCEPT ![l] = c]
    BY <2>1 DEF HandleHup, HandleRead, HandleWrite
  <2>. QED
    BY <1>u, <2>3, <2>4, <2>5, <2>6 DEF About
<1>5. ASSUME NEW l \in Loops, CallFunctor(l)
      PROVE  \E c \in Conns : ~ IsDown(c) /\ About(c)
  <2>1. PICK c \in Conns : \/ CallEstablished(l, c) \/ CallRemove(l, c) \/ CallDestroyed(l, c)
                           \/ CallSend(l, c) \/ CallShutdown(l, c)
    BY <1>5 DEF CallFunctor
  <2>2. PICK op : Calling(l, op, c)
    BY <2>1 DEF CallEstablished, CallRemove, CallDestroyed, CallSend, CallShutdown
  <2>3. ~ IsDown(c)
    BY <2>2, CalledIs DEF Alive
  <2>4. \A d \in Conns \ {c} : conn'[d] = conn[d]
    BY <1>0, <1>1, <1>2, <1>3, <2>1 DEF CallEstablished, ConnectEstablished, CallRemove,
       CallDestroyed, CallSend, CallShutdown
  <2>5. connections' \subseteq connections \cup {c}
    BY <2>1 DEF CallEstablished, CallRemove, RemoveConnection, CallDestroyed, CallSend,
       CallShutdown
  <2>6. UNCHANGED user \/ user' = [user EXCEPT ![l] = c]
    BY <2>1 DEF CallEstablished, ConnectEstablished, CallRemove, CallDestroyed, CallSend,
       CallShutdown
  <2>. QED
    BY <1>u, <2>3, <2>4, <2>5, <2>6 DEF About
<1>6. ASSUME Accept
      PROVE  AboutNone \/ \E c \in Conns : ~ IsDown(c) /\ About(c)
  <2>1. CASE UNCHANGED <<conn, connections, user>>
    BY <2>1 DEF AboutNone
  <2>2. CASE FreeFds # {} /\ NewConnection(Min(FreeFds))
    <3>1. active[Base] \in Seq(Conns \cup {Listener}) /\ active[Base] # <<>>
          /\ Listener = Head(active[Base])
      BY <1>0, <1>6, ListenerIsNoConn DEF TypeOK, Accept, Handling
    <3>2. Listener \in Range(active[Base])
      BY <3>1, TailIs
    <3>3. nextConnId \in Conns /\ ~ (nextConnId < nextConnId)
      BY <1>0, <3>2 DEF Inv, TypeInv, TypeOK, Listens, Conns
    <3>4. PICK c \in Conns : c = nextConnId
      BY <3>3
    <3>5. ~ IsDown(c)
      BY <3>3, <3>4 DEF Inv, Lives, Unborn, IsDown
    <3>6. PICK k \in Loops, r \in Connection :
             /\ connections' = connections \cup {c}
             /\ IF k = Base THEN ConnectEstablished(Base, c, r)
                ELSE conn' = [conn EXCEPT ![c] = r] /\ UNCHANGED user
      BY <1>0, <2>2, <3>4, NewIs
    <3>7. \A d \in Conns \ {c} : conn'[d] = conn[d]
      BY <1>1, <1>2, <3>6 DEF ConnectEstablished
    <3>8. UNCHANGED user \/ user' = [user EXCEPT ![Base] = c]
      BY <3>6 DEF ConnectEstablished
    <3>. QED
      BY <1>u, <3>5, <3>6, <3>7, <3>8, ListenerIsNoConn DEF About
  <2>. QED
    BY <1>6, <2>1, <2>2 DEF Accept
<1>7. ASSUME UserStep
      PROVE  AboutNone \/ \E c \in Conns : ~ IsDown(c) /\ About(c)
  <2>1. Threads = {}
    BY DEF Discipline
  <2>2. ASSUME NEW l \in Loops, NEW c \in Conns, UserSend(l, c) \/ UserShutdown(l, c)
        PROVE  ~ IsDown(c) /\ About(c)
    <3>1. ~ IsDown(c) /\ UNCHANGED <<connections, user>>
      BY <2>2 DEF UserSend, UserShutdown, IsDown, loopVars
    <3>2. \A d \in Conns \ {c} : conn'[d] = conn[d]
      BY <1>0, <1>1, <1>3, <2>2 DEF UserSend, UserShutdown
    <3>. QED
      BY <3>1, <3>2 DEF About
  <2>3. CASE \E c \in Conns : Release(c)
    BY <2>3 DEF Release, AboutNone, loopVars
  <2>. QED
    BY <1>7, <2>1, <2>2, <2>3 DEF UserStep
<1>8. ASSUME NEW l \in Loops,
             Poll(l) \/ PollTimesOut(l) \/ TakeFunctors(l) \/ CallbackReturns(l)
      PROVE  AboutNone
  <2>1. UNCHANGED <<conn, connections>>
    BY <1>8 DEF Poll, PollTimesOut, TakeFunctors, CallbackReturns, vars
  <2>2. UNCHANGED user \/ user' = [user EXCEPT ![l] = None]
    BY <1>8 DEF Poll, PollTimesOut, TakeFunctors, CallbackReturns, vars
  <2>. QED
    BY <1>0, <2>1, <2>2 DEF AboutNone
<1>9. CASE UNCHANGED vars \/ \E c \in Conns : PeerEnds(c)
  BY <1>9 DEF vars, PeerEnds, AboutNone, loopVars
<1>. QED
  BY <1>4, <1>5, <1>6, <1>7, <1>8, <1>9 DEF Next, LoopStep

\* What has been destroyed is down.
LEMMA RemovedIsDown ==
  ASSUME Inv, NEW c \in Conns, Removed(c)
  PROVE  IsDown(c)
<1>1. c < nextConnId
  BY DEF Inv, Lives, Removed, Unborn
<1>2. Stage(conn[c], c \in connections, OpsOf(Queued, c))
  BY <1>1 DEF Inv, Lives
<1>. QED
  BY <1>2 DEF Removed, Stage, Starting, Up, Closing, Closed, Down, IsDown, Open

(***************************************************************************)
(* A connection that has been destroyed comes back neither into the map    *)
(* nor into the EPoller, and none of its callbacks is called again.        *)
(***************************************************************************)
THEOREM DestroyedStays == ASSUME Discipline PROVE Spec => DestroyedForGood
<1>1. Discipline /\ Inv /\ [Next]_vars =>
        [\A c \in Conns : Removed(c) =>
           /\ Removed(c)'
           /\ \A l \in Loops : user'[l] = c => user[l] = c]_vars
  <2>. SUFFICES ASSUME Discipline, Inv, [Next]_vars, NEW c \in Conns, Removed(c)
                PROVE  Removed(c)' /\ \A l \in Loops : user'[l] = c => user[l] = c
    OBVIOUS
  <2>1. IsDown(c) /\ c # None
    BY RemovedIsDown, ListenerIsNoConn
  <2>2. CASE AboutNone
    BY <2>1, <2>2 DEF AboutNone, Removed
  <2>3. ASSUME NEW d \in Conns, ~ IsDown(d), About(d)
        PROVE  Removed(c)' /\ \A l \in Loops : user'[l] = c => user[l] = c
    <3>1. c # d /\ conn'[c] = conn[c]
      BY <2>1, <2>3 DEF About
    <3>. QED
      BY <2>3, <3>1 DEF About, Removed
  <2>. QED
    BY <2>2, <2>3, AboutOne
<1>. QED
  BY <1>1, Invariance, PTL DEF Spec, DestroyedForGood
=============================================================================

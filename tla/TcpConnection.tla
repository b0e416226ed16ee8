---------------------------- MODULE TcpConnection ---------------------------
(***************************************************************************)
(* net/TcpConnection.{h,cc}: the data path of one established connection:  *)
(* send() and shutdown() by callbacks of its loop and by other threads,    *)
(* the output buffer, the write callback of its channel, shutdownWrite()   *)
(* and the writeCompleteCallback_.  The end of the connection, by a FIN or *)
(* a reset of the client, is in module TcpServer; until then the peer may  *)
(* read slowly and send, and write() fails only after the FIN.             *)
(*                                                                         *)
(* Abstractions: outputBuffer_ is the queue of bytes module Buffer shows   *)
(* it to be; a byte is known by its caller, message and position.          *)
(***************************************************************************)
EXTENDS FiniteSets, Integers, SequencesExt

CONSTANTS
  Threads,        \* user threads other than the loop's own
  InLoop,         \* the caller that stands for the callbacks of the loop
  MaxSends,       \* bound: the send() calls of each caller
  MessageSizes,   \* the lengths of messages
  SockSize        \* the room in the socket's send buffer

ASSUME TcpConnectionConstants ==
  /\ InLoop \notin Threads
  /\ MaxSends \in Nat
  /\ MessageSizes \subseteq Nat \ {0}
  /\ SockSize \in Nat \ {0}

Callers == Threads \cup {InLoop}

VARIABLES
  state,      \* state_
  writing,    \* channel_->isWriting()
  output,     \* outputBuffer_
  fin,        \* shutdownWrite() has been called
  sock,       \* the bytes written that the peer has not read
  unread,     \* the peer has sent something that waits in the socket
  phase,      \* the loop is handling "events" or calling "functors"
  revents,    \* revents_ of the channel
  pending,    \* pendingFunctors_, as far as they are this connection's
  batch,      \* the functors swapped out of it and not yet called
  user,       \* a callback of this connection is running in the loop
  tpc,        \* per thread, where it is in send() or shutdown()
  sends,      \* per caller, the send() calls made
  accepted,   \* history: the bytes of the sendInLoop() calls
  written,    \* history: the bytes that write() took
  told        \* history: how many when writeCompleteCallback_ was queued

outVars == <<writing, output, sock, accepted, written, told>>
loopVars == <<phase, revents, batch, user>>
userVars == <<tpc, sends>>
vars == <<state, fin, outVars, unread, loopVars, pending, userVars>>

Init ==
  /\ state = "kConnected"
  /\ writing = FALSE
  /\ output = <<>>
  /\ fin = FALSE
  /\ sock = 0
  /\ unread = FALSE
  /\ phase = "functors"
  /\ revents = {}
  /\ pending = <<>>
  /\ batch = <<>>
  /\ user = TRUE      \* in connectEstablished(), the connectionCallback_
  /\ tpc = [t \in Threads |-> "out"]
  /\ sends = [p \in Callers |-> 0]
  /\ accepted = <<>>
  /\ written = <<>>
  /\ told = 0

Call(op, m) == [op |-> op, message |-> m]

-----------------------------------------------------------------------------
(* The socket and the loop *)

\* The numbers of bytes that write() may take of k.
Taken(k) ==
  IF fin THEN {0}
  ELSE {n \in 0 .. k : n <= SockSize - sock /\ (n = 0 <=> sock = SockSize)}

PeerReads ==
  /\ sock > 0
  /\ sock' = sock - 1
  /\ UNCHANGED <<state, fin, writing, output, accepted, written, told, unread,
                 loopVars, pending, userVars>>

PeerSends ==
  /\ ~ unread
  /\ unread' = TRUE
  /\ UNCHANGED <<state, fin, outVars, loopVars, pending, userVars>>

Ready ==
  {e \in {"in", "out"} :
     \/ e = "in" /\ unread
     \/ e = "out" /\ writing /\ (sock < SockSize \/ fin)}

\* poll() returns for an event, or because queueInLoop() has woken it.
Poll ==
  /\ phase = "functors"
  /\ batch = <<>>
  /\ ~ user
  /\ Ready # {} \/ pending # <<>>
  /\ phase' = "events"
  /\ revents' = Ready
  /\ UNCHANGED <<state, fin, outVars, unread, pending, batch, user, userVars>>

TakeFunctors ==
  /\ phase = "events"
  /\ revents = {}
  /\ ~ user
  /\ phase' = "functors"
  /\ batch' = pending
  /\ pending' = <<>>
  /\ UNCHANGED <<state, fin, outVars, unread, revents, user, userVars>>

-----------------------------------------------------------------------------
(* Writing *)

WriteCompletes ==
  /\ pending' = Append(pending, Call("complete", <<>>))
  /\ told' = Len(written')

\* A plausible mistake: written at once although there is output before it.
DirectlyWritten_IgnoresOutput(m) == Taken(Len(m))

\* How many bytes of m are written at once: none if output waits before it.
DirectlyWritten(m) == IF writing \/ output # <<>> THEN {0} ELSE Taken(Len(m))

\* Another: the channel is asked to report room only if nothing was written.
KeepRest_OnlyIfUnwritten(m, n) ==
  /\ output' = output \o SubSeq(m, n + 1, Len(m))
  /\ writing' = (writing \/ n = 0)

\* Another: what has been written is kept too.
KeepRest_KeepsAll(m, n) ==
  /\ output' = IF n < Len(m) THEN output \o m ELSE output
  /\ writing' = (writing \/ n < Len(m))

KeepRest(m, n) ==
  /\ output' = output \o SubSeq(m, n + 1, Len(m))
  /\ writing' = (writing \/ n < Len(m))

\* sendInLoop(): the message is written as far as there is room, and what is
\* left is kept.
SendInLoop(m) ==
  \E n \in DirectlyWritten(m) :
    /\ written' = written \o SubSeq(m, 1, n)
    /\ sock' = sock + n
    /\ KeepRest(m, n)
    /\ accepted' = accepted \o m
    /\ IF n = Len(m) THEN WriteCompletes ELSE UNCHANGED <<pending, told>>

\* shutdownInLoop()
ShutdownInLoop == fin' = (fin \/ ~ writing)

\* A plausible mistake: the callback is queued whenever something was written.
WriteOutput_AlwaysTells ==
  \E n \in Taken(Len(output)) \ {0} :
    /\ written' = written \o SubSeq(output, 1, n)
    /\ sock' = sock + n
    /\ output' = SubSeq(output, n + 1, Len(output))
    /\ writing' = (output' # <<>>)
    /\ WriteCompletes
    /\ fin' = (fin \/ (~ writing' /\ state = "kDisconnecting"))

\* Another: when the output is drained the FIN is left to shutdownInLoop().
WriteOutput_NoShutdown ==
  \E n \in Taken(Len(output)) \ {0} :
    /\ written' = written \o SubSeq(output, 1, n)
    /\ sock' = sock + n
    /\ output' = SubSeq(output, n + 1, Len(output))
    /\ writing' = (output' # <<>>)
    /\ IF writing' THEN UNCHANGED <<pending, told>> ELSE WriteCompletes
    /\ UNCHANGED fin

\* write() takes some of the output; when none is left the channel no longer
\* asks for room, and a shutdown() that had to wait is carried out.
WriteOutput ==
  \E n \in Taken(Len(output)) \ {0} :
    /\ written' = written \o SubSeq(output, 1, n)
    /\ sock' = sock + n
    /\ output' = SubSeq(output, n + 1, Len(output))
    /\ writing' = (output' # <<>>)
    /\ IF writing' THEN UNCHANGED <<pending, told>> ELSE WriteCompletes
    /\ fin' = (fin \/ (~ writing' /\ state = "kDisconnecting"))

\* handleWrite(), after handleRead() if there is also something to read.  An
\* error of write() is only logged.
HandleWrite ==
  /\ revents = {"out"}
  /\ ~ user
  /\ revents' = {}
  /\ \/ writing /\ WriteOutput
     \/ /\ ~ writing \/ 0 \in Taken(Len(output))
        /\ UNCHANGED <<writing, output, sock, written, told, fin, pending>>
  /\ UNCHANGED <<state, accepted, unread, phase, batch, user, userVars>>

-----------------------------------------------------------------------------
(* Reading, and the functors *)

\* handleRead(): the messageCallback_ is called with what has come.
HandleRead ==
  /\ "in" \in revents
  /\ revents' = revents \ {"in"}
  /\ unread' = FALSE
  /\ user' = TRUE
  /\ UNCHANGED <<state, fin, outVars, phase, pending, batch, userVars>>

Calling(op) ==
  /\ ~ user
  /\ batch # <<>>
  /\ Head(batch).op = op
  /\ batch' = Tail(batch)

CallSend ==
  /\ Calling("send")
  /\ SendInLoop(Head(batch).message)
  /\ UNCHANGED <<state, fin, unread, phase, revents, user, userVars>>

CallShutdown ==
  /\ Calling("shutdown")
  /\ ShutdownInLoop
  /\ UNCHANGED <<state, outVars, unread, phase, revents, pending, user, userVars>>

CallWriteComplete ==
  /\ Calling("complete")
  /\ user' = TRUE
  /\ UNCHANGED <<state, fin, outVars, unread, phase, revents, pending, userVars>>

-----------------------------------------------------------------------------
(* send() and shutdown() *)

NextMessage(p, size) == [i \in 1 .. size |-> <<p, sends[p] + 1, i>>]

UserSend ==
  /\ user
  /\ state = "kConnected"
  /\ sends[InLoop] < MaxSends
  /\ sends' = [sends EXCEPT ![InLoop] = @ + 1]
  /\ \E size \in MessageSizes : SendInLoop(NextMessage(InLoop, size))
  /\ UNCHANGED <<state, fin, unread, loopVars, tpc>>

UserShutdown ==
  /\ user
  /\ state = "kConnected"
  /\ state' = "kDisconnecting"
  /\ ShutdownInLoop
  /\ UNCHANGED <<outVars, unread, loopVars, pending, userVars>>

CallbackReturns ==
  /\ user
  /\ user' = FALSE
  /\ UNCHANGED <<state, fin, outVars, unread, phase, revents, batch, pending, userVars>>

\* In another thread the test of state_, its assignment and queueInLoop() are
\* separate steps.
ThreadTests(t) ==
  /\ tpc[t] = "out"
  /\ state = "kConnected"
  /\ \/ sends[t] < MaxSends /\ tpc' = [tpc EXCEPT ![t] = "send"]
     \/ tpc' = [tpc EXCEPT ![t] = "set"]
  /\ UNCHANGED <<state, fin, outVars, unread, loopVars, pending, sends>>

ThreadSetsState(t) ==
  /\ tpc[t] = "set"
  /\ state' = "kDisconnecting"
  /\ tpc' = [tpc EXCEPT ![t] = "shutdown"]
  /\ UNCHANGED <<fin, outVars, unread, loopVars, pending, sends>>

ThreadSends(t) ==
  /\ tpc[t] = "send"
  /\ \E size \in MessageSizes : pending' = Append(pending, Call("send", NextMessage(t, size)))
  /\ sends' = [sends EXCEPT ![t] = @ + 1]
  /\ tpc' = [tpc EXCEPT ![t] = "out"]
  /\ UNCHANGED <<state, fin, outVars, unread, loopVars>>

ThreadShutsDown(t) ==
  /\ tpc[t] = "shutdown"
  /\ pending' = Append(pending, Call("shutdown", <<>>))
  /\ tpc' = [tpc EXCEPT ![t] = "out"]
  /\ UNCHANGED <<state, fin, outVars, unread, loopVars, sends>>

ThreadStep(t) ==
  ThreadTests(t) \/ ThreadSetsState(t) \/ ThreadSends(t) \/ ThreadShutsDown(t)

LoopStep ==
  \/ Poll \/ TakeFunctors \/ HandleRead \/ HandleWrite
  \/ CallSend \/ CallShutdown \/ CallWriteComplete \/ CallbackReturns

Next ==
  \/ LoopStep \/ UserSend \/ UserShutdown
  \/ PeerReads \/ PeerSends
  \/ \E t \in Threads : ThreadStep(t)

Spec == Init /\ [][Next]_vars

(***************************************************************************)
(* The loop's thread is scheduled, callbacks return, a thread finishes the *)
(* call it is in, and the peer goes on reading.  Nobody need send.         *)
(***************************************************************************)
Fairness ==
  /\ WF_vars(LoopStep)
  /\ WF_vars(PeerReads)
  /\ \A t \in Threads :
       WF_vars(ThreadSetsState(t) \/ ThreadSends(t) \/ ThreadShutsDown(t))

FairSpec == Spec /\ Fairness

-----------------------------------------------------------------------------
(* Correctness *)

Byte == Callers \X (1 .. MaxSends) \X Nat
Functor == [op : {"send", "shutdown", "complete"}, message : Seq(Byte)]

\* Types; the output buffer holds what was accepted and not yet written.
TypeOK ==
  /\ state \in {"kConnected", "kDisconnecting"}
  /\ writing \in BOOLEAN
  /\ output \in Seq(Byte)
  /\ fin \in BOOLEAN
  /\ sock \in 0 .. SockSize
  /\ unread \in BOOLEAN
  /\ phase \in {"events", "functors"}
  /\ revents \subseteq {"in", "out"}
  /\ pending \in Seq(Functor)
  /\ batch \in Seq(Functor)
  /\ user \in BOOLEAN
  /\ tpc \in [Threads -> {"out", "send", "set", "shutdown"}]
  /\ sends \in [Callers -> 0 .. MaxSends]
  /\ accepted \in Seq(Byte)
  /\ written \in Seq(Byte)
  /\ told \in 0 .. Len(written)
  /\ written \o output = accepted

(***************************************************************************)
(* Written directly or by way of the output buffer, sent by callbacks or   *)
(* by functors of other threads, the bytes leave in the order in which the *)
(* loop came to the messages, each caller's messages in his order, and the *)
(* FIN only behind all of them.                                            *)
(***************************************************************************)
Stream == INSTANCE Stream WITH sent <- accepted, out <- written
ImplementsStream == Stream!Spec

Completions(functors) == {i \in DOMAIN functors : functors[i].op = "complete"}

\* One more writeCompleteCallback_ is queued, for bytes not yet told of.
Tells ==
  /\ output' = <<>>
  /\ told < told'
  /\ pending' = Append(pending, Call("complete", <<>>))

(***************************************************************************)
(* Whenever the last byte accepted has been written, directly or by way of *)
(* the output buffer, the writeCompleteCallback_ is queued: once, for some *)
(* bytes that it has not been queued for before, and at no other time.     *)
(***************************************************************************)
WriteCompleteTold ==
  /\ [](output = <<>> => told = Len(written))
  /\ [][Tells \/ (UNCHANGED told /\ Completions(pending') \subseteq Completions(pending))]_vars

(***************************************************************************)
(* Once a shutdown() has got through, the FIN is sent, whether output was  *)
(* left or not and whoever else sends or shuts down.                       *)
(***************************************************************************)
ShutdownSendsFin == state = "kDisconnecting" ~> fin

(***************************************************************************)
(* What was accepted before the FIN is written, if the peer reads.         *)
(***************************************************************************)
AcceptedIsWritten == output # <<>> ~> (output = <<>> \/ fin)
=============================================================================

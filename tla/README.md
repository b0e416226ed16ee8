# remuduo, verified in TLA+

remuduo is a C++17 rewrite of the muduo network library: a reactor per thread
(`EventLoop` over `epoll`), timers on a `timerfd`, TCP servers and clients with
callbacks. This directory holds TLA+ specifications of the library, checked
with TLC on small instances, and theorems about them checked with TLAPS for
every value of their constants. All definitions are read off the code under
`src/`, which has no tests and no documentation apart from comments and
assertions; `PROJECT.json` maps each definition to the lines it stands for.

## 1. Inventory

| Part | State | Operations | Correct if |
| --- | --- | --- | --- |
| `EventLoop` | `looping_`, `quit_`, `callingPendingFunctors_`, `pendingFunctors_` (mutex), `wakeupFd_`, `activeChannels_` | `loop`, `quit`, `runInLoop`, `queueInLoop`, `doPendingFunctors`, `handleRead` | functors run once each, in order, and never wait while the loop sleeps; `quit()` ends `loop()` |
| `TimerQueue`, `Timer`, `TimerId` | `timers_`, `activeTimers_`, `callingExpiredTimers_`, `cancelingTimers_`, the timerfd | `addTimer`, `cancel`, `handleRead`, `getExpired`, `reset`, `insert` | the two sets agree; no timer is used after delete or resurrected; every timer is called once expired |
| `TcpServer` | `connections_`, `nextConnId_`, `started_` | `start`, `newConnection`, `removeConnection[InLoop]` | each connection enters and leaves the map once |
| `TcpConnection` | `state_`, its `Channel`, `inputBuffer_`, `outputBuffer_` | `send`, `shutdown`, their `InLoop` halves, `handleRead/Write/Close`, `connectEstablished/Destroyed` | goes through its states once; bytes leave in order and before the FIN |
| `Channel`, `EPoller` | `events_`, `revents_`, `index_`; `channels_`, the kernel's interest list | `updateChannel`, `removeChannel`, `poll`, `handleEvent` | `index_`, `channels_` and the kernel agree; no `Channel*` dangles |
| `Acceptor` | its channel, `listenning_` | `listen`, the read callback | each accepted descriptor gets a connection or is closed |
| `EventLoopThread`, `EventLoopThreadPool` | `loop_` (mutex, condition), `next_`, `loops_` | `startLoop`, `threadFunc`, `~EventLoopThread`, `start`, `getNextLoop` | the handshake hands over a live loop; joining ends; round robin |
| `Connector` | `connect_`, `state_`, `retryDelayMs_`, its channel, `timerId_` | `start`, `stop`, `restart`, `connecting`, `handleError`, `retry` | at most one attempt is under way; it retries until connected or stopped |
| `TcpClient` | `connection_` (mutex), `connect_`, `retry_` | `connect`, `disconnect`, `stop`, `newConnection`, `removeConnection`, the destructor | one connection at a time; reconnects if asked to |
| `Buffer` | the vector, `readerIndex_`, `writerIndex_` | `append`, `retrieve*`, `prepend`, `makeSpace`, `shrink`, `readFd` | a FIFO of bytes |
| `Poller` | `pollfds_`, `channels_` | as `EPoller`; nothing uses it | as `EPoller` |

The rest is thin: `Socket`, `SocketsOps` (one system call per function, their
outcomes are inputs of the modules), `InetAddress` (formatting), `Callbacks.h`,
`copyable.h`, `main.cc` (an example), project files.

How the parts interact. A loop's thread does three things in turn: poll, call
the active channels' callbacks, call the functors queued up to then. Everything
else is a callback or a functor. Threads interact through `queueInLoop()` alone,
except for a few fields read without a lock (`state_`, `quit_`, `connect_`).
Connections live in `shared_ptr`s held by the map, by functors and by the user;
channels, timers and several functors are raw pointers.

What is hard: the two steps "push, then write `wakeupFd_`" against the loop's
cycle; the journey of one connection between the acceptor's loop and its own
(establish, remove, destroy, each a functor) while events, sends and shutdowns
go on; reuse of descriptors; timers cancelled by the batch they are in; fields
tested in one thread and used later in another. `PROJECT.json` lists these under
`hazards`, each at its line with the properties that watch it.

## 2. Plan

| Order | Modules | Status |
| --- | --- | --- |
| 1 | `Executor` (abstract), `EventLoop` implements it | done, proved |
| 2 | `TcpServer`: TcpServer + TcpConnection + Acceptor + pool + Channel + EPoller over FIFO loops | life cycle done, safety proved |
| 3 | `TimerQueue` | done, safety proved |
| 4 | `ByteQueue` (abstract), `Buffer` implements it | done, proved |
| 5 | `Stream` (abstract), `TcpConnection` (the data path) implements it | done, safety proved |
| 6 | `Demux` (abstract), `EPoller` implements it; `Pollers` compares `Poller` with it | done, proved |
| 7 | `Connector`, `TcpClient` composed with it | done, safety proved |
| 8 | `EventLoopThread`: the pool's `start()`, `TcpServer::start()`, the end of the threads | done, safety proved |

Theorems still worth proving: the life cycle of `TcpServer` with user threads, under
the discipline of run `tcpserver_thread`.

## 3. Modules

### EventLoop

`Executor` is the promise: a queue of functors, appended to by anyone, executed
from the head. `EventLoop` is the code. `pc` is where the loop thread stands
(`idle` is not `looping_`; `swap` and `run` are the two halves of
`doPendingFunctors()`, the swap under the mutex and the walk over the local
vector). The other threads take two steps per call, the store
(`QueueInLoop`, `Quit`) and the write to `wakeupFd_` (`Wakeup`), and the loop
may run between them. Callbacks and functors may queue functors and call
`quit()` (`LoopQueue`, `LoopQuit`); `runInLoop` of the loop thread calls the
functor at once and so needs no action. `eventfd` is reduced to readable or not.

`ImplementsExecutor` is the refinement: `queue` is what is left of the batch
followed by `pendingFunctors_`, `done` is what has run, so the swap is a
stutter. `NoLostWakeup` is the invariant the wakeup protocol exists for.

One case is carved out by name: `early` holds functors the loop thread queues
while it is not in `loop()`. `queueInLoop()` writes `wakeupFd_` for the loop's
own thread only if functors are being called (`EventLoop.cc:119`), so such a
functor waits for the first event or for the ten seconds of `kPollTimeMs`.

### TcpServer

`conn[c]` is a `TcpConnection` with its `Channel` (loop, descriptor, state,
events, index, whether there is output, whether the FIN is sent); `channels` is
each EPoller's `channels_`; `peer` is what the socket has to read next. A loop
alternates `phase` between `events` (the active channels, in any order, with
`Channel::handleEvent()`'s order of callbacks) and `functors` (the batch).
`Poll` must report what a level-triggered epoll must report and may report
more. Functors are `<<operation, connection>>`: `establish`, `remove`,
`destroy`, `send`, `shutdown`. `user[l]` is the connection whose callback is
running in loop `l`; `Callers` says what it may call. `send()` and `shutdown()`
from a user thread are two and three steps; `Sender` says which thread sends on a
connection, or that its callbacks do, and `CallsOf` what else threads may call.
`accept()` may fail at any time, since files outside the model use descriptors too.

Memory is explicit: `Live` is the set of connections some `shared_ptr` refers
to, in the map, in a functor, in a caller or with the user; a connection not in
`Live` has been destroyed and its descriptor is free. `FreeFds` gives out the
lowest, as the kernel does. `failed` collects the assertions that have failed;
the process stops there.

Left out: the bytes of the buffers and `writeCompleteCallback_` (module
`TcpConnection`), `start()` (module `EventLoopThread`), errors that are only
logged, `handleEvent()`'s warnings, the destruction of a server that has
connections.

### TimerQueue

Timers are their sequence numbers. `timers` and `active` are the two sets,
`expired` the vector of `handleRead()`, of which `started` have been called, so
that user code can run in the middle of a batch. Another thread's `addTimer()`
is two steps, since it reads the sequence number for the `TimerId` after it has
queued the functor (`TimerQueue.cc:81-83`): if the loop has called and deleted
the timer meanwhile, the id is whatever the freed memory holds, and `ids` gets
any number. `alarm`, `fired` and `reported` are the timerfd; `Lag` is how far
the wall clock of `now()` may be behind the timerfd's clock, so that
`handleRead()` may find nothing expired.

Two things the code does that the model keeps and no comment speaks of: a timer
of the running batch that is cancelled before its turn is still called, once
(`getExpired()` has taken it out of the sets and `handleRead()` does not look at
`cancelingTimers_`), and a `cancel()` in the loop thread overtakes an
`addTimer()` still queued.

### Buffer

`ByteQueue` is the promise: bytes are put in at the end (or back at the front)
and taken from the front. `Buffer` is the code: a buffer is a record of the
vector, its size and the two indices, and each member function an operator from
record to record, since a buffer is used by one thread. `ReadFrom` is `readFd()`
with its two parts, behind the readable bytes and in `extrabuf`. `Appended` is
`append()` with the `ensureWritableBytes()`, `makeSpace()` and `hasWritten()` it
calls. `call` records what the last call gave or took, so that the refinement
`ImplementsByteQueue` says of the bytes returned, too, that they are the right
ones.

`shrink()` copies the readable bytes to `kCheapPrepend` and leaves
`readerIndex_` and `writerIndex_` where they were (`Buffer.h:105-109`). If
`readerIndex_` is elsewhere, after `retrieve()` of a part or after `prepend()`, other
bytes become readable, and `writerIndex_` may lie beyond the vector. `Shrink` has no
guard against it; `stale` remembers that it has happened. From then on the
calls that read or write the vector are undefined and left out, and `retrieveAll()`
and `swap()`, which set both indices, make the buffer whole again.
`ImplementsByteQueue` excepts the step by name (`Misplaced`) and takes the queue to be
empty while the indices are stale; `TypeOK` then says no more of
`writerIndex_` than that it is not before `readerIndex_`. Nothing in the repository
calls `shrink()`, and nothing in it says that it may be called then.

### TcpConnection

`Stream` is the promise to those who `send()`: what is written is a prefix of
what was sent, in the order of each caller's messages, and the FIN follows all of
it. The order between callers is that of `sendInLoop()`. `TcpConnection` is the
data path of one established connection: `sendInLoop()` with the direct write and
what is kept in `outputBuffer_`, `handleWrite()`, `shutdown()` with its
unlocked test and store of `state_` (three steps in another thread),
`shutdownInLoop()`, `writeCompleteCallback_`. `sock` counts the bytes the peer has
not read, so that `write()` may be partial or fail with `EAGAIN`. `accepted`,
`written` and `told` are histories.

What the model shows besides its properties: a `send()` of a thread whose
functor runs after the FIN is accepted but cannot be written
(`TcpConnection.cc:154`); its bytes stay in `outputBuffer_`, and the channel
reports room for them again and again until the peer closes. `AcceptedIsWritten`
excepts what is accepted after the FIN.

### Demux, EPoller, Poller, Pollers

`Demux` is the promise of a poller: a report names channels that are registered,
gives each exactly the events that are ready and wanted, and is not empty if
there are any. A channel is a descriptor and a generation, so that descriptors
are used again. `EPoller` is the code over epoll: `index_`, `channels_`, the
kernel's interest list and the size of `events_`, which `poll()` doubles when it is
full; `failed` collects the assertions and the `epoll_ctl()` calls that abort the
process. `Poller` is the code over `poll(2)`: `pollfds_`, with `-fd-1` for a
channel that is disabled, and the last entry moved into the place of a removed
one. `Pollers` makes the same calls to both.

What the poller relies on (`MayUpdate`): a channel is registered with some event,
its descriptor is its own, and it is not used again after its removal. `EventLoop`,
`Acceptor`, `Connector` and `TimerQueue` keep to it. `TcpConnection` does not:
`sendInLoop()` may enable a channel that `connectDestroyed()` has removed. What comes
of that is in `TcpServer`, run `tcpserver_fd_reused`.

Where the two differ: `Poller::updateChannel()` negates the descriptor of a channel
without events and never turns it back (`Poller.cc:49-60`), so a channel that is
enabled again is not reported. `PollersAgree` excepts such channels by name
(`enabledAgain`); TLC finds it violated without the exception. `Poller` does not
implement `Demux` for that reason, and no component uses it.

### Connector, TcpClient

`Connector` holds the members of the code as operators: `StartInLoop`, `Connect`
with the three classes of `errno`, `HandleWrite`, `HandleError`, `Retry` with its
timer and growing delay, `Restart`, `RemoveAndResetChannel` with the functor that
comes later. `TcpClient` makes them steps of a loop of two phases, as in
`TcpServer`, and adds `newConnection()`, `removeConnection()`, the destructor and
the user's calls. Where the loop tests `connect_` of `Connector` (`wanted`) or of
`TcpClient` (`retrying`) and acts upon it, the test and the act are two steps
(`todo`), since other threads assign these fields without a lock; a call of
another thread is up to three steps.

Disciplines: `connect()` is called once (`MaxConnects`): a second call makes
`assert(state_ == kDisconnected)` in `startInLoop()` fail (`Connector.cc:33`; TLC
finds it with `MaxConnects = 2`), because `state_` stays `kConnected` once a
connection was made. The client is destroyed in its loop, outside callbacks, while
no thread is in a call. No iteration of the loop takes
as long as the first retry delay, which is why no second retry timer can be
pending.

The destructor may come at any stage of an attempt, and the Connector is dropped
a second later whatever it is doing (`TcpClient.cc:47-48`, `ReleaseExpires`). If
`connect(2)` is still under way, the `EPoller` keeps the channel of an object that
is gone; if a functor of the Connector is queued, it has a raw pointer to it. The
same holds for a client that has its connection but is destroyed before
`resetChannel()`. The model reaches these states (`Dangling`) and stops there, since
what the loop then does is undefined. `settled` remembers that the Connector had
neither channel nor functor when the client was destroyed; `NothingDangles` promises
only then that nothing of it dangles.

`StopIsFinal` has an exception, which is the code's: a `stop()` of another thread
that comes between the loop's test of `connect_` and what follows from it. After
the test in `removeConnection()` (`TcpClient.cc:109`), `restart()` sets `connect_` again
and so undoes the `stop()`.

### EventLoopThread

One module for `TcpServer::start()`, `EventLoopThreadPool::start()`, `startLoop()`,
`threadFunc()`, `Acceptor::listen()` and the end of the threads in
`~EventLoopThread()`. `base` is where the base thread stands, `io` where each I/O
thread does; `locked` is `mutex_` while the new thread holds it, `published` whether
`loop_` is set. A wait may return for no reason (`SpuriousWakeup`).

`TcpServer.h:24-26` calls `start()` thread safe. If another thread calls it first, it
sets `started_` and is aborted by the pool's `assertInLoopThread()`; in between, a
`start()` of the base thread finds `started_` set and lets the server listen without a
pool. The model has these steps up to the abort, where the process ends (`Running`);
`ListensWhenReady` excepts them by name (`Aborting`).

Discipline: the server is destroyed in the base thread, when no `start()` and no
functor of it is under way. Its I/O threads may be anywhere: `loop()` clears `quit_`
on entry (`EventLoop.cc:64`), so a `quit()` that comes earlier is lost and the join
never returns. `lost` remembers that, and `CallsReturn` excepts it. `quit()` writes
`wakeupFd_` after it has set `quit_` (`EventLoop.cc:81`); the loop may have been
destroyed in between, since another event may have woken it. That state is reachable
in the model, which leaves open what the write does then.

## 4. Runs

| Run | Instance | Shows |
| --- | --- | --- |
| `mc_eventloop` | 2 threads, 3 functors, 1 I/O channel | no functor or `quit()` is lost, repeated, reordered or left waiting |
| `tcpserver_single` | base loop only, 2 connections, callbacks act on any connection | no assertion fails, nothing dangles, closed connections are destroyed |
| `tcpserver_pool` | base loop and one I/O loop, 2 connections, callbacks act on their own connection | the same when establishing and destroying cross threads, and the map agrees with the states |
| `tcpserver_thread` | as above with two user threads that keep their pointers: one sends on the first connection and shuts it down, its client waiting for the FIN; both shut down the second, whose client may end it at any time and whose callbacks send | the unlocked test and store of `state_` are harmless under this discipline: a connection that was destroyed stays so, even if `kDisconnecting` is stored after `kDisconnected` |
| `timerqueue` | 1 thread, 2 timers, times 0..2, repeated or not, clocks 1 apart | the sets agree, no double delete, no resurrection, the timerfd is armed, expired timers are called |
| `buffer` | 2 byte values, `kCheapPrepend` 2, initial size 2, vector up to 7, writes up to 3, `extrabuf` of 2 | the buffer is a queue of bytes but for the named `shrink()`, and grows only when it must |
| `tcpconnection` | callbacks and one thread, 2 sends each of 2 bytes, a socket that holds 2 | bytes leave in order and before the FIN; FIN sent; write completion queued once per drained output |
| `pollers` | 2 descriptors used twice each, `events_` of length 1 at first | tables agree, `EPoller` implements `Demux`, the pollers differ only as named, and `events_` has grown where it was too short |
| `client` | 2 threads, one `connect()`, 3 calls of `stop()` and `disconnect()`, delay doubled to a limit of 3, reconnecting | no assertion fails, nothing refers to the client after the destructor nor, if it was settled, to the Connector, `stop()` is final, the client goes on trying |
| `threads` | 3 I/O threads, 2 threads that call `start()` again, 4 calls | the server listens only when every loop exists; `start()` and the destructor return, but for the two named cases |
| `tcpserver_erased_twice` | I/O loop, a callback sends on another connection | **violation** of `assert(n == 1)`, `TcpServer.cc:40` |
| `tcpserver_fd_reused` | a user thread that does not keep to the discipline, one descriptor | **violation** of the assert on `channels_`, `EPoller.cc:68` |

Bounds. Three functors give a batch, a functor queued behind it and one queued
by it; two threads give two writes in flight. Two connections are enough for one
to disturb the other and for a descriptor to be used again (a second one is
opened after the first is destroyed). Two timers give a batch with a timer that
cancels its neighbour, a first timer that is replaced, and one that repeats
while the other is added; the clock stops at 2, which lets a repeated timer come
back twice. In `tcpserver_thread` the client of the second
connection may end it between the test and the store of a `shutdown()`, which then
stores `kDisconnecting` after `kDisconnected`, and both threads may be between the two at
the same time. `MaxPending` bounds what user threads leave in a loop, `MaxTimers`
also bounds the queue of functors for cancellations.

The vector of `buffer` can be grown, moved down in, filled by two-part reads and
drained at each of its sizes; 7 leaves room for two growths. A message of two
bytes against a socket of two is written whole, in part or not at all, and two
per caller give one that waits behind another. Two descriptors and two
generations give a swap of the last entry, a descriptor used again and more
ready channels than `events_` holds. A limit of 3 makes the retry delay reach it
after two failures (1, 2, 3). Three I/O threads and a handshake each show that
the loops come in order and the round robin wraps.

`client` and `threads` switch the deadlock check off: a client
that gave up, was stopped or destroyed has nothing left to do, nor has a server
that has ended or been aborted.

Every property of a passing run has a mutant in `PROJECT.json`: a plausible
mistake in one definition (they are next to the definition, named
`Definition_Mistake`) under which TLC finds the property violated.

### The two violations

`tcpserver_erased_twice`: `handleClose()` does not change `state_`
(`TcpConnection.cc:171-179`). Until `connectDestroyed()` has come back from the
base loop, `send()` in the I/O loop still reaches `sendInLoop()`; the write fails
or is partial, the channel is enabled for writing, the hang-up is reported and
`handleClose()` runs again. The second `removeConnectionInLoop()` erases
nothing. A single loop closes the window, as `tcpserver_single` shows.

`tcpserver_fd_reused`: `send()` of a user thread tests `state_` and queues
`sendInLoop()`, which does not test it again. After `connectDestroyed()` it puts
the removed channel back into `channels_`; when the functor drops the last
reference the entry dangles, and the next connection with that descriptor fails
the assertion.

## 5. Fairness

Every liveness property assumes what the code relies on and no more. Loop
threads are scheduled: weak fairness of each step between two polls. `poll()`
returns when `wakeupFd_` is readable or an event must be reported; the timeout
of ten seconds, other events, data and room to write are not assumed. A thread
inside `queueInLoop()`, `quit()`, `send()`, `stop()` or `start()` gets to its end.
For timers, time passes, an armed timerfd goes off, and callbacks return. In
`tcpconnection` the peer goes on reading, without which no output need ever
drain. In `client` nothing is assumed of an attempt: it may neither succeed nor
fail. Nobody is assumed to call `loop()`, `quit()`, `send()` or anything else. A
process that has been aborted, or whose next step is undefined, is assumed to do
nothing (`Running` in `TcpClient` and `EventLoopThread`).

## 6. Proofs

Each module of proofs begins with what it needs of sequences (`Tail`, `Append`,
`\o`, `Range`).

`EventLoop_proofs`, assuming only that `wakeupChannel_` is not one of the other
channels, for any threads and functors:

- `TypeCorrect`; the type invariant says also in which phases
  `callingPendingFunctors_` is set and the local vectors are not empty.
- `LoopNeverSleepsOverFunctors` (`NoLostWakeup`). Not inductive as it stands:
  a functor may be queued in any phase. `PendingIsAnnounced` claims the same from
  the swap of `doPendingFunctors()` on: until `handleRead()` empties the eventfd,
  each functor queued after the swap brings its own write.
- `NoFunctorJoinsTheBatch` (`BatchOnlyShrinks`).
- `LoopImplementsExecutor` (`ImplementsExecutor`): initial states map to
  initial states, `RunFunctor` maps to `Execute`, pushes map to `Submit`,
  everything else to a stutter.

`TimerQueue_proofs`, assuming that the bounds are natural numbers, for any
threads, intervals, times and number of timers:

- `TypeCorrect`: in particular nothing is armed for, or expires at, a negative
  time.
- `SetsAlwaysAgree`, `NoTimerTwice`, `CancelledNeverReturns`, from one inductive
  invariant, `QueueInv`. It adds to the three properties that a timer is handed
  over by one functor only (`HandedOverOnce`), that timers not created yet are
  nowhere (`OnlyCreated`: why `new Timer` cannot clash), that the batch is empty
  outside `handleRead()` (`NoBatchOutside`: why a cancellation there finds its
  timer in the sets or nowhere) and that a cancelled timer of the batch is in
  `cancelingTimers_` (`CancellationNoted`: why `reset()` does not restart it).
  Lemmas `AddKeeps`, `CancelKeeps`, `GetExpiredKeeps` and `ResetKeeps` treat the
  four ways the sets change, whoever changes them.
- `AlwaysArmed` (`ArmedForTheFirst`), inductive with the types alone.

`Buffer_proofs`, assuming only that the sizes are natural numbers and that the
vector is filled with a `char`, for any sizes, contents and sequence of calls:

- `TypeCorrect`: `readerIndex_ <= writerIndex_`, and `writerIndex_ <= size()` as long as
  no `shrink()` has left stale indices. The inductive invariant (`Inv`) adds that the
  vector never gets shorter than `kCheapPrepend`, which is why `retrieveAll()` may set
  the indices to it; that is also what is left after the failing `shrink()`
  (`IsVector`), and what makes `retrieveAll()` a repair.
- `BufferIsQueue` (`ImplementsByteQueue`). There is one lemma per member
  (`MovedDownIs`, `SpaceMadeIs`, `AppendedIs`, `PrependedIs`, `ReadFromIs`,
  `RetrievedIs`, `ShrunkIs`) that says what the readable bytes are after it, and
  one per group of calls that maps them to `Put`, `PutFront`, `Take` or a
  stutter, or to the exception `Misplaced`. The bytes can be moved down because
  `makeSpace()` only does so when `kCheapPrepend <= readerIndex_`; that follows from its comparison and the call's
  guard `writableBytes() < len` (`SpaceMadeIs`).
- `GrowsOnlyIfItMust` (`GrowsOnlyIfNeeded`).

`EventLoopThread_proofs`, for any number of I/O threads and callers:

- `ListensOnlyWhenReady` (`ListensWhenReady`). The inductive invariant says that
  what `startLoop()` returned is set (`LoopsSound`), that a thread which has set
  `loop_` is in `loop()` or past it (`PublishedRuns`), that threads are started in
  order (`StartedInOrder`), that nobody listens or waits to before the pool is
  complete (`StartedOnce`, unless the process is about to be aborted) and that only the
  destructor ends loops (`EndsWithServer`).

`TcpConnection_proofs`, assuming that messages and the socket's buffer are not
empty, for any threads, number and lengths of messages and room in the socket:

- `NoByteIsLost` (`TypeOK`): the type invariant ends with what `outputBuffer_` is
  for, `written \o output = accepted`.
- `StreamRefines` (`ImplementsStream`): `sendInLoop()` maps to `Send`,
  `handleWrite()` to `Write` or `Finish`, the two ways to `shutdownInLoop()` to
  `Finish` or a stutter, everything else to a stutter. The promise numbers the
  messages of a caller by those that the loop has come to, while the code numbers
  nothing: the order is that of `pendingFunctors_`. The inductive invariant (`Inv`) therefore
  says of the queue, batch and pending together, that it holds for each thread
  exactly the messages from the last one accepted to the last one sent, once each
  and in this order (`Numbered`), that nobody else's message is queued (what
  callbacks send is accepted at once), that the batch is empty while events are
  handled (`Phases`: why the swap does not reorder) and that the channel is enabled for
  writing exactly if there is output (`Writes`: why `shutdownInLoop()`, which tests
  `isWriting()`, does not overtake output). Lemmas `NumberedSend`,
  `NumberedAccept`, `NumberedTail` and `NumberedAppend` treat the ways the queue
  changes, `SendEffect` and `WriteEffect` what `sendInLoop()` and `handleWrite()` do
  to the bytes, `OneMore` the count of messages.
- `WriteCompleteIsTold` (`WriteCompleteTold`): the first half from `Writes`, the second,
  that the functor is queued once for each drained output, step by step.

`Pollers_proofs`, assuming that `None` is neither a channel nor an entry of the
interest list, for any descriptors, requests and initial length of `events_`:

- `PollersDoNotFail` (`NothingFails`). The invariant of `EPoller` (`EInv`) says that
  `channels_` holds just the channels whose `index_` is not `kNew`, and the kernel's
  interest list those that are `kAdded`, with what they ask for; that of `Poller`
  (`PInv`) that each registered channel has one `pollfd`, at its `index_`, with its
  descriptor or, once it has been disabled, the hidden one, and that there are no others. The latter is
  what the swap with the last `pollfd` in `removeChannel()` has to keep.
- `EPollerRefines` (`EPollerImplementsDemux`): a report that leaves channels out
  because `events_` is full still maps to the abstract one.
- `PollersDoAgree` (`PollersAgree`): a channel that only `Poller` reports had no room in
  `events_`, whose length is then doubled.

`TcpClient_proofs`, for any threads, calls and delays, with `EnableRetry` or without:

- `AssertionsHold` (`NoAssertionFails`), `NothingLeftDangling` (`NothingDangles`),
  `StopHolds` (`StopIsFinal`).

Each has the hypothesis `MaxConnects <= 1`, the discipline of section 3: TLC
refutes the first with 2. `None` is assumed to differ from the strings it is
compared with. The inductive invariant says that the Connector is doing at most
one thing at a time: a functor `startInLoop`, a retry timer, a registered channel
and a removed one whose `resetChannel` is queued exclude each other and agree with
`state_`, and none of them is there twice; that what `retry()` or `removeConnection()`
leaves for later is done before the next `poll()`; and that after a `stop()` whatever
is left of an attempt finds `connect_` cleared; and that after the destructor the
Connector begins nothing new (`Lives`: why it is still without channel and functor when
it is dropped, if it was without at the destruction). The two phases of the loop matter:
`resetChannel` is queued while events are handled and called before a `connect()` that
would meet `assert(!channel_)`.

`TcpServer_proofs`, assuming that descriptors are natural numbers (`accept()`
returns the least that is free), for any clients, descriptors and I/O threads:

- `TypeCorrect`, for any user threads and callbacks.
- `AssertionsHold` (`NoAssertionFails`), `PointersHold` (`NothingDangles`),
  `MapHolds` (`MapAgrees`) and `DestroyedStays` (`DestroyedForGood`).

The second line has the hypothesis `Discipline`: there are no user threads, and
there are no I/O threads or callbacks use their own connection only. These are the
disciplines of `tcpserver_single` and `tcpserver_pool`; without them TLC finds the two
violations of section 4. The inductive invariant (`Inv`, which TLC has checked on both
configurations) gives a connection five stages, `Starting`, `Up`, `Closing`, `Closed`
and `Down`, and says at each of them what its state, `index_`, `events_` and place
in `connections_` are and which functor is queued for it: just the one that leads to the next stage
(`Lives`), once (`Lines`) and in the loop that has to call it (`Placed`).
It further says that events are handled only for connections that are not destroyed,
and read events only for those that are up (`Actives`): `epoll_wait()` is not asked
about a channel that is `kDeleted`, and without I/O threads, where a callback may
enable a closed channel for writing again, `connectDestroyed()` comes before the next
`poll()` (`Phases`). With I/O threads no callback of a connection runs between its
close and its end (`Users`): that is what a callback that uses another's connection
breaks. `Chans` relates `channels_` to the connections, and `Descriptors` says that no
two that exist share a descriptor: why one that is used again is new to the
EPoller. A connection exists while `connections_`, the user, a functor or a running
callback refers to it (`LiveIs`). The lemmas `ConcernsInv`, `TouchesInv` and `RestsInv`
treat the steps that move one connection on, that leave it at its stage, and
that concern none. `DestroyedStays` follows since such a step never concerns a
connection that is down (`AboutOne`, `RemovedIsDown`).

Only model-checked: `TcpServer` with user threads (run `tcpserver_thread`), all
liveness (out of the prover's reach, as is anything that rests on ENABLED), and the
two violations.

## 7. Not modelled

The thin parts named in section 1: `Socket` and `SocketsOps` are one system call
per function, whose outcomes are inputs of the modules that call them;
`InetAddress` formats an address; `Callbacks.h` and `copyable.h` hold no state;
`main.cc` is an example. `Channel`'s `eventHandling_` and the assertion on it in its
destructor are left out, as is the destruction of a `TcpServer` that still has
connections and of a `TimerQueue` that still has timers. The hazards that no
property covers say why in `PROJECT.json`.

------------------------------ MODULE EPoller -------------------------------
(***************************************************************************)
(* net/EPoller.{h,cc}: the poller that EventLoop uses, over epoll.  A call *)
(* is a step, as all are made in the loop's thread.  An epoll_ctl() that   *)
(* fails for an ADD or a MOD aborts the process (LOG_SYSFATAL).            *)
(***************************************************************************)
EXTENDS FiniteSets, FiniteSetsExt, Naturals

CONSTANTS Fds, Generations, Requests, Ready,
          InitEventListSize,    \* kInitEventListSize, 16 in the code
          None

VARIABLES events,      \* events_ of each channel
          gone,        \* the channels that have been removed
          index,       \* index_ of each channel
          channels,    \* channels_: from descriptors to channels
          interest,    \* the kernel's interest list
          listSize,    \* events_.size()
          report,      \* what poll() has put into activeChannels
          failed       \* the assertions and epoll_ctl() calls that failed

\* What is registered with the poller has an index other than kNew.
Demux == INSTANCE Demux WITH registered <- {c \in Fds \X (1 .. Generations) : index[c] # "kNew"}
Channels == Demux!Channels
Fd(c) == Demux!Fd(c)

Init ==
  /\ events = [c \in Channels |-> {}]
  /\ gone = {}
  /\ index = [c \in Channels |-> "kNew"]
  /\ channels = [fd \in Fds |-> None]
  /\ interest = [fd \in Fds |-> None]
  /\ listSize = InitEventListSize
  /\ report = <<>>
  /\ failed = {}

Failing(asserts) == {a \in DOMAIN asserts : ~ asserts[a]}

\* epoll_ctl() with ADD or MOD
Control(c, ev) == interest' = [interest EXCEPT ![Fd(c)] = [channel |-> c, events |-> ev]]
Delete(c) == interest' = [interest EXCEPT ![Fd(c)] = None]

\* updateChannel() of a channel that is new or was deleted: EPOLL_CTL_ADD.
Add(c, ev) ==
  /\ index[c] \in {"kNew", "kDeleted"}
  /\ channels' = [channels EXCEPT ![Fd(c)] = c]
  /\ index' = [index EXCEPT ![c] = "kAdded"]
  /\ Control(c, ev)
  /\ failed' = Failing([mapped |-> channels[Fd(c)] = IF index[c] = "kNew" THEN None ELSE c,
                        exists |-> interest[Fd(c)] = None])

\* A plausible mistake: the entry is not deleted, only its events cleared.
Modify_KeepsEntry(c, ev) ==
  /\ index[c] = "kAdded"
  /\ Control(c, ev)
  /\ index' = [index EXCEPT ![c] = IF ev = {} THEN "kDeleted" ELSE "kAdded"]
  /\ failed' = Failing([mapped |-> channels[Fd(c)] = c, absent |-> interest[Fd(c)] # None])
  /\ UNCHANGED channels

\* updateChannel() of a channel in epoll: EPOLL_CTL_DEL if it wants no
\* events, else EPOLL_CTL_MOD.
Modify(c, ev) ==
  /\ index[c] = "kAdded"
  /\ IF ev = {} THEN Delete(c) ELSE Control(c, ev)
  /\ index' = [index EXCEPT ![c] = IF ev = {} THEN "kDeleted" ELSE "kAdded"]
  /\ failed' = Failing([mapped |-> channels[Fd(c)] = c,
                        absent |-> ev # {} => interest[Fd(c)] # None])
  /\ UNCHANGED channels

\* Channel::update() once events_ is ev.
UpdateChannel(c, ev) ==
  /\ Demux!MayUpdate(c, ev)
  /\ events' = [events EXCEPT ![c] = ev]
  /\ Add(c, ev) \/ Modify(c, ev)
  /\ report' = <<>>
  /\ UNCHANGED <<gone, listSize>>

\* A plausible mistake: a channel without events is taken to be out of epoll.
RemoveChannel_LeavesEntry(c) ==
  /\ Demux!MayRemove(c)
  /\ channels' = [channels EXCEPT ![Fd(c)] = None]
  /\ index' = [index EXCEPT ![c] = "kNew"]
  /\ gone' = gone \cup {c}
  /\ failed' = Failing([mapped |-> channels[Fd(c)] = c])
  /\ report' = <<>>
  /\ UNCHANGED <<events, listSize, interest>>

RemoveChannel(c) ==
  /\ Demux!MayRemove(c)
  /\ channels' = [channels EXCEPT ![Fd(c)] = None]
  /\ IF index[c] = "kAdded" THEN Delete(c) ELSE UNCHANGED interest
  /\ index' = [index EXCEPT ![c] = "kNew"]
  /\ gone' = gone \cup {c}
  /\ failed' = Failing([mapped |-> channels[Fd(c)] = c])
  /\ report' = <<>>
  /\ UNCHANGED <<events, listSize>>

\* The descriptors that epoll_wait() has something to say of: the end of a
\* connection is reported whatever was asked for.
Due(ready) ==
  {fd \in Fds : interest[fd] # None /\ ready[fd] \cap (interest[fd].events \cup {"hup"}) # {}}

\* poll() and fillActiveChannels(): epoll_wait() fills events_ as far as it
\* goes, and events_ is doubled when it was too small or just large enough.
Poll(ready) ==
  \E S \in SUBSET Due(ready) :
    /\ Cardinality(S) = Min({Cardinality(Due(ready)), listSize})
    /\ report' = [c \in {interest[fd].channel : fd \in S} |->
                    ready[Fd(c)] \cap (interest[Fd(c)].events \cup {"hup"})]
    /\ listSize' = IF Cardinality(S) = listSize THEN 2 * listSize ELSE listSize
    /\ failed' = Failing([mapped |-> \A fd \in S : channels[fd] = interest[fd].channel])
    /\ UNCHANGED <<events, gone, index, channels, interest>>

ImplementsDemux == Demux!Spec
=============================================================================

------------------------------- MODULE Poller -------------------------------
(***************************************************************************)
(* net/Poller.{h,cc}: the poller over poll(2), which EventLoop no longer   *)
(* uses.  A channel that wants no events stays in pollfds_ with its        *)
(* descriptor negated; updateChannel() never turns it back.                *)
(***************************************************************************)
EXTENDS Integers, Sequences, SequencesExt

CONSTANTS Fds, Generations, Requests, Ready, None

VARIABLES events,      \* events_ of each channel
          gone,        \* the channels that have been removed
          index,       \* index_ of each channel
          channels,    \* channels_: from descriptors to channels
          pollfds,     \* pollfds_
          report,      \* what poll() has put into activeChannels
          failed       \* the assertions that failed

Demux == INSTANCE Demux WITH registered <- {c \in Fds \X (1 .. Generations) : channels[c[1]] = c}
Channels == Demux!Channels
Fd(c) == Demux!Fd(c)

Init ==
  /\ events = [c \in Channels |-> {}]
  /\ gone = {}
  /\ index = [c \in Channels |-> -1]
  /\ channels = [fd \in Fds |-> None]
  /\ pollfds = <<>>
  /\ report = <<>>
  /\ failed = {}

Failing(asserts) == {a \in DOMAIN asserts : ~ asserts[a]}

Hidden(fd) == - fd - 1
Slot(c) == pollfds[index[c] + 1]

\* updateChannel() of a new channel
Add(c, ev) ==
  /\ index[c] < 0
  /\ pollfds' = Append(pollfds, [fd |-> Fd(c), events |-> ev])
  /\ index' = [index EXCEPT ![c] = Len(pollfds)]
  /\ channels' = [channels EXCEPT ![Fd(c)] = c]
  /\ failed' = Failing([new |-> channels[Fd(c)] = None])

\* A plausible mistake: the events are copied only when there are none.
Modify_KeepsEvents(c, ev) ==
  /\ index[c] >= 0
  /\ pollfds' = [pollfds EXCEPT ![index[c] + 1] =
                   IF ev = {} THEN [fd |-> Hidden(Fd(c)), events |-> {}] ELSE @]
  /\ failed' = Failing([mapped |-> channels[Fd(c)] = c,
                        slot   |-> Slot(c).fd \in {Fd(c), Hidden(Fd(c))}])
  /\ UNCHANGED <<index, channels>>

\* updateChannel() of one that is in pollfds_
Modify(c, ev) ==
  /\ index[c] >= 0
  /\ pollfds' = [pollfds EXCEPT ![index[c] + 1] =
                   [fd |-> IF ev = {} THEN Hidden(Fd(c)) ELSE @.fd, events |-> ev]]
  /\ failed' = Failing([mapped |-> channels[Fd(c)] = c,
                        slot   |-> Slot(c).fd \in {Fd(c), Hidden(Fd(c))}])
  /\ UNCHANGED <<index, channels>>

UpdateChannel(c, ev) ==
  /\ Demux!MayUpdate(c, ev)
  /\ events' = [events EXCEPT ![c] = ev]
  /\ Add(c, ev) \/ Modify(c, ev)
  /\ report' = <<>>
  /\ UNCHANGED gone

\* The last pollfd takes the place of the one at idx.
MoveLast(idx) ==
  LET end == Last(pollfds).fd
      channelAtEnd == IF end < 0 THEN Hidden(end) ELSE end
  IN  /\ pollfds' = Front([pollfds EXCEPT ![idx + 1] = Last(pollfds)])
      /\ index' = [index EXCEPT ![channels[channelAtEnd]] = idx]

\* removeChannel() leaves index_ of the channel as it is.
RemoveChannel(c) ==
  /\ Demux!MayRemove(c)
  /\ channels' = [channels EXCEPT ![Fd(c)] = None]
  /\ IF index[c] = Len(pollfds) - 1
     THEN pollfds' = Front(pollfds) /\ UNCHANGED index
     ELSE MoveLast(index[c])
  /\ gone' = gone \cup {c}
  /\ failed' = Failing([mapped |-> channels[Fd(c)] # None,
                        slot   |-> Slot(c) = [fd |-> Hidden(Fd(c)), events |-> {}]])
  /\ report' = <<>>
  /\ UNCHANGED events

\* poll(2) passes over negative descriptors.
Polled(pfd, ready) ==
  IF pfd.fd < 0 THEN {} ELSE ready[pfd.fd] \cap (pfd.events \cup {"hup"})

\* poll() and fillActiveChannels()
Poll(ready) ==
  LET due == {pfd \in ToSet(pollfds) : Polled(pfd, ready) # {}}
  IN  /\ failed' = Failing([found |-> \A pfd \in due : channels[pfd.fd] # None])
      /\ report' = [c \in {channels[pfd.fd] : pfd \in due} |-> Polled(Slot(c), ready)]
      /\ UNCHANGED <<events, gone, index, channels, pollfds>>
=============================================================================

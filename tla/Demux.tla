------------------------------- MODULE Demux --------------------------------
(***************************************************************************)
(* What a poller promises to a loop and its channels: poll() gives every   *)
(* channel it reports just those events that are ready and that the        *)
(* channel has asked for (the end of the connection is reported without    *)
(* being asked for), and it does not pass over all the channels that have  *)
(* some.  A channel is (descriptor, generation): a descriptor that has     *)
(* been closed is given to another channel.                                *)
(***************************************************************************)
EXTENDS Naturals

CONSTANTS Fds,           \* descriptors
          Generations,   \* bound: the channels that have had a descriptor
          Requests,      \* the sets of events that channels ask for
          Ready          \* the sets of events that a descriptor is ready for

Channels == Fds \X (1 .. Generations)
Fd(c) == c[1]

VARIABLES events,        \* events_ of each channel
          registered,    \* the channels the poller knows
          gone,          \* those that have been removed
          report         \* what poll() has put into activeChannels

Init ==
  /\ events = [c \in Channels |-> {}]
  /\ registered = {}
  /\ gone = {}
  /\ report = <<>>

\* What the poller relies on: a channel is registered to be told of something,
\* has a descriptor of its own and is not updated after its removal.
MayUpdate(c, ev) ==
  /\ c \notin gone
  /\ c \notin registered => /\ ev # {}
                            /\ \A d \in registered : Fd(d) # Fd(c)
                            /\ \A d \in Channels : Fd(d) = Fd(c) /\ d[2] < c[2] => d \in gone

MayRemove(c) == c \in registered /\ events[c] = {}

Update(c, ev) ==
  /\ MayUpdate(c, ev)
  /\ events' = [events EXCEPT ![c] = ev]
  /\ registered' = registered \cup {c}
  /\ report' = <<>>
  /\ UNCHANGED gone

Remove(c) ==
  /\ MayRemove(c)
  /\ registered' = registered \ {c}
  /\ gone' = gone \cup {c}
  /\ report' = <<>>
  /\ UNCHANGED events

Due(c, ready) == ready[Fd(c)] \cap (events[c] \cup {"hup"})

Poll(ready) ==
  \E S \in SUBSET {c \in registered : Due(c, ready) # {}} :
    /\ S = {} => \A c \in registered : events[c] # {} => Due(c, ready) = {}
    /\ report' = [c \in S |-> Due(c, ready)]
    /\ UNCHANGED <<events, registered, gone>>

Next ==
  \/ \E c \in Channels : Remove(c) \/ \E ev \in Requests : Update(c, ev)
  \/ \E ready \in [Fds -> Ready] : Poll(ready)

Spec == Init /\ [][Next]_<<events, registered, gone, report>>
=============================================================================

------------------------------ MODULE Pollers -------------------------------
(***************************************************************************)
(* EPoller and Poller, which have one interface, given the same calls by   *)
(* the same channels and the same ready descriptors.                       *)
(***************************************************************************)
EXTENDS FiniteSets, Integers

CONSTANTS Fds, Generations, Requests, Ready, InitEventListSize, None

ASSUME PollersConstants ==
  /\ Fds \subseteq Nat
  /\ IsFiniteSet(Fds)
  /\ Generations \in Nat
  /\ {} \in Requests
  /\ InitEventListSize \in Nat \ {0}
  /\ None \notin Fds \X (1 .. Generations)
  /\ \A c \in Fds \X (1 .. Generations), ev \in Requests : None # [channel |-> c, events |-> ev]

VARIABLES events, gone,
          eIndex, eChannels, interest, listSize, eReport, eFailed,
          pIndex, pChannels, pollfds, pReport, pFailed,
          enabledAgain    \* history: disabled and, not being removed, enabled

EPoller == INSTANCE EPoller WITH index <- eIndex, channels <- eChannels,
                                 report <- eReport, failed <- eFailed
Poller == INSTANCE Poller WITH index <- pIndex, channels <- pChannels,
                               report <- pReport, failed <- pFailed

vars == <<events, gone, eIndex, eChannels, interest, listSize, eReport, eFailed,
          pIndex, pChannels, pollfds, pReport, pFailed, enabledAgain>>

Init == EPoller!Init /\ Poller!Init /\ enabledAgain = {}

Update(c, ev) ==
  /\ EPoller!UpdateChannel(c, ev)
  /\ Poller!UpdateChannel(c, ev)
  /\ enabledAgain' = IF pIndex[c] >= 0 /\ events[c] = {} /\ ev # {}
                     THEN enabledAgain \cup {c}
                     ELSE enabledAgain

Remove(c) ==
  /\ EPoller!RemoveChannel(c)
  /\ Poller!RemoveChannel(c)
  /\ UNCHANGED enabledAgain

Poll(ready) ==
  /\ EPoller!Poll(ready)
  /\ Poller!Poll(ready)
  /\ UNCHANGED enabledAgain

\* A failed assertion aborts the process.
Next ==
  /\ eFailed = {} /\ pFailed = {}
  /\ \/ \E c \in EPoller!Channels : Remove(c) \/ \E ev \in Requests : Update(c, ev)
     \/ \E ready \in [Fds -> Ready] : Poll(ready)

Spec == Init /\ [][Next]_vars

-----------------------------------------------------------------------------
(***************************************************************************)
(* channels_, index_ and the kernel's interest list, and channels_, index_ *)
(* and pollfds_, agree however channels are enabled, disabled and removed: *)
(* no assertion of either poller fails, and no epoll_ctl() does.           *)
(***************************************************************************)
NothingFails == eFailed = {} /\ pFailed = {}

(***************************************************************************)
(* EPoller reports what is ready and wanted, for the channels that have    *)
(* the descriptors now, and of some if events_ is too short for all.       *)
(***************************************************************************)
EPollerImplementsDemux == EPoller!ImplementsDemux

(***************************************************************************)
(* The two pollers report the same events of the same channels, but for    *)
(* those that have been disabled, of which Poller says nothing even when   *)
(* they are enabled again, and those that events_ had no room for: it is   *)
(* made larger then.                                                       *)
(***************************************************************************)
PollersAgree ==
  [][(eReport' # <<>> \/ pReport' # <<>>) =>
       \A c \in {d \in EPoller!Channels \ enabledAgain : events[d] # {}} :
         /\ c \in DOMAIN eReport' => c \in DOMAIN pReport' /\ pReport'[c] = eReport'[c]
         /\ c \in DOMAIN pReport' => \/ c \in DOMAIN eReport'
                                     \/ /\ Cardinality(DOMAIN eReport') = listSize
                                        /\ listSize' > listSize]_vars
=============================================================================

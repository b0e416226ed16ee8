--------------------------- MODULE Pollers_proofs ---------------------------
(***************************************************************************)
(* Proofs about the two pollers, for any descriptors, requests and size of *)
(* events_.                                                                *)
(***************************************************************************)
EXTENDS Pollers, FiniteSetTheorems, FunctionTheorems, SequenceTheorems, TLAPS

Channels == Fds \X (1 .. Generations)

Registered(c) == eIndex[c] # "kNew"

Entry(c) == [channel |-> c, events |-> events[c]]

(***************************************************************************)
(* The inductive invariant of EPoller: channels_ holds the channels with   *)
(* an index other than kNew, and the kernel's interest list those that are *)
(* kAdded, with what they ask for.                                         *)
(***************************************************************************)
ETypes ==
  /\ events \in [Channels -> Requests]
  /\ eIndex \in [Channels -> {"kNew", "kAdded", "kDeleted"}]
  /\ eChannels \in [Fds -> Channels \cup {None}]
  /\ DOMAIN interest = Fds
  /\ listSize \in Nat \ {0}

EMapped ==
  /\ \A c \in Channels : eChannels[c[1]] = c <=> Registered(c)
  /\ \A fd \in Fds : eChannels[fd] # None => eChannels[fd][1] = fd

EInterest ==
  /\ \A c \in Channels : eIndex[c] = "kAdded" => interest[c[1]] = Entry(c)
  /\ \A c \in Channels : eIndex[c] = "kDeleted" => events[c] = {}
  /\ \A fd \in Fds : interest[fd] # None =>
       \E c \in Channels : c[1] = fd /\ eIndex[c] = "kAdded"

EInv == eFailed = {} /\ ETypes /\ EMapped /\ EInterest


-----------------------------------------------------------------------------
(* EPoller *)

(***************************************************************************)
(* An assertion that holds does not fail.                                  *)
(***************************************************************************)
LEMMA ENoneFailing ==
  ASSUME NEW a, NEW b, a, b
  PROVE  /\ EPoller!Failing([mapped |-> a]) = {}
         /\ EPoller!Failing([mapped |-> a, exists |-> b]) = {}
         /\ EPoller!Failing([mapped |-> a, absent |-> b]) = {}
BY DEF EPoller!Failing

LEMMA EInitHolds == Init => EInv
BY PollersConstants
DEF Init, EPoller!Init, EInv, ETypes, EMapped, EInterest, Channels, EPoller!Channels,
    EPoller!Demux!Channels, Registered

LEMMA EntryIsSome ==
  ASSUME ETypes, NEW c \in Channels
  PROVE  Entry(c) # None
<1>1. events[c] \in Requests
  BY DEF ETypes
<1>. QED
  BY <1>1, PollersConstants DEF Channels, Entry

(***************************************************************************)
(* updateChannel() preserves the invariant: a new channel finds its        *)
(* descriptor free in channels_ and in the interest list.                  *)
(***************************************************************************)
LEMMA EUpdateKeeps ==
  ASSUME EInv, NEW c \in Channels, NEW ev \in Requests, EPoller!UpdateChannel(c, ev)
  PROVE  /\ EInv'
         /\ eIndex' = [eIndex EXCEPT ![c] = eIndex'[c]]
         /\ Registered(c)'
<1>1. /\ c \notin gone
      /\ eIndex[c] = "kNew" => \A d \in Channels : Registered(d) => d[1] # c[1]
      /\ events' = [events EXCEPT ![c] = ev]
      /\ listSize' = listSize
  BY DEF EPoller!UpdateChannel, EPoller!Demux!MayUpdate, EPoller!Demux!Fd, Channels, Registered
<1>2. ETypes /\ EMapped /\ EInterest /\ c[1] \in Fds /\ None \notin Channels
  BY PollersConstants DEF EInv, Channels
<1>3. None # [channel |-> c, events |-> ev]
  BY PollersConstants DEF Channels
<1>4. CASE EPoller!Add(c, ev)
  <2>1. /\ eIndex[c] \in {"kNew", "kDeleted"}
        /\ eChannels' = [eChannels EXCEPT ![c[1]] = c]
        /\ eIndex' = [eIndex EXCEPT ![c] = "kAdded"]
        /\ interest' = [interest EXCEPT ![c[1]] = [channel |-> c, events |-> ev]]
    BY <1>4 DEF EPoller!Add, EPoller!Control, EPoller!Fd, EPoller!Demux!Fd
  <2>2. /\ eChannels[c[1]] = IF eIndex[c] = "kNew" THEN None ELSE c
        /\ interest[c[1]] = None
    <3>1. eIndex[c] = "kNew" => eChannels[c[1]] = None
      BY <1>1, <1>2 DEF ETypes, EMapped
    <3>2. eIndex[c] = "kDeleted" => eChannels[c[1]] = c
      BY <1>2 DEF EMapped, Registered
    <3>3. ASSUME NEW d \in Channels, d[1] = c[1], eIndex[d] = "kAdded" PROVE FALSE
      BY <1>1, <1>2, <2>1, <3>2, <3>3 DEF EMapped, Registered
    <3>. QED
      BY <1>2, <2>1, <3>1, <3>2, <3>3 DEF EInterest
  <2>3. eFailed' = {}
    BY <1>4, <2>2, ENoneFailing DEF EPoller!Add, EPoller!Fd, EPoller!Demux!Fd
  <2>4. ETypes'
    BY <1>1, <1>2, <2>1 DEF ETypes
  <2>5. EMapped'
    BY <1>2, <2>1, <2>2 DEF ETypes, EMapped, Registered
  <2>6. EInterest'
    <3>1. ASSUME NEW d \in Channels, eIndex'[d] = "kAdded" PROVE interest'[d[1]] = Entry(d)'
      <4>1. CASE d = c
        BY <1>1, <1>2, <2>1, <4>1 DEF ETypes, Entry
      <4>2. CASE d # c
        <5>1. eIndex[d] = "kAdded" /\ interest[d[1]] = Entry(d)
          BY <1>2, <2>1, <3>1, <4>2 DEF ETypes, EInterest
        <5>2. d[1] # c[1]
          BY <1>1, <1>2, <2>1, <4>2, <5>1 DEF EMapped, Registered
        <5>. QED
          BY <1>1, <1>2, <2>1, <4>2, <5>1, <5>2 DEF ETypes, Entry, Channels
      <4>. QED
        BY <4>1, <4>2
    <3>2. \A d \in Channels : eIndex'[d] = "kDeleted" => events'[d] = {}
      BY <1>1, <1>2, <2>1 DEF ETypes, EInterest
    <3>3. \A fd \in Fds : interest'[fd] # None =>
            \E d \in Channels : d[1] = fd /\ eIndex'[d] = "kAdded"
      BY <1>2, <2>1 DEF ETypes, EInterest
    <3>. QED
      BY <3>1, <3>2, <3>3 DEF EInterest
  <2>. QED
    BY <1>2, <2>1, <2>3, <2>4, <2>5, <2>6 DEF EInv, ETypes, Registered
<1>5. CASE EPoller!Modify(c, ev)
  <2>1. /\ eIndex[c] = "kAdded"
        /\ eChannels' = eChannels
        /\ eIndex' = [eIndex EXCEPT ![c] = IF ev = {} THEN "kDeleted" ELSE "kAdded"]
        /\ interest' = [interest EXCEPT ![c[1]] = IF ev = {} THEN None
                                                  ELSE [channel |-> c, events |-> ev]]
    BY <1>5 DEF EPoller!Modify, EPoller!Delete, EPoller!Control, EPoller!Fd, EPoller!Demux!Fd
  <2>2. eChannels[c[1]] = c
    BY <1>2, <2>1 DEF EMapped, Registered
  <2>3. interest[c[1]] # None
    BY <1>2, <2>1, EntryIsSome DEF EInterest
  <2>4. eFailed' = {}
    BY <1>5, <2>2, <2>3, ENoneFailing DEF EPoller!Modify, EPoller!Fd, EPoller!Demux!Fd
  <2>5. ETypes'
    BY <1>1, <1>2, <2>1 DEF ETypes
  <2>6. EMapped'
    BY <1>2, <2>1 DEF ETypes, EMapped, Registered
  <2>7. \A d \in Channels : d # c /\ Registered(d) => d[1] # c[1]
    BY <1>2, <2>2 DEF EMapped
  <2>8. EInterest'
    <3>1. ASSUME NEW d \in Channels, eIndex'[d] = "kAdded" PROVE interest'[d[1]] = Entry(d)'
      <4>1. CASE d = c
        BY <1>1, <1>2, <2>1, <3>1, <4>1 DEF ETypes, Entry
      <4>2. CASE d # c
        <5>1. eIndex[d] = "kAdded" /\ interest[d[1]] = Entry(d)
          BY <1>2, <2>1, <3>1, <4>2 DEF ETypes, EInterest
        <5>2. d[1] # c[1]
          BY <2>7, <4>2, <5>1 DEF Registered
        <5>. QED
          BY <1>1, <1>2, <2>1, <4>2, <5>1, <5>2 DEF ETypes, Entry, Channels
      <4>. QED
        BY <4>1, <4>2
    <3>2. \A d \in Channels : eIndex'[d] = "kDeleted" => events'[d] = {}
      BY <1>1, <1>2, <2>1 DEF ETypes, EInterest
    <3>3. ASSUME NEW fd \in Fds, interest'[fd] # None
          PROVE  \E d \in Channels : d[1] = fd /\ eIndex'[d] = "kAdded"
      <4>1. CASE fd = c[1]
        BY <1>2, <2>1, <3>3, <4>1 DEF ETypes
      <4>2. CASE fd # c[1]
        <5>1. PICK d \in Channels : d[1] = fd /\ eIndex[d] = "kAdded"
          BY <1>2, <2>1, <3>3, <4>2 DEF ETypes, EInterest
        <5>. QED
          BY <1>2, <2>1, <4>2, <5>1 DEF ETypes
      <4>. QED
        BY <4>1, <4>2
    <3>. QED
      BY <3>1, <3>2, <3>3 DEF EInterest
  <2>. QED
    BY <1>2, <2>1, <2>4, <2>5, <2>6, <2>8 DEF EInv, ETypes, Registered
<1>. QED
  BY <1>4, <1>5 DEF EPoller!UpdateChannel

(***************************************************************************)
(* removeChannel() preserves the invariant.                                *)
(***************************************************************************)
LEMMA ERemoveKeeps ==
  ASSUME EInv, NEW c \in Channels, EPoller!RemoveChannel(c)
  PROVE  /\ EInv'
         /\ eIndex' = [eIndex EXCEPT ![c] = "kNew"]
<1>1. /\ Registered(c)
      /\ events' = events
      /\ listSize' = listSize
      /\ eChannels' = [eChannels EXCEPT ![c[1]] = None]
      /\ eIndex' = [eIndex EXCEPT ![c] = "kNew"]
      /\ interest' = IF eIndex[c] = "kAdded" THEN [interest EXCEPT ![c[1]] = None]
                                             ELSE interest
  BY DEF EPoller!RemoveChannel, EPoller!Demux!MayRemove, EPoller!Delete, EPoller!Fd,
         EPoller!Demux!Fd, Registered
<1>2. ETypes /\ EMapped /\ EInterest /\ c[1] \in Fds /\ None \notin Channels
  BY PollersConstants DEF EInv, Channels
<1>3. eChannels[c[1]] = c
  BY <1>1, <1>2 DEF EMapped
<1>4. eFailed' = {}
  BY <1>3, ENoneFailing DEF EPoller!RemoveChannel, EPoller!Fd, EPoller!Demux!Fd
<1>5. \A d \in Channels : d # c /\ Registered(d) => d[1] # c[1]
  BY <1>2, <1>3 DEF EMapped
<1>6. ETypes'
  BY <1>1, <1>2 DEF ETypes
<1>7. EMapped'
  BY <1>1, <1>2, <1>5 DEF ETypes, EMapped, Registered
<1>8. EInterest'
  <2>1. ASSUME NEW d \in Channels, eIndex'[d] = "kAdded" PROVE interest'[d[1]] = Entry(d)'
    <3>1. d # c /\ eIndex[d] = "kAdded" /\ interest[d[1]] = Entry(d)
      BY <1>1, <1>2, <2>1 DEF ETypes, EInterest
    <3>2. d[1] # c[1]
      BY <1>5, <3>1 DEF Registered
    <3>. QED
      BY <1>1, <1>2, <3>1, <3>2 DEF ETypes, Entry, Channels
  <2>2. \A d \in Channels : eIndex'[d] = "kDeleted" => events'[d] = {}
    BY <1>1, <1>2 DEF ETypes, EInterest
  <2>3. ASSUME NEW fd \in Fds, interest'[fd] # None
        PROVE  \E d \in Channels : d[1] = fd /\ eIndex'[d] = "kAdded"
    <3>1. interest[fd] # None
      BY <1>1, <1>2, <2>3 DEF ETypes
    <3>2. PICK d \in Channels : d[1] = fd /\ eIndex[d] = "kAdded"
      BY <1>2, <3>1 DEF EInterest
    <3>3. d # c
      BY <1>1, <1>2, <2>3, <3>2 DEF ETypes
    <3>. QED
      BY <1>1, <1>2, <3>2, <3>3 DEF ETypes
  <2>. QED
    BY <2>1, <2>2, <2>3 DEF EInterest
<1>. QED
  BY <1>1, <1>4, <1>6, <1>7, <1>8 DEF EInv

(***************************************************************************)
(* What the standard modules define is the same in an instance.            *)
(***************************************************************************)
LEMMA SameCardinality == \A S : EPoller!Cardinality(S) = Cardinality(S)
BY DEF EPoller!Cardinality, Cardinality, EPoller!IsFiniteSet, IsFiniteSet

LEMMA MinOfTwo ==
  ASSUME NEW a \in Nat, NEW b \in Nat
  PROVE  EPoller!Min({a, b}) = IF a <= b THEN a ELSE b
BY DEF EPoller!Min

(***************************************************************************)
(* The kernel reports the channel that has the descriptor now.             *)
(***************************************************************************)
LEMMA InterestIsEntry ==
  ASSUME EInv, NEW fd \in Fds, interest[fd] # None
  PROVE  /\ interest[fd].channel \in Channels
         /\ interest[fd].channel[1] = fd
         /\ Registered(interest[fd].channel)
         /\ eChannels[fd] = interest[fd].channel
         /\ interest[fd].events = events[interest[fd].channel]
<1>1. PICK c \in Channels : c[1] = fd /\ eIndex[c] = "kAdded"
  BY DEF EInv, EInterest
<1>2. interest[fd] = [channel |-> c, events |-> events[c]]
  BY <1>1 DEF EInv, EInterest, Entry
<1>3. eChannels[fd] = c /\ Registered(c)
  BY <1>1 DEF EInv, EMapped, Registered
<1>. QED
  BY <1>1, <1>2, <1>3

(***************************************************************************)
(* poll() preserves the invariant.                                         *)
(***************************************************************************)
LEMMA EPollKeeps ==
  ASSUME EInv, NEW ready, EPoller!Poll(ready)
  PROVE  /\ EInv'
         /\ UNCHANGED <<events, gone, eIndex, eChannels, interest>>
<1>1. PICK S \in SUBSET EPoller!Due(ready) :
        /\ listSize' = IF Cardinality(S) = listSize THEN 2 * listSize ELSE listSize
        /\ eFailed' = EPoller!Failing([mapped |-> \A fd \in S : eChannels[fd] = interest[fd].channel])
        /\ UNCHANGED <<events, gone, eIndex, eChannels, interest>>
  BY SameCardinality DEF EPoller!Poll
<1>2. \A fd \in S : eChannels[fd] = interest[fd].channel
  BY InterestIsEntry DEF EPoller!Due
<1>3. eFailed' = {}
  BY <1>1, <1>2, ENoneFailing
<1>4. listSize' \in Nat \ {0}
  BY <1>1 DEF EInv, ETypes
<1>. QED
  BY <1>1, <1>3, <1>4 DEF EInv, ETypes, EMapped, EInterest, Registered, Entry


(***************************************************************************)
(* What the abstract poller knows.                                         *)
(***************************************************************************)
Known == {c \in Fds \X (1 .. Generations) : eIndex[c] # "kNew"}

DemuxVars == <<events, Known, gone, eReport>>

LEMMA UpdateImplements ==
  ASSUME EInv, NEW c \in Channels, NEW ev \in Requests, EPoller!UpdateChannel(c, ev)
  PROVE  EPoller!Demux!Update(c, ev)
<1>1. Known' = Known \cup {c}
  <2>1. eIndex' = [eIndex EXCEPT ![c] = eIndex'[c]] /\ eIndex'[c] # "kNew"
    BY EUpdateKeeps DEF Registered
  <2>2. DOMAIN eIndex = Channels
    BY DEF EInv, ETypes
  <2>. QED
    BY <2>1, <2>2 DEF Known, Channels
<1>. QED
  BY <1>1 DEF EPoller!UpdateChannel, EPoller!Demux!Update, Known

LEMMA RemoveImplements ==
  ASSUME EInv, NEW c \in Channels, EPoller!RemoveChannel(c)
  PROVE  EPoller!Demux!Remove(c)
<1>1. Known' = Known \ {c}
  <2>1. eIndex' = [eIndex EXCEPT ![c] = "kNew"]
    BY ERemoveKeeps
  <2>2. DOMAIN eIndex = Channels
    BY DEF EInv, ETypes
  <2>. QED
    BY <2>1, <2>2 DEF Known, Channels
<1>. QED
  BY <1>1 DEF EPoller!RemoveChannel, EPoller!Demux!Remove, Known

(***************************************************************************)
(* epoll_wait() reports a descriptor for the channel that has it, with     *)
(* what is ready and wanted, and nothing only if nothing is.               *)
(***************************************************************************)
LEMMA PollReports ==
  ASSUME EInv, NEW ready, EPoller!Poll(ready)
  PROVE  \E S \in SUBSET EPoller!Due(ready) :
           /\ Cardinality(S) = IF Cardinality(EPoller!Due(ready)) <= listSize
                               THEN Cardinality(EPoller!Due(ready)) ELSE listSize
           /\ eReport' = [c \in {interest[fd].channel : fd \in S} |->
                            EPoller!Demux!Due(c, ready)]
           /\ listSize' = IF Cardinality(S) = listSize THEN 2 * listSize ELSE listSize
<1>1. PICK S \in SUBSET EPoller!Due(ready) :
        /\ Cardinality(S) = EPoller!Min({Cardinality(EPoller!Due(ready)), listSize})
        /\ eReport' = [c \in {interest[fd].channel : fd \in S} |->
                         ready[c[1]] \cap (interest[c[1]].events \cup {"hup"})]
        /\ listSize' = IF Cardinality(S) = listSize THEN 2 * listSize ELSE listSize
  BY SameCardinality DEF EPoller!Poll, EPoller!Fd, EPoller!Demux!Fd
<1>2. Cardinality(EPoller!Due(ready)) \in Nat /\ listSize \in Nat
  BY PollersConstants, FS_Subset, FS_CardinalityType DEF EPoller!Due, EInv, ETypes
<1>3. \A c \in {interest[fd].channel : fd \in S} :
        ready[c[1]] \cap (interest[c[1]].events \cup {"hup"}) = EPoller!Demux!Due(c, ready)
  BY InterestIsEntry DEF EPoller!Due, EPoller!Demux!Due, EPoller!Demux!Fd
<1>4. eReport' = [c \in {interest[fd].channel : fd \in S} |-> EPoller!Demux!Due(c, ready)]
  BY <1>1, <1>3
<1>. QED
  BY <1>1, <1>2, <1>4, MinOfTwo

LEMMA DueIsFinite == \A ready : IsFiniteSet(EPoller!Due(ready))
BY PollersConstants, FS_Subset DEF EPoller!Due

LEMMA PollImplements ==
  ASSUME EInv, NEW ready, EPoller!Poll(ready)
  PROVE  EPoller!Demux!Poll(ready)
<1>1. PICK S \in SUBSET EPoller!Due(ready) :
           /\ Cardinality(S) = IF Cardinality(EPoller!Due(ready)) <= listSize
                               THEN Cardinality(EPoller!Due(ready)) ELSE listSize
           /\ eReport' = [c \in {interest[fd].channel : fd \in S} |->
                            EPoller!Demux!Due(c, ready)]
  BY PollReports
<1>. DEFINE R == {interest[fd].channel : fd \in S}
<1>2. R \in SUBSET {c \in Known : EPoller!Demux!Due(c, ready) # {}}
  BY InterestIsEntry
  DEF EPoller!Due, EPoller!Demux!Due, EPoller!Demux!Fd, Known, Registered, Channels
<1>3. ASSUME R = {} PROVE \A c \in Known : events[c] # {} => EPoller!Demux!Due(c, ready) = {}
  <2>1. S = {}
    BY <1>3
  <2>2. Cardinality(EPoller!Due(ready)) \in Nat /\ listSize \in Nat \ {0}
    BY DueIsFinite, FS_CardinalityType DEF EInv, ETypes
  <2>3. Cardinality(EPoller!Due(ready)) = 0
    BY <1>1, <2>1, <2>2, FS_EmptySet
  <2>4. EPoller!Due(ready) = {}
    BY <2>3, DueIsFinite, FS_EmptySet
  <2>5. ASSUME NEW c \in Known, events[c] # {} PROVE EPoller!Demux!Due(c, ready) = {}
    <3>1. c \in Channels /\ c[1] \in Fds /\ eIndex[c] = "kAdded"
      BY <2>5 DEF Known, Channels, EInv, ETypes, EInterest
    <3>2. interest[c[1]] = Entry(c) /\ interest[c[1]] # None
      BY <3>1, EntryIsSome DEF EInv, EInterest
    <3>. QED
      BY <2>4, <3>1, <3>2 DEF EPoller!Due, EPoller!Demux!Due, EPoller!Demux!Fd, Entry
  <2>. QED
    BY <2>5
<1>4. UNCHANGED <<events, Known, gone>>
  BY EPollKeeps DEF Known
<1>. QED
  BY <1>1, <1>2, <1>3, <1>4 DEF EPoller!Demux!Poll, Known

-----------------------------------------------------------------------------
(* Poller *)

PRegistered(c) == pChannels[c[1]] = c

Hidden(fd) == - fd - 1

PollFds == [fd : Int, events : Requests]

(***************************************************************************)
(* The inductive invariant of Poller: every registered channel has a       *)
(* pollfd, at its index, and every pollfd a registered channel.            *)
(***************************************************************************)
PTypes ==
  /\ events \in [Channels -> Requests]
  /\ pIndex \in [Channels -> Int]
  /\ pChannels \in [Fds -> Channels \cup {None}]
  /\ pollfds \in Seq(PollFds)

PMapped ==
  /\ \A fd \in Fds : pChannels[fd] # None => pChannels[fd][1] = fd
  /\ \A c \in Channels : pIndex[c] >= 0 => PRegistered(c) \/ c \in gone

\* The pollfd of a channel of descriptor fd that asks for ev; it may be hidden
\* although there is something to ask for if this was not so all the time.
IsSlotOf(pfd, fd, ev, again) ==
  /\ pfd.events = ev
  /\ pfd.fd \in {fd, Hidden(fd)}
  /\ ev = {} => pfd.fd = Hidden(fd)
  /\ pfd.fd = fd \/ ev = {} \/ again

HasSlot(c) == IsSlotOf(pollfds[pIndex[c] + 1], c[1], events[c], c \in enabledAgain)

PSlots ==
  /\ \A c \in Channels : PRegistered(c) => /\ pIndex[c] >= 0
                                           /\ pIndex[c] < Len(pollfds)
                                           /\ HasSlot(c)
  /\ \A i \in 1 .. Len(pollfds) : \E c \in Channels : PRegistered(c) /\ pIndex[c] + 1 = i

PInv == pFailed = {} /\ PTypes /\ PMapped /\ PSlots

LEMMA PNoneFailing ==
  ASSUME NEW a, NEW b, a, b
  PROVE  /\ Poller!Failing([new |-> a]) = {}
         /\ Poller!Failing([found |-> a]) = {}
         /\ Poller!Failing([mapped |-> a, slot |-> b]) = {}
BY DEF Poller!Failing

LEMMA PInitHolds == Init => PInv
BY PollersConstants
DEF Init, EPoller!Init, Poller!Init, PInv, PTypes, PMapped, PSlots, PRegistered, Channels,
    Poller!Channels, Poller!Demux!Channels

(***************************************************************************)
(* A pollfd is of one channel only.                                        *)
(***************************************************************************)
LEMMA SlotsDiffer ==
  ASSUME PInv, NEW c \in Channels, NEW d \in Channels, PRegistered(c), PRegistered(d),
         pIndex[c] = pIndex[d]
  PROVE  c = d
<1>1. pollfds[pIndex[c] + 1].fd \in {c[1], Hidden(c[1])} \cap {d[1], Hidden(d[1])}
  BY DEF PInv, PSlots, HasSlot, IsSlotOf
<1>2. c[1] \in Nat /\ d[1] \in Nat
  BY PollersConstants DEF Channels
<1>3. c[1] = d[1]
  BY <1>1, <1>2 DEF Hidden
<1>. QED
  BY <1>3 DEF PRegistered

(***************************************************************************)
(* updateChannel() preserves the invariant.                                *)
(***************************************************************************)
LEMMA PUpdateKeeps ==
  ASSUME PInv, NEW c \in Channels, NEW ev \in Requests, Poller!UpdateChannel(c, ev),
         enabledAgain' = IF pIndex[c] >= 0 /\ events[c] = {} /\ ev # {}
                         THEN enabledAgain \cup {c} ELSE enabledAgain
  PROVE  /\ PInv'
         /\ \A d \in Channels : PRegistered(d)' <=> d = c \/ PRegistered(d)
<1>1. /\ c \notin gone
      /\ ~ PRegistered(c) => ev # {} /\ \A d \in Channels : PRegistered(d) => d[1] # c[1]
      /\ events' = [events EXCEPT ![c] = ev]
      /\ gone' = gone
  BY DEF Poller!UpdateChannel, Poller!Demux!MayUpdate, Poller!Demux!Fd, Channels, PRegistered
<1>2. /\ PTypes /\ PMapped /\ PSlots /\ c[1] \in Fds /\ None \notin Channels
      /\ \A d \in Channels : d[1] \in Fds
      /\ c[1] \in Nat /\ c[1] \in Int /\ Hidden(c[1]) \in Int
  <2>1. \A d \in Channels : d[1] \in Fds /\ d[1] \in Nat
    BY PollersConstants DEF Channels
  <2>2. c[1] \in Int /\ Hidden(c[1]) \in Int
    BY <2>1 DEF Hidden
  <2>. QED
    BY <2>1, <2>2, PollersConstants DEF PInv, Channels
<1>3. /\ Len(pollfds) \in Nat
      /\ DOMAIN pollfds = 1 .. Len(pollfds)
  BY <1>2 DEF PTypes
<1>4. CASE Poller!Add(c, ev)
  <2>1. /\ pIndex[c] < 0
        /\ pollfds' = Append(pollfds, [fd |-> c[1], events |-> ev])
        /\ pIndex' = [pIndex EXCEPT ![c] = Len(pollfds)]
        /\ pChannels' = [pChannels EXCEPT ![c[1]] = c]
    BY <1>4 DEF Poller!Add, Poller!Fd, Poller!Demux!Fd
  <2>2. ~ PRegistered(c) /\ ev # {}
    BY <1>1, <1>2, <2>1 DEF PSlots, PTypes
  <2>3. pChannels[c[1]] = None
    BY <1>1, <1>2, <2>2 DEF PTypes, PMapped, PRegistered
  <2>4. pFailed' = {}
    BY <1>4, <2>3, PNoneFailing DEF Poller!Add, Poller!Fd, Poller!Demux!Fd
  <2>5. [fd |-> c[1], events |-> ev] \in PollFds
    BY <1>2 DEF PollFds
  <2>6. /\ pollfds' \in Seq(PollFds)
        /\ Len(pollfds') = Len(pollfds) + 1
        /\ pollfds'[Len(pollfds) + 1] = [fd |-> c[1], events |-> ev]
        /\ \A i \in 1 .. Len(pollfds) : pollfds'[i] = pollfds[i]
    BY <1>2, <2>1, <2>5 DEF PTypes
  <2>7. PTypes'
    BY <1>1, <1>2, <1>3, <2>1, <2>6 DEF PTypes
  <2>8. \A d \in Channels : PRegistered(d)' <=> d = c \/ PRegistered(d)
    BY <1>1, <1>2, <2>1, <2>2 DEF PTypes, PRegistered
  <2>9. PMapped'
    BY <1>1, <1>2, <2>1, <2>8 DEF PTypes, PMapped, PRegistered
  <2>10. PSlots'
    <3>1. /\ pIndex'[c] = Len(pollfds)
          /\ \A d \in Channels : d # c => pIndex'[d] = pIndex[d] /\ events'[d] = events[d]
          /\ events'[c] = ev
          /\ enabledAgain' = enabledAgain
      BY <1>1, <1>2, <2>1 DEF PTypes
    <3>2. HasSlot(c)'
      BY <2>2, <2>6, <3>1 DEF HasSlot, IsSlotOf
    <3>3. ASSUME NEW d \in Channels, d # c, PRegistered(d)
          PROVE  pIndex'[d] >= 0 /\ pIndex'[d] < Len(pollfds')
                 /\ HasSlot(d)'
      <4>1. pIndex[d] \in Int /\ pIndex[d] >= 0 /\ pIndex[d] < Len(pollfds)
            /\ HasSlot(d)
        BY <1>2, <3>3 DEF PSlots, PTypes
      <4>2. pIndex[d] + 1 \in 1 .. Len(pollfds) /\ pIndex[d] < Len(pollfds) + 1
        BY <1>3, <4>1
      <4>. QED
        BY <2>6, <3>1, <3>3, <4>1, <4>2 DEF HasSlot
    <3>4. ASSUME NEW i \in 1 .. Len(pollfds')
          PROVE  \E d \in Channels : PRegistered(d)' /\ pIndex'[d] + 1 = i
      <4>1. CASE i = Len(pollfds) + 1
        BY <2>8, <3>1, <4>1
      <4>2. CASE i \in 1 .. Len(pollfds)
        <5>1. PICK d \in Channels : PRegistered(d) /\ pIndex[d] + 1 = i
          BY <1>2, <4>2 DEF PSlots
        <5>. QED
          BY <2>2, <2>8, <3>1, <5>1
      <4>. QED
        BY <1>3, <2>6, <4>1, <4>2
    <3>5. pIndex'[c] >= 0 /\ pIndex'[c] < Len(pollfds')
      BY <1>3, <2>6, <3>1
    <3>. QED
      BY <2>8, <3>2, <3>3, <3>4, <3>5 DEF PSlots
  <2>. QED
    BY <2>4, <2>7, <2>8, <2>9, <2>10 DEF PInv
<1>5. CASE Poller!Modify(c, ev)
  <2>1. /\ pIndex[c] >= 0
        /\ pollfds' = [pollfds EXCEPT ![pIndex[c] + 1] =
                         [fd |-> IF ev = {} THEN Hidden(c[1]) ELSE pollfds[pIndex[c] + 1].fd,
                          events |-> ev]]
        /\ UNCHANGED <<pIndex, pChannels>>
    BY <1>5 DEF Poller!Modify, Poller!Fd, Poller!Demux!Fd, Poller!Hidden, Hidden
  <2>2. PRegistered(c)
    BY <1>1, <1>2, <2>1 DEF PMapped
  <2>. DEFINE k == pIndex[c] + 1
  <2>3. /\ k \in 1 .. Len(pollfds)
        /\ IsSlotOf(pollfds[k], c[1], events[c], c \in enabledAgain)
        /\ pollfds[k] \in PollFds
    BY <1>2, <1>3, <2>2 DEF PSlots, PTypes, HasSlot
  <2>4. pFailed' = {}
    <3>1. pChannels[c[1]] = c /\ pollfds[k].fd \in {c[1], - c[1] - 1}
      BY <2>2, <2>3 DEF PRegistered, IsSlotOf, Hidden
    <3>. QED
      BY <1>5, <3>1, PNoneFailing
      DEF Poller!Modify, Poller!Fd, Poller!Demux!Fd, Poller!Slot, Poller!Hidden
  <2>. DEFINE new == [fd |-> IF ev = {} THEN Hidden(c[1]) ELSE pollfds[k].fd, events |-> ev]
  <2>5. new \in PollFds /\ IsSlotOf(new, c[1], ev, c \in enabledAgain')
    <3>1. c[1] \in Int /\ Hidden(c[1]) \in Int /\ pollfds[k].fd \in Int
      BY <1>2, <2>3 DEF PollFds
    <3>2. events'[c] = ev
      BY <1>1, <1>2 DEF PTypes
    <3>3. new \in PollFds
      BY <3>1 DEF PollFds
    <3>4. ev # {} => new.fd = c[1] \/ c \in enabledAgain'
      BY <2>1, <2>3 DEF IsSlotOf
    <3>5. new.fd \in {c[1], Hidden(c[1])} /\ (ev = {} => new.fd = Hidden(c[1])) /\ new.events = ev
      BY <2>3 DEF IsSlotOf
    <3>. QED
      BY <3>2, <3>3, <3>4, <3>5 DEF IsSlotOf
  <2>6. /\ pollfds' \in Seq(PollFds)
        /\ Len(pollfds') = Len(pollfds)
        /\ pollfds'[k] = new
        /\ \A i \in 1 .. Len(pollfds) : i # k => pollfds'[i] = pollfds[i]
    BY <1>2, <1>3, <2>1, <2>3, <2>5 DEF PTypes
  <2>7. PTypes'
    BY <1>1, <1>2, <2>1, <2>6 DEF PTypes
  <2>8. \A d \in Channels : PRegistered(d)' <=> PRegistered(d)
    BY <2>1 DEF PRegistered
  <2>9. PMapped'
    BY <1>1, <1>2, <2>1, <2>8 DEF PMapped
  <2>10. PSlots'
    <3>1. ASSUME NEW d \in Channels, d # c, PRegistered(d)
          PROVE  HasSlot(d)'
      <4>1. /\ pIndex[d] \in Int /\ pIndex[d] >= 0 /\ pIndex[d] < Len(pollfds)
            /\ HasSlot(d)
            /\ pIndex[c] \in Int
        BY <1>2, <3>1 DEF PSlots, PTypes
      <4>2. pIndex[d] # pIndex[c]
        BY <2>2, <3>1, SlotsDiffer
      <4>3. pIndex[d] + 1 \in 1 .. Len(pollfds) /\ pIndex[d] + 1 # k
        BY <1>3, <4>1, <4>2
      <4>4. pollfds'[pIndex'[d] + 1] = pollfds[pIndex[d] + 1] /\ events'[d] = events[d]
            /\ enabledAgain \subseteq enabledAgain'
        BY <1>1, <1>2, <2>1, <2>6, <3>1, <4>3 DEF PTypes
      <4>. QED
        BY <4>1, <4>4 DEF HasSlot, IsSlotOf
    <3>2. HasSlot(c)'
      <4>1. events'[c] = ev
        BY <1>1, <1>2 DEF PTypes
      <4>. QED
        BY <2>1, <2>5, <2>6, <4>1 DEF HasSlot
    <3>. QED
      BY <1>2, <2>1, <2>6, <2>8, <3>1, <3>2 DEF PSlots
  <2>. QED
    BY <2>2, <2>4, <2>7, <2>8, <2>9, <2>10 DEF PInv
<1>. QED
  BY <1>4, <1>5 DEF Poller!UpdateChannel

(***************************************************************************)
(* A sequence without its last element.                                    *)
(***************************************************************************)
LEMMA ButLast ==
  ASSUME NEW q \in Seq(PollFds), Len(q) >= 1
  PROVE  /\ SubSeq(q, 1, Len(q) - 1) \in Seq(PollFds)
         /\ Len(SubSeq(q, 1, Len(q) - 1)) = Len(q) - 1
         /\ \A i \in 1 .. Len(q) - 1 : SubSeq(q, 1, Len(q) - 1)[i] = q[i]
<1>. DEFINE n == Len(q) - 1
<1>1. n \in Nat /\ \A i \in 1 .. n : q[i] \in PollFds
  OBVIOUS
<1>. HIDE DEF n
<1>2. /\ SubSeq(q, 1, n) \in Seq(PollFds)
      /\ Len(SubSeq(q, 1, n)) = IF 1 <= n THEN n - 1 + 1 ELSE 0
      /\ \A i \in 1 .. n - 1 + 1 : SubSeq(q, 1, n)[i] = q[1 + i - 1]
  BY <1>1, SubSeqProperties
<1>3. n - 1 + 1 = n
  BY <1>1
<1>4. Len(SubSeq(q, 1, n)) = n
  BY <1>1, <1>2
<1>5. \A i \in 1 .. n : 1 + i - 1 = i
  BY <1>1
<1>. QED
  BY <1>2, <1>3, <1>4, <1>5 DEF n

(***************************************************************************)
(* removeChannel() takes the pollfd of the channel away: the last pollfd,  *)
(* and the index of its channel, change to the place that becomes free.    *)
(***************************************************************************)
LEMMA RemoveEffect ==
  ASSUME PInv, NEW c \in Channels, Poller!RemoveChannel(c)
  PROVE  /\ PRegistered(c) /\ HasSlot(c)
         /\ pFailed' = {}
         /\ pChannels' = [pChannels EXCEPT ![c[1]] = None]
         /\ gone' = gone \cup {c}
         /\ events' = events
         /\ pollfds' \in Seq(PollFds)
         /\ Len(pollfds') = Len(pollfds) - 1
         /\ \E e \in Channels :
              /\ PRegistered(e)
              /\ pIndex[e] = Len(pollfds) - 1
              /\ pIndex' \in [Channels -> Int]
              /\ \A d \in Channels : d # c => pIndex'[d] = IF d = e THEN pIndex[c] ELSE pIndex[d]
              /\ pIndex'[c] >= 0
              /\ \A i \in 1 .. Len(pollfds) - 1 :
                   pollfds'[i] = IF i = pIndex[c] + 1 THEN pollfds[Len(pollfds)] ELSE pollfds[i]
<1>1. /\ PRegistered(c) /\ events[c] = {}
      /\ pChannels' = [pChannels EXCEPT ![c[1]] = None]
      /\ gone' = gone \cup {c}
      /\ events' = events
  BY DEF Poller!RemoveChannel, Poller!Demux!MayRemove, Poller!Fd, Poller!Demux!Fd, PRegistered
<1>2. /\ PTypes /\ PMapped /\ PSlots /\ None \notin Channels
      /\ \A d \in Channels : d[1] \in Nat
  BY PollersConstants DEF PInv, Channels
<1>3. HasSlot(c) /\ pIndex[c] \in Int /\ pIndex[c] >= 0 /\ pIndex[c] < Len(pollfds)
  BY <1>1, <1>2 DEF PSlots, PTypes
<1>4. Len(pollfds) \in Nat /\ Len(pollfds) >= 1 /\ Len(pollfds) - 1 \in Nat
  BY <1>2, <1>3 DEF PTypes
<1>. DEFINE n == Len(pollfds)
            k == pIndex[c] + 1
<1>5. /\ DOMAIN pollfds = 1 .. n
      /\ k \in 1 .. n /\ n \in 1 .. n
      /\ pollfds[k] \in PollFds /\ pollfds[n] \in PollFds
  BY <1>2, <1>3, <1>4 DEF PTypes
<1>6. pFailed' = {}
  <2>1. pollfds[k] = [fd |-> - c[1] - 1, events |-> {}]
    BY <1>1, <1>3, <1>5 DEF HasSlot, IsSlotOf, PollFds, Hidden
  <2>2. pChannels[c[1]] # None
    BY <1>1, <1>2 DEF PRegistered
  <2>. QED
    BY <2>1, <2>2, PNoneFailing
    DEF Poller!RemoveChannel, Poller!Fd, Poller!Demux!Fd, Poller!Slot, Poller!Hidden
<1>7. PICK e \in Channels : PRegistered(e) /\ pIndex[e] + 1 = n
  BY <1>2, <1>5 DEF PSlots
<1>8. pIndex[e] = n - 1 /\ HasSlot(e) /\ pIndex[e] \in Int
  BY <1>2, <1>4, <1>7 DEF PSlots, PTypes
<1>9. CASE pIndex[c] = n - 1
  <2>1. pollfds' = SubSeq(pollfds, 1, n - 1) /\ pIndex' = pIndex
    BY <1>9 DEF Poller!RemoveChannel, Poller!Front
  <2>2. /\ pollfds' \in Seq(PollFds)
        /\ Len(pollfds') = n - 1
        /\ \A i \in 1 .. n - 1 : pollfds'[i] = pollfds[i]
    BY <1>2, <1>4, <2>1, ButLast DEF PTypes
  <2>3. e = c
    BY <1>1, <1>7, <1>8, <1>9, SlotsDiffer
  <2>4. \A i \in 1 .. n - 1 : i # k
    BY <1>4, <1>9
  <2>. QED
    BY <1>1, <1>2, <1>3, <1>6, <1>7, <1>8, <2>1, <2>2, <2>3, <2>4 DEF PTypes
<1>10. CASE pIndex[c] # n - 1
  <2>1. pChannels[IF pollfds[n].fd < 0 THEN - pollfds[n].fd - 1 ELSE pollfds[n].fd] = e
    <3>1. pollfds[n] = pollfds[pIndex[e] + 1]
      BY <1>7
    <3>2. pollfds[n].fd \in {e[1], - e[1] - 1} /\ e[1] \in Nat
      BY <1>2, <1>8, <3>1 DEF HasSlot, IsSlotOf, Hidden
    <3>3. (IF pollfds[n].fd < 0 THEN - pollfds[n].fd - 1 ELSE pollfds[n].fd) = e[1]
      BY <3>2
    <3>. QED
      BY <1>7, <3>3 DEF PRegistered
  <2>2. /\ pollfds' = SubSeq([pollfds EXCEPT ![k] = pollfds[n]], 1,
                             Len([pollfds EXCEPT ![k] = pollfds[n]]) - 1)
        /\ pIndex' = [pIndex EXCEPT ![e] = pIndex[c]]
    BY <1>10, <2>1
    DEF Poller!RemoveChannel, Poller!MoveLast, Poller!Front, Poller!Last, Poller!Hidden
  <2>. DEFINE q == [pollfds EXCEPT ![k] = pollfds[n]]
  <2>3. /\ q \in Seq(PollFds)
        /\ Len(q) = n
        /\ \A i \in 1 .. n : q[i] = IF i = k THEN pollfds[n] ELSE pollfds[i]
    BY <1>2, <1>4, <1>5 DEF PTypes
  <2>. HIDE DEF q
  <2>4. /\ pollfds' \in Seq(PollFds)
        /\ Len(pollfds') = n - 1
        /\ \A i \in 1 .. n - 1 : pollfds'[i] = q[i]
    <3>1. pollfds' = SubSeq(q, 1, n - 1)
      BY <2>2, <2>3 DEF q
    <3>. QED
      BY <1>4, <2>3, <3>1, ButLast
  <2>5. \A i \in 1 .. n - 1 : pollfds'[i] = IF i = k THEN pollfds[n] ELSE pollfds[i]
    BY <1>4, <2>3, <2>4
  <2>6. e # c
    BY <1>8, <1>10
  <2>7. /\ pIndex' \in [Channels -> Int]
        /\ \A d \in Channels : d # c => pIndex'[d] = IF d = e THEN pIndex[c] ELSE pIndex[d]
        /\ pIndex'[c] = pIndex[c]
    BY <1>2, <1>3, <2>2, <2>6 DEF PTypes
  <2>. QED
    BY <1>1, <1>3, <1>6, <1>7, <1>8, <2>4, <2>5, <2>7
<1>. QED
  BY <1>9, <1>10

LEMMA PRemoveKeeps ==
  ASSUME PInv, NEW c \in Channels, Poller!RemoveChannel(c), UNCHANGED enabledAgain
  PROVE  /\ PInv'
         /\ \A d \in Channels : PRegistered(d)' <=> d # c /\ PRegistered(d)
<1>. DEFINE n == Len(pollfds)
            k == pIndex[c] + 1
<1>1. /\ PRegistered(c) /\ HasSlot(c)
      /\ pFailed' = {}
      /\ pChannels' = [pChannels EXCEPT ![c[1]] = None]
      /\ gone' = gone \cup {c}
      /\ events' = events
      /\ pollfds' \in Seq(PollFds)
      /\ Len(pollfds') = n - 1
  BY RemoveEffect
<1>2. PICK e \in Channels :
        /\ PRegistered(e)
        /\ pIndex[e] = n - 1
        /\ pIndex' \in [Channels -> Int]
        /\ \A d \in Channels : d # c => pIndex'[d] = IF d = e THEN pIndex[c] ELSE pIndex[d]
        /\ pIndex'[c] >= 0
        /\ \A i \in 1 .. n - 1 : pollfds'[i] = IF i = k THEN pollfds[n] ELSE pollfds[i]
  BY RemoveEffect
<1>3. /\ PTypes /\ PMapped /\ PSlots
      /\ None \notin Channels
      /\ c[1] \in Fds /\ \A d \in Channels : d[1] \in Fds
  BY PollersConstants DEF PInv, Channels
<1>4. n \in Nat /\ pIndex[c] \in Int /\ pIndex[c] >= 0 /\ pIndex[c] < n
  BY <1>1, <1>3 DEF PTypes, PSlots
<1>5. \A d \in Channels : PRegistered(d)' <=> d # c /\ PRegistered(d)
  BY <1>1, <1>3 DEF PTypes, PRegistered
<1>6. PTypes'
  BY <1>1, <1>2, <1>3 DEF PTypes
<1>7. PMapped'
  <2>1. \A fd \in Fds : pChannels'[fd] # None => pChannels'[fd][1] = fd
    BY <1>1, <1>3 DEF PTypes, PMapped
  <2>2. ASSUME NEW d \in Channels, pIndex'[d] >= 0 PROVE PRegistered(d)' \/ d \in gone'
    <3>1. CASE d = c
      BY <1>1, <3>1
    <3>2. CASE d = e /\ d # c
      BY <1>2, <1>5, <3>2
    <3>3. CASE d # e /\ d # c
      <4>1. pIndex'[d] = pIndex[d]
        BY <1>2, <3>3
      <4>2. PRegistered(d) \/ d \in gone
        BY <1>3, <2>2, <4>1 DEF PMapped
      <4>. QED
        BY <1>1, <1>5, <3>3, <4>2
    <3>. QED
      BY <3>1, <3>2, <3>3
  <2>. QED
    BY <2>1, <2>2 DEF PMapped
<1>8. PSlots'
  <2>1. ASSUME NEW d \in Channels, d # c, PRegistered(d)
        PROVE  pIndex'[d] >= 0 /\ pIndex'[d] < n - 1 /\ HasSlot(d)'
    <3>1. pIndex[d] \in Int /\ pIndex[d] >= 0 /\ pIndex[d] < n /\ HasSlot(d)
      BY <1>3, <2>1 DEF PTypes, PSlots
    <3>2. pIndex[d] # pIndex[c]
      BY <1>1, <2>1, SlotsDiffer
    <3>3. CASE d = e
      <4>1. pIndex'[d] = pIndex[c] /\ pIndex[d] + 1 = n
        BY <1>2, <1>4, <2>1, <3>3
      <4>2. pIndex[c] < n - 1 /\ k \in 1 .. n - 1
        BY <1>2, <1>4, <3>1, <3>2, <3>3
      <4>3. pollfds'[pIndex'[d] + 1] = pollfds[pIndex[d] + 1]
        BY <1>2, <4>1, <4>2
      <4>. QED
        BY <1>1, <1>4, <3>1, <4>1, <4>2, <4>3 DEF HasSlot
    <3>4. CASE d # e
      <4>1. pIndex'[d] = pIndex[d]
        BY <1>2, <2>1, <3>4
      <4>2. pIndex[d] # n - 1
        BY <1>2, <2>1, <3>4, SlotsDiffer
      <4>3. pIndex[d] < n - 1 /\ pIndex[d] + 1 \in 1 .. n - 1 /\ pIndex[d] + 1 # k
        BY <1>4, <3>1, <3>2, <4>2
      <4>4. pollfds'[pIndex'[d] + 1] = pollfds[pIndex[d] + 1]
        BY <1>2, <4>1, <4>3
      <4>. QED
        BY <1>1, <3>1, <4>1, <4>3, <4>4 DEF HasSlot
    <3>. QED
      BY <3>3, <3>4
  <2>2. ASSUME NEW i \in 1 .. n - 1
        PROVE  \E d \in Channels : PRegistered(d)' /\ pIndex'[d] + 1 = i
    <3>1. CASE i = k
      <4>1. e # c
        BY <1>2, <1>4, <3>1
      <4>. QED
        BY <1>2, <1>5, <3>1, <4>1
    <3>2. CASE i # k
      <4>1. i \in 1 .. n /\ i # n
        BY <1>4
      <4>2. PICK d \in Channels : PRegistered(d) /\ pIndex[d] + 1 = i
        BY <1>3, <4>1 DEF PSlots
      <4>3. d # c /\ d # e
        BY <1>2, <1>4, <3>2, <4>1, <4>2
      <4>. QED
        BY <1>2, <1>5, <4>2, <4>3
    <3>. QED
      BY <3>1, <3>2
  <2>. QED
    BY <1>1, <1>5, <2>1, <2>2 DEF PSlots
<1>. QED
  BY <1>1, <1>5, <1>6, <1>7, <1>8 DEF PInv

(***************************************************************************)
(* A pollfd that poll(2) looks at is that of the channel that has the      *)
(* descriptor.                                                             *)
(***************************************************************************)
LEMMA PolledHasChannel ==
  ASSUME PInv, NEW ready, NEW i \in 1 .. Len(pollfds), Poller!Polled(pollfds[i], ready) # {}
  PROVE  \E c \in Channels : /\ PRegistered(c)
                             /\ pIndex[c] + 1 = i
                             /\ pollfds[i].fd = c[1]
                             /\ pollfds[i].events = events[c]
<1>1. PICK c \in Channels : PRegistered(c) /\ pIndex[c] + 1 = i
  BY DEF PInv, PSlots
<1>2. HasSlot(c) /\ c[1] \in Nat
  BY <1>1, PollersConstants DEF PInv, PSlots, Channels
<1>3. pollfds[i].fd \in {c[1], - c[1] - 1} /\ pollfds[i].events = events[c]
  BY <1>1, <1>2 DEF HasSlot, IsSlotOf, Hidden
<1>4. ~ (pollfds[i].fd < 0)
  BY DEF Poller!Polled
<1>5. pollfds[i].fd = c[1]
  BY <1>2, <1>3, <1>4
<1>. QED
  BY <1>1, <1>3, <1>5

(***************************************************************************)
(* poll() preserves the invariant.                                         *)
(***************************************************************************)
LEMMA PPollKeeps ==
  ASSUME PInv, NEW ready, Poller!Poll(ready), UNCHANGED enabledAgain
  PROVE  PInv'
<1>1. UNCHANGED <<events, gone, pIndex, pChannels, pollfds, enabledAgain>>
  BY DEF Poller!Poll
<1>2. \A pfd \in {p \in Poller!ToSet(pollfds) : Poller!Polled(p, ready) # {}} :
        pChannels[pfd.fd] # None
  <2>1. ASSUME NEW i \in DOMAIN pollfds, Poller!Polled(pollfds[i], ready) # {}
        PROVE  pChannels[pollfds[i].fd] # None
    <3>1. i \in 1 .. Len(pollfds)
      BY DEF PInv, PTypes
    <3>2. PICK c \in Channels : PRegistered(c) /\ pollfds[i].fd = c[1]
      BY <2>1, <3>1, PolledHasChannel
    <3>. QED
      BY <3>2, PollersConstants DEF PRegistered, Channels
  <2>. QED
    BY <2>1 DEF Poller!ToSet
<1>3. pFailed' = {}
  <2>1. pFailed' = Poller!Failing([found |->
          \A pfd \in {p \in Poller!ToSet(pollfds) : Poller!Polled(p, ready) # {}} :
            pChannels[pfd.fd] # None])
    BY DEF Poller!Poll
  <2>. QED
    BY <1>2, <2>1, PNoneFailing
<1>. QED
  BY <1>1, <1>3 DEF PInv, PTypes, PMapped, PSlots, PRegistered, HasSlot

(***************************************************************************)
(* What Poller reports.                                                    *)
(***************************************************************************)
LEMMA PReports ==
  ASSUME PInv, NEW ready, Poller!Poll(ready), NEW c \in Channels
  PROVE  /\ c \in DOMAIN pReport' => /\ PRegistered(c)
                                     /\ ready[c[1]] \cap (events[c] \cup {"hup"}) # {}
         /\ PRegistered(c) /\ pollfds[pIndex[c] + 1].fd = c[1]
              /\ ready[c[1]] \cap (events[c] \cup {"hup"}) # {}
            => c \in DOMAIN pReport' /\ pReport'[c] = ready[c[1]] \cap (events[c] \cup {"hup"})
<1>. DEFINE due == {pfd \in Poller!ToSet(pollfds) : Poller!Polled(pfd, ready) # {}}
<1>1. pReport' = [d \in {pChannels[pfd.fd] : pfd \in due} |->
                    Poller!Polled(pollfds[pIndex[d] + 1], ready)]
  BY DEF Poller!Poll, Poller!Slot
<1>2. DOMAIN pollfds = 1 .. Len(pollfds)
  BY DEF PInv, PTypes
<1>3. ASSUME c \in DOMAIN pReport'
      PROVE  PRegistered(c) /\ ready[c[1]] \cap (events[c] \cup {"hup"}) # {}
  <2>1. PICK i \in 1 .. Len(pollfds) :
          c = pChannels[pollfds[i].fd] /\ Poller!Polled(pollfds[i], ready) # {}
    BY <1>1, <1>2, <1>3 DEF Poller!ToSet
  <2>2. PICK d \in Channels : PRegistered(d) /\ pollfds[i].fd = d[1] /\ pollfds[i].events = events[d]
    BY <2>1, PolledHasChannel
  <2>3. c = d
    BY <2>1, <2>2 DEF PRegistered
  <2>. QED
    BY <2>1, <2>2, <2>3 DEF Poller!Polled
<1>4. ASSUME PRegistered(c), pollfds[pIndex[c] + 1].fd = c[1],
             ready[c[1]] \cap (events[c] \cup {"hup"}) # {}
      PROVE  /\ c \in DOMAIN pReport'
             /\ pReport'[c] = ready[c[1]] \cap (events[c] \cup {"hup"})
  <2>1. /\ pIndex[c] \in Int /\ pIndex[c] >= 0 /\ pIndex[c] < Len(pollfds)
        /\ pollfds[pIndex[c] + 1].events = events[c]
        /\ Len(pollfds) \in Nat
    BY <1>4 DEF PInv, PTypes, PSlots, HasSlot, IsSlotOf
  <2>2. pIndex[c] + 1 \in DOMAIN pollfds
    BY <1>2, <2>1
  <2>3. c[1] \in Nat
    BY PollersConstants DEF Channels
  <2>4. Poller!Polled(pollfds[pIndex[c] + 1], ready) = ready[c[1]] \cap (events[c] \cup {"hup"})
    BY <1>4, <2>1, <2>3 DEF Poller!Polled
  <2>5. pollfds[pIndex[c] + 1] \in due
    BY <1>4, <2>2, <2>4 DEF Poller!ToSet
  <2>6. c \in {pChannels[pfd.fd] : pfd \in due}
    BY <1>4, <2>5 DEF PRegistered
  <2>. QED
    BY <1>1, <2>4, <2>6
<1>. QED
  BY <1>3, <1>4

-----------------------------------------------------------------------------
(* Both *)

\* Both know the same channels.
SameRegistered == \A c \in Channels : Registered(c) <=> PRegistered(c)

Inv == EInv /\ PInv /\ SameRegistered

LEMMA SameChannels == EPoller!Channels = Channels
BY DEF EPoller!Channels, EPoller!Demux!Channels, Channels

LEMMA NextKeeps == Inv /\ [Next]_vars => Inv'
<1>. SUFFICES ASSUME Inv, [Next]_vars PROVE Inv'
  OBVIOUS
<1>1. ASSUME NEW c \in Channels, NEW ev \in Requests, Update(c, ev) PROVE Inv'
  <2>1. EInv' /\ PInv'
    BY <1>1, EUpdateKeeps, PUpdateKeeps DEF Update, Inv
  <2>2. \A d \in Channels : Registered(d)' <=> d = c \/ Registered(d)
    <3>1. /\ eIndex' = [eIndex EXCEPT ![c] = eIndex'[c]]
          /\ Registered(c)'
      BY <1>1, EUpdateKeeps DEF Update, Inv
    <3>. QED
      BY <3>1 DEF Registered, Inv, EInv, ETypes
  <2>3. \A d \in Channels : PRegistered(d)' <=> d = c \/ PRegistered(d)
    BY <1>1, PUpdateKeeps DEF Update, Inv
  <2>. QED
    BY <2>1, <2>2, <2>3 DEF Inv, SameRegistered
<1>2. ASSUME NEW c \in Channels, Remove(c) PROVE Inv'
  <2>1. EInv' /\ PInv'
    BY <1>2, ERemoveKeeps, PRemoveKeeps DEF Remove, Inv
  <2>2. \A d \in Channels : Registered(d)' <=> d # c /\ Registered(d)
    <3>1. eIndex' = [eIndex EXCEPT ![c] = "kNew"]
      BY <1>2, ERemoveKeeps DEF Remove, Inv
    <3>. QED
      BY <3>1 DEF Registered, Inv, EInv, ETypes
  <2>3. \A d \in Channels : PRegistered(d)' <=> d # c /\ PRegistered(d)
    BY <1>2, PRemoveKeeps DEF Remove, Inv
  <2>. QED
    BY <2>1, <2>2, <2>3 DEF Inv, SameRegistered
<1>3. ASSUME NEW ready \in [Fds -> Ready], Poll(ready) PROVE Inv'
  <2>1. EInv' /\ PInv'
    BY <1>3, EPollKeeps, PPollKeeps DEF Poll, Inv
  <2>2. UNCHANGED <<eIndex, pChannels>>
    BY <1>3, EPollKeeps DEF Poll, Inv, Poller!Poll
  <2>. QED
    BY <2>1, <2>2 DEF Inv, SameRegistered, Registered, PRegistered
<1>4. CASE UNCHANGED vars
  <2>1. EInv'
    BY <1>4 DEF Inv, EInv, ETypes, EMapped, EInterest, Registered, Entry, vars
  <2>2. PInv'
    BY <1>4 DEF Inv, PInv, PTypes, PMapped, PSlots, PRegistered, HasSlot, vars
  <2>. QED
    BY <1>4, <2>1, <2>2 DEF Inv, SameRegistered, Registered, PRegistered, vars
<1>. QED
  BY <1>1, <1>2, <1>3, <1>4, SameChannels DEF Next

(***************************************************************************)
(* Invariance: in EPoller the interest list holds just the channels that   *)
(* are kAdded, with what they ask for; in Poller every registered channel  *)
(* has one pollfd, at its index, and no pollfd is left without a channel,  *)
(* whichever is removed and moved.                                         *)
(***************************************************************************)
THEOREM Invariance == Spec => []Inv
<1>1. Init => Inv
  <2>1. Init => SameRegistered
    BY PollersConstants
    DEF Init, EPoller!Init, Poller!Init, SameRegistered, Registered, PRegistered, Channels,
        EPoller!Channels, EPoller!Demux!Channels
  <2>. QED
    BY <2>1, EInitHolds, PInitHolds DEF Inv
<1>. QED
  BY <1>1, NextKeeps, PTL DEF Spec

(***************************************************************************)
(* No assertion of EPoller or Poller fails, and no epoll_ctl() is made for *)
(* a descriptor that is in the interest list already or is not there.      *)
(***************************************************************************)
THEOREM PollersDoNotFail == Spec => []NothingFails
<1>1. Inv => NothingFails
  BY DEF Inv, EInv, PInv, NothingFails
<1>. QED
  BY <1>1, Invariance, PTL

(***************************************************************************)
(* EPoller implements the abstract poller: what it reports is ready and    *)
(* asked for, of channels that are registered, and when it reports nothing *)
(* no registered channel has anything to be told.                          *)
(***************************************************************************)
THEOREM EPollerRefines == Spec => EPollerImplementsDemux
<1>1. Init => EPoller!Demux!Init
  BY DEF Init, EPoller!Init, EPoller!Demux!Init, EPoller!Channels, EPoller!Demux!Channels
<1>2. ASSUME Inv, [Next]_vars
      PROVE  EPoller!Demux!Next \/ UNCHANGED DemuxVars
  <2>1. ASSUME NEW c \in Channels, NEW ev \in Requests, Update(c, ev)
        PROVE  EPoller!Demux!Next
    BY <1>2, <2>1, UpdateImplements, SameChannels
    DEF Update, Inv, EPoller!Demux!Next, EPoller!Channels
  <2>2. ASSUME NEW c \in Channels, Remove(c) PROVE EPoller!Demux!Next
    BY <1>2, <2>2, RemoveImplements, SameChannels
    DEF Remove, Inv, EPoller!Demux!Next, EPoller!Channels
  <2>3. ASSUME NEW ready \in [Fds -> Ready], Poll(ready) PROVE EPoller!Demux!Next
    BY <1>2, <2>3, PollImplements DEF Poll, Inv, EPoller!Demux!Next
  <2>4. CASE UNCHANGED vars
    BY <2>4 DEF vars, DemuxVars, Known
  <2>. QED
    BY <1>2, <2>1, <2>2, <2>3, <2>4, SameChannels DEF Next
<1>. QED
  BY <1>1, <1>2, Invariance, PTL
  DEF Spec, EPollerImplementsDemux, EPoller!ImplementsDemux, EPoller!Demux!Spec, DemuxVars, Known

(***************************************************************************)
(* What EPoller reports of a channel that asks for something, and that it  *)
(* passes over such a channel only when events_ is full.                   *)
(***************************************************************************)
LEMMA EReports ==
  ASSUME EInv, NEW ready, EPoller!Poll(ready), NEW c \in Channels, events[c] # {}
  PROVE  /\ c \in DOMAIN eReport' =>
              /\ eChannels[c[1]] = c
              /\ ready[c[1]] \cap (events[c] \cup {"hup"}) # {}
              /\ eReport'[c] = ready[c[1]] \cap (events[c] \cup {"hup"})
         /\ eChannels[c[1]] = c /\ ready[c[1]] \cap (events[c] \cup {"hup"}) # {} =>
              \/ c \in DOMAIN eReport'
              \/ Cardinality(DOMAIN eReport') = listSize /\ listSize' > listSize
<1>1. PICK S \in SUBSET EPoller!Due(ready) :
           /\ Cardinality(S) = IF Cardinality(EPoller!Due(ready)) <= listSize
                               THEN Cardinality(EPoller!Due(ready)) ELSE listSize
           /\ eReport' = [d \in {interest[fd].channel : fd \in S} |->
                            EPoller!Demux!Due(d, ready)]
           /\ listSize' = IF Cardinality(S) = listSize THEN 2 * listSize ELSE listSize
  BY PollReports
<1>. DEFINE R == {interest[fd].channel : fd \in S}
<1>2. DOMAIN eReport' = R
  BY <1>1
<1>3. ASSUME c \in R
      PROVE  /\ eChannels[c[1]] = c
             /\ ready[c[1]] \cap (events[c] \cup {"hup"}) # {}
             /\ eReport'[c] = ready[c[1]] \cap (events[c] \cup {"hup"})
  <2>1. PICK fd \in S : c = interest[fd].channel
    BY <1>3
  <2>2. /\ fd \in Fds /\ interest[fd] # None
        /\ ready[fd] \cap (interest[fd].events \cup {"hup"}) # {}
    BY <2>1 DEF EPoller!Due
  <2>3. c[1] = fd /\ eChannels[fd] = c /\ interest[fd].events = events[c]
    BY <2>1, <2>2, InterestIsEntry
  <2>. QED
    BY <1>1, <1>3, <2>2, <2>3 DEF EPoller!Demux!Due, EPoller!Demux!Fd
<1>4. ASSUME eChannels[c[1]] = c, ready[c[1]] \cap (events[c] \cup {"hup"}) # {}, c \notin R
      PROVE  Cardinality(R) = listSize /\ listSize' > listSize
  <2>1. c[1] \in Fds /\ eIndex[c] = "kAdded"
    BY <1>4 DEF EInv, ETypes, EMapped, EInterest, Registered, Channels
  <2>2. interest[c[1]] = Entry(c) /\ interest[c[1]] # None
    BY <2>1, EntryIsSome DEF EInv, EInterest
  <2>3. c[1] \in EPoller!Due(ready) /\ interest[c[1]].channel = c
    BY <1>4, <2>1, <2>2 DEF EPoller!Due, Entry
  <2>4. c[1] \notin S
    BY <1>4, <2>3
  <2>5. Cardinality(S) # Cardinality(EPoller!Due(ready))
    BY <2>3, <2>4, DueIsFinite, FS_Subset
  <2>6. Cardinality(S) = listSize
    BY <1>1, <2>5
  <2>7. Cardinality(R) = Cardinality(S)
    <3>1. IsFiniteSet(S)
      BY DueIsFinite, FS_Subset
    <3>. DEFINE f == [fd \in S |-> interest[fd].channel]
    <3>2. f \in Bijection(S, R)
      <4>1. \A a \in S : f[a] \in R
        OBVIOUS
      <4>2. \A a, b \in S : f[a] = f[b] => a = b
        BY InterestIsEntry DEF EPoller!Due
      <4>3. \A r \in R : \E a \in S : f[a] = r
        OBVIOUS
      <4>. QED
        BY <4>1, <4>2, <4>3, Fun_IsBij
    <3>3. ExistsBijection(S, R)
      BY <3>2 DEF ExistsBijection
    <3>. QED
      BY <3>1, <3>3, FS_Bijection
  <2>8. listSize' = 2 * listSize /\ listSize \in Nat \ {0}
    BY <1>1, <2>6 DEF EInv, ETypes
  <2>9. listSize' > listSize
    BY <2>8
  <2>. QED
    BY <2>6, <2>7, <2>9
<1>. QED
  BY <1>2, <1>3, <1>4

(***************************************************************************)
(* The pollers agree: of a channel that asks for something, and has done   *)
(* so all the time, they report the same, or events_ of EPoller was full   *)
(* and has grown.                                                          *)
(***************************************************************************)
THEOREM PollersDoAgree == Spec => PollersAgree
<1>1. ASSUME Inv, NEW ready, Poll(ready), NEW c \in Channels, events[c] # {},
             c \notin enabledAgain
      PROVE  /\ c \in DOMAIN eReport' => c \in DOMAIN pReport' /\ pReport'[c] = eReport'[c]
             /\ c \in DOMAIN pReport' => \/ c \in DOMAIN eReport'
                                         \/ /\ Cardinality(DOMAIN eReport') = listSize
                                            /\ listSize' > listSize
  <2>1. eChannels[c[1]] = c <=> PRegistered(c)
    BY <1>1 DEF Inv, EInv, EMapped, SameRegistered
  <2>2. PRegistered(c) => pollfds[pIndex[c] + 1].fd = c[1]
    BY <1>1 DEF Inv, PInv, PSlots, HasSlot, IsSlotOf
  <2>3. EInv /\ EPoller!Poll(ready) /\ PInv /\ Poller!Poll(ready)
    BY <1>1 DEF Inv, Poll
  <2>4. c \in DOMAIN eReport' =>
          /\ eChannels[c[1]] = c
          /\ ready[c[1]] \cap (events[c] \cup {"hup"}) # {}
          /\ eReport'[c] = ready[c[1]] \cap (events[c] \cup {"hup"})
    BY <1>1, <2>3, EReports
  <2>5. eChannels[c[1]] = c /\ ready[c[1]] \cap (events[c] \cup {"hup"}) # {} =>
          \/ c \in DOMAIN eReport'
          \/ Cardinality(DOMAIN eReport') = listSize /\ listSize' > listSize
    BY <1>1, <2>3, EReports
  <2>6. c \in DOMAIN pReport' => PRegistered(c) /\ ready[c[1]] \cap (events[c] \cup {"hup"}) # {}
    BY <2>3, PReports
  <2>7. PRegistered(c) /\ pollfds[pIndex[c] + 1].fd = c[1]
          /\ ready[c[1]] \cap (events[c] \cup {"hup"}) # {}
        => c \in DOMAIN pReport' /\ pReport'[c] = ready[c[1]] \cap (events[c] \cup {"hup"})
    BY <2>3, PReports
  <2>. QED
    BY <2>1, <2>2, <2>4, <2>5, <2>6, <2>7
<1>2. ASSUME Inv, Next, eReport' # <<>> \/ pReport' # <<>>
      PROVE  \E ready : Poll(ready)
  <2>1. \A c, ev : Update(c, ev) => eReport' = <<>> /\ pReport' = <<>>
    BY DEF Update, EPoller!UpdateChannel, Poller!UpdateChannel
  <2>2. \A c : Remove(c) => eReport' = <<>> /\ pReport' = <<>>
    BY DEF Remove, EPoller!RemoveChannel, Poller!RemoveChannel
  <2>. QED
    BY <1>2, <2>1, <2>2 DEF Next
<1>. DEFINE Agree ==
       (eReport' # <<>> \/ pReport' # <<>>) =>
         \A c \in {d \in EPoller!Channels \ enabledAgain : events[d] # {}} :
           /\ c \in DOMAIN eReport' => c \in DOMAIN pReport' /\ pReport'[c] = eReport'[c]
           /\ c \in DOMAIN pReport' => \/ c \in DOMAIN eReport'
                                       \/ /\ Cardinality(DOMAIN eReport') = listSize
                                          /\ listSize' > listSize
<1>3. Inv /\ [Next]_vars => [Agree]_vars
  <2>. SUFFICES ASSUME Inv, Next, eReport' # <<>> \/ pReport' # <<>>,
                       NEW c \in EPoller!Channels \ enabledAgain, events[c] # {}
                PROVE  /\ c \in DOMAIN eReport' => c \in DOMAIN pReport' /\ pReport'[c] = eReport'[c]
                       /\ c \in DOMAIN pReport' => \/ c \in DOMAIN eReport'
                                                   \/ /\ Cardinality(DOMAIN eReport') = listSize
                                                      /\ listSize' > listSize
    BY DEF Agree
  <2>1. PICK ready : Poll(ready)
    BY <1>2
  <2>. QED
    BY <1>1, <2>1, SameChannels
<1>. QED
  BY <1>3, Invariance, PTL DEF Spec, PollersAgree
=============================================================================

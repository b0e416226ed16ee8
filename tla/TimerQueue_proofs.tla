------------------------- MODULE TimerQueue_proofs --------------------------
(***************************************************************************)
(* Proofs about TimerQueue, for any threads, number of timers, intervals   *)
(* and times.                                                              *)
(***************************************************************************)
EXTENDS TimerQueue, SequenceTheorems, TLAPS

(***************************************************************************)
(* What a sequence holds after Append.                                     *)
(***************************************************************************)
LEMMA RangeOfAppend ==
  ASSUME NEW S, NEW s \in Seq(S), NEW e \in S
  PROVE  Range(Append(s, e)) = Range(s) \cup {e}
<1>1. /\ DOMAIN s = 1 .. Len(s)
      /\ DOMAIN Append(s, e) = 1 .. Len(s) + 1
      /\ Append(s, e)[Len(s) + 1] = e
      /\ \A i \in 1 .. Len(s) : Append(s, e)[i] = s[i]
      /\ Len(s) \in Nat
  OBVIOUS
<1>2. 1 .. Len(s) + 1 = (1 .. Len(s)) \cup {Len(s) + 1}
  BY <1>1
<1>. QED
  BY <1>1, <1>2 DEF Range

(***************************************************************************)
(* What a sequence holds after its head is taken off.                      *)
(***************************************************************************)
LEMMA RangeOfTail ==
  ASSUME NEW S, NEW s \in Seq(S), s # <<>>
  PROVE  /\ Range(Tail(s)) \subseteq Range(s)
         /\ Head(s) \in Range(s)
         /\ Range(s) = Range(Tail(s)) \cup {Head(s)}
<1>1. /\ Tail(s) \in Seq(S)
      /\ Len(s) \in Nat
      /\ Len(s) >= 1
      /\ Len(Tail(s)) = Len(s) - 1
      /\ DOMAIN s = 1 .. Len(s)
      /\ DOMAIN Tail(s) = 1 .. Len(Tail(s))
      /\ Head(s) = s[1]
      /\ \A i \in 1 .. Len(Tail(s)) : Tail(s)[i] = s[i + 1]
  BY HeadTailProperties
<1>2. ASSUME NEW x \in Range(Tail(s)) PROVE x \in Range(s)
  <2>1. PICK i \in 1 .. Len(Tail(s)) : x = Tail(s)[i]
    BY <1>1, <1>2 DEF Range
  <2>2. x = s[i + 1] /\ i + 1 \in 1 .. Len(s)
    BY <1>1, <2>1
  <2>. QED
    BY <1>1, <2>2 DEF Range
<1>3. Head(s) \in Range(s)
  BY <1>1 DEF Range
<1>4. ASSUME NEW x \in Range(s), x # Head(s) PROVE x \in Range(Tail(s))
  <2>1. PICK i \in 1 .. Len(s) : x = s[i]
    BY <1>1, <1>4 DEF Range
  <2>2. i - 1 \in 1 .. Len(Tail(s)) /\ x = Tail(s)[i - 1]
    BY <1>1, <1>4, <2>1
  <2>. QED
    BY <1>1, <2>2 DEF Range
<1>. QED
  BY <1>2, <1>3, <1>4

(***************************************************************************)
(* What arming the timerfd, adding and cancelling a timer may do to the    *)
(* types.                                                                  *)
(***************************************************************************)
LEMMA ArmType ==
  ASSUME NEW when \in Nat, now \in Nat, Arm(when)
  PROVE  alarm' \in Nat /\ fired' = FALSE
BY DEF Arm

LEMMA AddType ==
  ASSUME TypeOK, NEW s \in Timers, NEW when \in Nat, now \in Nat,
         AddTimerInLoop(s, when)
  PROVE  alarm' \in Nat \cup {None} /\ fired' \in BOOLEAN
<1>1. CASE Arm(when)
  BY <1>1, ArmType
<1>2. CASE UNCHANGED <<alarm, fired>>
  BY <1>2 DEF TypeOK
<1>. QED
  BY <1>1, <1>2 DEF AddTimerInLoop

LEMMA CancelType ==
  ASSUME TypeOK, NEW s \in Timers, CancelInLoop(s), NoteCancelled(s)
  PROVE  /\ timers' \subseteq Nat \X Timers
         /\ active' \subseteq Timers
         /\ deleted' \subseteq Timers
         /\ canceling' \subseteq Timers
         /\ cancelled' \subseteq Timers
BY DEF TypeOK, CancelInLoop, NoteCancelled

(***************************************************************************)
(* The types hold initially, and every step preserves them.                *)
(***************************************************************************)
LEMMA TypeInit == Init => TypeOK
<1>. SUFFICES ASSUME Init
              PROVE  TypeOK
  OBVIOUS
<1>1. calling \in BOOLEAN /\ fired \in BOOLEAN /\ reported \in BOOLEAN
  BY DEF Init
<1>2. /\ expired \in Seq(Timers) /\ started \in 0 .. Len(expired)
      /\ pending \in Seq({"add", "cancel"} \X Timers)
  BY DEF Init
<1>3. /\ now \in Times /\ created \in 0 .. MaxTimers /\ readAt \in Times
      /\ alarm \in Nat \cup {None}
  BY TimerConstants DEF Init, Times, None
<1>4. /\ expiration \in [Timers -> Nat]
      /\ interval \in [Timers -> Intervals \cup {0}]
      /\ tpc \in [Threads -> Timers \cup {None}]
  BY DEF Init
<1>5. /\ deleted = {} /\ timers = {} /\ active = {} /\ canceling = {}
      /\ ids = {} /\ cancelled = {}
  BY DEF Init
<1>. QED
  BY <1>1, <1>2, <1>3, <1>4, <1>5 DEF TypeOK

LEMMA TypeNext == TypeOK /\ [Next]_vars => TypeOK'
<1> SUFFICES ASSUME TypeOK, [Next]_vars
             PROVE  TypeOK'
  OBVIOUS
<1>. USE DEF TypeOK, fdVars, batchVars, timerVars, userVars
<1>0. Times \subseteq Nat /\ Timers \subseteq Nat /\ Intervals \subseteq Nat
  BY TimerConstants DEF Times, Timers
<1>1. CASE Tick
  BY <1>1, TimerConstants DEF Tick, Times
<1>2. CASE GoOff
  BY <1>2 DEF GoOff
<1>3. ASSUME NEW s \in Timers, NEW when \in Times, NEW i \in Intervals,
             LoopAdds(s, when, i)
      PROVE  TypeOK'
  <2>1. /\ created' \in 0 .. MaxTimers
        /\ expiration' \in [Timers -> Nat]
        /\ interval' \in [Timers -> Intervals \cup {0}]
    BY <1>0, <1>3, TimerConstants DEF LoopAdds, New, Timers
  <2>2. timers' \subseteq Nat \X Timers /\ active' \subseteq Timers
    BY <1>0, <1>3 DEF LoopAdds, AddTimerInLoop, Insert
  <2>3. alarm' \in Nat \cup {None} /\ fired' \in BOOLEAN
    BY <1>0, <1>3, AddType DEF LoopAdds
  <2>. QED
    BY <1>3, <2>1, <2>2, <2>3 DEF LoopAdds
<1>4. ASSUME NEW s \in Timers, NEW when \in Times, NEW i \in Intervals,
             NEW t \in Threads, ThreadAdds(t, s, when, i)
      PROVE  TypeOK'
  <2>1. /\ created' \in 0 .. MaxTimers
        /\ expiration' \in [Timers -> Nat]
        /\ interval' \in [Timers -> Intervals \cup {0}]
    BY <1>0, <1>4, TimerConstants DEF ThreadAdds, New, Timers
  <2>2. pending' \in Seq({"add", "cancel"} \X Timers)
    BY <1>4 DEF ThreadAdds
  <2>3. tpc' \in [Threads -> Timers \cup {None}]
    BY <1>4 DEF ThreadAdds
  <2>. QED
    BY <1>4, <2>1, <2>2, <2>3 DEF ThreadAdds
<1>5. ASSUME NEW s \in Timers, LoopCancels(s)
      PROVE  TypeOK'
  BY <1>5, CancelType DEF LoopCancels
<1>6. ASSUME NEW s \in Timers, NEW t \in Threads, ThreadCancels(t, s)
      PROVE  TypeOK'
  <2>1. pending' \in Seq({"add", "cancel"} \X Timers)
    BY <1>6 DEF ThreadCancels
  <2>. QED
    BY <1>6, <2>1 DEF ThreadCancels
<1>7. ASSUME NEW t \in Threads, ThreadGetsId(t)
      PROVE  TypeOK'
  <2>1. tpc' \in [Threads -> Timers \cup {None}]
    BY <1>7 DEF ThreadGetsId
  <2>2. tpc[t] \in Timers
    BY <1>7 DEF ThreadGetsId
  <2>3. ids' \subseteq Timers
    BY <1>7, <2>2 DEF ThreadGetsId
  <2>. QED
    BY <1>7, <2>1, <2>3 DEF ThreadGetsId
<1>8. ASSUME NEW s \in Timers, CallAdd(s)
      PROVE  TypeOK'
  <2>1. pending' \in Seq({"add", "cancel"} \X Timers)
    BY <1>8, HeadTailProperties DEF CallAdd
  <2>2. timers' \subseteq Nat \X Timers /\ active' \subseteq Timers
    BY <1>8 DEF CallAdd, AddTimerInLoop, Insert
  <2>3. alarm' \in Nat \cup {None} /\ fired' \in BOOLEAN
    BY <1>0, <1>8, AddType DEF CallAdd
  <2>. QED
    BY <1>8, <2>1, <2>2, <2>3 DEF CallAdd
<1>9. ASSUME NEW s \in Timers, CallCancel(s)
      PROVE  TypeOK'
  <2>1. pending' \in Seq({"add", "cancel"} \X Timers)
    BY <1>9, HeadTailProperties DEF CallCancel
  <2>. QED
    BY <1>9, <2>1, CancelType DEF CallCancel
<1>10. CASE Poll
  BY <1>10 DEF Poll
<1>11. CASE GetExpired
  <2>. DEFINE due == {e \in timers : e[1] <= now}
  <2>1. PICK n \in 0 .. MaxTimers : \E f \in [1 .. n -> due] :
          expired' = [i \in 1 .. n |-> f[i][2]]
    BY <1>11 DEF GetExpired, Bijection, Injection
  <2>2. PICK f \in [1 .. n -> due] : expired' = [i \in 1 .. n |-> f[i][2]]
    BY <2>1
  <2>3. n \in Nat /\ \A i \in 1 .. n : f[i][2] \in Timers
    BY TimerConstants
  <2>4. expired' \in Seq(Timers)
    BY <2>2, <2>3
  <2>. QED
    <3>1. /\ timers' = timers \ due /\ active' = active \ {e[2] : e \in due}
          /\ calling' = TRUE /\ canceling' = {} /\ reported' = FALSE
          /\ fired' = FALSE /\ readAt' = now /\ started' = 0
          /\ UNCHANGED <<now, timerVars, alarm, userVars>>
      BY <1>11 DEF GetExpired
    <3>2. started' \in 0 .. Len(expired')
      BY <2>4, <3>1
    <3>. QED
      BY <2>4, <3>1, <3>2
<1>12. CASE Run
  BY <1>12 DEF Run
<1>13. CASE Reset
  <2>. DEFINE again == {s \in Range(expired) : interval[s] > 0 /\ s \notin canceling}
  <2>1. Range(expired) \subseteq Timers
    BY RangeOfSeq
  <2>2. ASSUME NEW s \in Timers
        PROVE  readAt + interval[s] \in Nat
    <3>1. readAt \in Nat /\ interval[s] \in Intervals \cup {0}
      BY <1>0
    <3>2. Intervals \cup {0} \subseteq Nat
      BY <1>0
    <3>. QED
      BY <3>1, <3>2
  <2>3. expiration' \in [Timers -> Nat]
    BY <1>13, <2>2 DEF Reset
  <2>4. timers' \subseteq Nat \X Timers
    BY <1>13, <2>1, <2>2 DEF Reset
  <2>5. active' \subseteq Timers /\ deleted' \subseteq Timers
    BY <1>13, <2>1 DEF Reset
  <2>6. alarm' \in Nat \cup {None} /\ fired' \in BOOLEAN
    <3>1. CASE UNCHANGED <<alarm, fired>>
      BY <3>1
    <3>2. ASSUME NEW e \in timers', Arm(e[1])
          PROVE  alarm' \in Nat \cup {None} /\ fired' \in BOOLEAN
      <4>1. e[1] \in Nat
        BY <2>4, <3>2
      <4>. QED
        BY <1>0, <3>2, <4>1, ArmType
    <3>. QED
      BY <1>13, <3>1, <3>2 DEF Reset, ArmForTheFirst
  <2>7. /\ expired' = <<>> /\ started' = 0 /\ calling' = FALSE
        /\ UNCHANGED <<now, created, interval, canceling, readAt, reported, userVars>>
    BY <1>13 DEF Reset
  <2>8. expired' \in Seq(Timers) /\ started' \in 0 .. Len(expired')
    BY <2>7
  <2>. QED
    BY <2>3, <2>4, <2>5, <2>6, <2>7, <2>8
<1>14. CASE UNCHANGED vars
  BY <1>14 DEF vars
<1>. QED
  BY <1>1, <1>2, <1>3, <1>4, <1>5, <1>6, <1>7, <1>8, <1>9, <1>10, <1>11,
     <1>12, <1>13, <1>14
  DEF Next, UserStep, HandleRead, CallFunctor

(***************************************************************************)
(* Every state of the queue is well typed.                                 *)
(***************************************************************************)
THEOREM TypeCorrect == Spec => []TypeOK
BY TypeInit, TypeNext, PTL DEF Spec

-----------------------------------------------------------------------------
(***************************************************************************)
(* The inductive invariant behind the safety of the sets.  Beyond what the *)
(* properties say it needs that a timer is handed over once, that timers   *)
(* not yet created are nowhere, that the batch is empty outside            *)
(* handleRead(), and that a timer of the batch that has been cancelled is  *)
(* in cancelingTimers_.                                                    *)
(***************************************************************************)
HandedOverOnce ==
  \A i, j \in DOMAIN pending :
    pending[i] = pending[j] /\ pending[i][1] = "add" => i = j

OnlyCreated ==
  active \cup Range(expired) \cup Added \cup deleted \subseteq 1 .. created

NoBatchOutside == ~ calling => expired = <<>>

CancellationNoted == cancelled \cap Range(expired) \subseteq canceling

QueueInv ==
  /\ TypeOK
  /\ SetsAgree
  /\ EachInOnePlace
  /\ CancelledIsDeleted
  /\ HandedOverOnce
  /\ OnlyCreated
  /\ NoBatchOutside
  /\ CancellationNoted

(***************************************************************************)
(* How handing over a functor, and taking the first one, change the timers *)
(* that are being handed over.                                             *)
(***************************************************************************)
Handed == {"add", "cancel"} \X Timers

LEMMA HandOver ==
  ASSUME pending \in Seq(Handed), HandedOverOnce,
         NEW op \in {"add", "cancel"}, NEW s \in Timers,
         op = "add" => s \notin Added,
         pending' = Append(pending, <<op, s>>)
  PROVE  /\ HandedOverOnce'
         /\ Added' = IF op = "add" THEN Added \cup {s} ELSE Added
<1>1. <<op, s>> \in Handed
  BY DEF Handed
<1>2. Range(pending') = Range(pending) \cup {<<op, s>>}
  BY <1>1, RangeOfAppend
<1>3. Added' = IF op = "add" THEN Added \cup {s} ELSE Added
  BY <1>2 DEF Added
<1>4. HandedOverOnce'
  <2>. SUFFICES ASSUME NEW i \in DOMAIN pending', NEW j \in DOMAIN pending',
                       pending'[i] = pending'[j], pending'[i][1] = "add"
                PROVE  i = j
    BY DEF HandedOverOnce
  <2>. DEFINE n == Len(pending)
  <2>1. /\ n \in Nat /\ DOMAIN pending = 1 .. n /\ DOMAIN pending' = 1 .. n + 1
        /\ pending'[n + 1] = <<op, s>>
        /\ \A k \in 1 .. n : pending'[k] = pending[k]
    BY <1>1
  <2>2. ASSUME NEW k \in 1 .. n, pending[k] = <<op, s>>, op = "add"
        PROVE  FALSE
    <3>1. <<op, s>> \in Range(pending)
      BY <2>1, <2>2 DEF Range
    <3>. QED
      BY <2>2, <3>1 DEF Added
  <2>3. CASE i \in 1 .. n /\ j \in 1 .. n
    BY <2>1, <2>3 DEF HandedOverOnce
  <2>4. CASE i = n + 1 /\ j \in 1 .. n
    BY <2>1, <2>2, <2>4
  <2>5. CASE j = n + 1 /\ i \in 1 .. n
    BY <2>1, <2>2, <2>5
  <2>. QED
    BY <2>1, <2>3, <2>4, <2>5
<1>. QED
  BY <1>3, <1>4

LEMMA TakeOver ==
  ASSUME pending \in Seq(Handed), HandedOverOnce, pending # <<>>,
         NEW op, NEW s \in Timers, Head(pending) = <<op, s>>,
         pending' = Tail(pending)
  PROVE  /\ HandedOverOnce'
         /\ Added' \subseteq Added
         /\ op = "add" => s \in Added \ Added'
<1>. DEFINE n == Len(pending)
<1>1. /\ n \in Nat /\ n > 0
      /\ DOMAIN pending = 1 .. n /\ DOMAIN pending' = 1 .. n - 1
      /\ pending[1] = <<op, s>>
      /\ \A k \in 1 .. n - 1 : pending'[k] = pending[k + 1]
  OBVIOUS
<1>2. /\ Range(pending') \subseteq Range(pending)
      /\ <<op, s>> \in Range(pending)
  BY RangeOfTail
<1>3. HandedOverOnce'
  <2>. SUFFICES ASSUME NEW i \in 1 .. n - 1, NEW j \in 1 .. n - 1,
                       pending'[i] = pending'[j], pending'[i][1] = "add"
                PROVE  i = j
    BY <1>1 DEF HandedOverOnce
  <2>1. /\ i + 1 \in DOMAIN pending /\ j + 1 \in DOMAIN pending
        /\ pending[i + 1] = pending[j + 1] /\ pending[i + 1][1] = "add"
    BY <1>1
  <2>2. i + 1 = j + 1
    BY <2>1 DEF HandedOverOnce
  <2>. QED
    BY <2>2
<1>4. ASSUME op = "add", s \in Added'
      PROVE  FALSE
  <2>1. PICK g \in Range(pending') : g[1] = "add" /\ g[2] = s
    BY <1>4 DEF Added
  <2>2. PICK k \in 1 .. n - 1 : g = pending'[k]
    BY <1>1, <2>1 DEF Range
  <2>3. pending[k + 1] \in Handed
    BY <1>1
  <2>4. pending[k + 1] = <<"add", s>>
    BY <1>1, <2>1, <2>2, <2>3 DEF Handed
  <2>5. k + 1 = 1
    BY <1>1, <1>4, <2>4, SMTT(30) DEF HandedOverOnce
  <2>. QED
    BY <2>5
<1>. QED
  BY <1>2, <1>3, <1>4 DEF Added

(***************************************************************************)
(* Putting into the sets a timer that is nowhere else, and cancelling any  *)
(* timer, preserve the invariant, whoever does it and when.                *)
(***************************************************************************)
LEMMA AddKeeps ==
  ASSUME QueueInv, NEW s \in Timers, NEW when, AddTimerInLoop(s, when),
         expiration' \in [Timers -> Nat], expiration'[s] = when,
         \A r \in active : expiration'[r] = expiration[r],
         s \notin active \cup Range(expired) \cup deleted \cup Added',
         Added' \subseteq Added,
         created' \in Nat, created <= created', s <= created',
         UNCHANGED <<deleted, calling, canceling, expired, cancelled>>
  PROVE  /\ SetsAgree' /\ EachInOnePlace' /\ CancelledIsDeleted'
         /\ OnlyCreated' /\ NoBatchOutside' /\ CancellationNoted'
<1>. USE DEF QueueInv
<1>1. timers' = timers \cup {<<when, s>>} /\ active' = active \cup {s}
  BY DEF AddTimerInLoop, Insert
<1>2. SetsAgree'
  BY <1>1 DEF SetsAgree
<1>3. EachInOnePlace'
  BY <1>1 DEF EachInOnePlace
<1>4. CancelledIsDeleted' /\ NoBatchOutside' /\ CancellationNoted'
  BY DEF CancelledIsDeleted, NoBatchOutside, CancellationNoted
<1>5. OnlyCreated'
  <2>1. created \in Nat /\ 1 .. created \subseteq 1 .. created'
    BY TimerConstants DEF TypeOK
  <2>2. s \in 1 .. created'
    BY DEF Timers
  <2>. QED
    BY <1>1, <2>1, <2>2 DEF OnlyCreated
<1>. QED
  BY <1>2, <1>3, <1>4, <1>5

LEMMA CancelKeeps ==
  ASSUME QueueInv, NEW s \in Timers, CancelInLoop(s), NoteCancelled(s),
         Added' \subseteq Added,
         UNCHANGED <<created, expiration, calling, expired>>
  PROVE  /\ SetsAgree' /\ EachInOnePlace' /\ CancelledIsDeleted'
         /\ OnlyCreated' /\ NoBatchOutside' /\ CancellationNoted'
<1>. USE DEF QueueInv
<1>1. NoBatchOutside'
  BY DEF NoBatchOutside
<1>2. CASE s \in active
  <2>1. /\ timers' = timers \ {<<expiration[s], s>>} /\ active' = active \ {s}
        /\ deleted' = deleted \cup {s} /\ canceling' = canceling
        /\ cancelled' = cancelled \cup {s}
    BY <1>2 DEF CancelInLoop, NoteCancelled
  <2>2. SetsAgree'
    BY <2>1 DEF SetsAgree
  <2>3. EachInOnePlace'
    BY <1>2, <2>1 DEF EachInOnePlace
  <2>4. CancelledIsDeleted'
    BY <2>1 DEF CancelledIsDeleted
  <2>5. OnlyCreated'
    BY <1>2, <2>1 DEF OnlyCreated
  <2>6. CancellationNoted'
    BY <1>2, <2>1 DEF CancellationNoted, EachInOnePlace
  <2>. QED
    BY <1>1, <2>2, <2>3, <2>4, <2>5, <2>6
<1>3. CASE s \notin active
  <2>1. /\ UNCHANGED <<timers, active, deleted>>
        /\ canceling' = IF calling THEN canceling \cup {s} ELSE canceling
        /\ cancelled' = IF s \in Range(expired) THEN cancelled \cup {s} ELSE cancelled
    BY <1>3 DEF CancelInLoop, NoteCancelled
  <2>2. s \in Range(expired) => calling
    BY DEF NoBatchOutside, Range
  <2>3. SetsAgree' /\ EachInOnePlace' /\ OnlyCreated'
    BY <2>1 DEF SetsAgree, EachInOnePlace, OnlyCreated
  <2>4. CancelledIsDeleted'
    BY <2>1, <2>2 DEF CancelledIsDeleted
  <2>5. CancellationNoted'
    BY <2>1, <2>2 DEF CancellationNoted
  <2>. QED
    BY <1>1, <2>3, <2>4, <2>5
<1>. QED
  BY <1>2, <1>3

(***************************************************************************)
(* A batch of expired timers is taken out of the sets, and comes back or   *)
(* is deleted, without disturbing the invariant.                           *)
(***************************************************************************)
LEMMA GetExpiredKeeps ==
  ASSUME QueueInv, GetExpired
  PROVE  /\ SetsAgree' /\ EachInOnePlace' /\ CancelledIsDeleted'
         /\ OnlyCreated' /\ NoBatchOutside' /\ CancellationNoted'
<1>. USE DEF QueueInv
<1>. DEFINE due == {e \in timers : e[1] <= now}
            gone == {e[2] : e \in due}
<1>1. /\ timers' = timers \ due /\ active' = active \ gone
      /\ ~ calling /\ calling' = TRUE /\ canceling' = {}
      /\ UNCHANGED <<created, expiration, deleted, pending, cancelled>>
  BY DEF GetExpired, timerVars, userVars
<1>2. PICK n \in 0 .. MaxTimers : \E f \in Bijection(1 .. n, due) :
        expired' = [i \in 1 .. n |-> f[i][2]]
  BY DEF GetExpired
<1>3. PICK f \in Bijection(1 .. n, due) :
        expired' = [i \in 1 .. n |-> f[i][2]]
  BY <1>2
<1>4. /\ f \in [1 .. n -> due]
      /\ \A i, j \in 1 .. n : f[i] = f[j] => i = j
      /\ \A e \in due : \E i \in 1 .. n : f[i] = e
  BY DEF Bijection, Injection, Surjection, IsInjective
<1>5. DOMAIN expired' = 1 .. n
  BY <1>3
<1>6. Range(expired') = gone
  BY <1>3, <1>4, <1>5 DEF Range
<1>7. \A e \in due : e[2] \in active /\ e = <<expiration[e[2]], e[2]>>
  BY DEF SetsAgree
<1>8. gone \subseteq active
  BY <1>7
<1>9. IsInjective(expired')
  <2>. SUFFICES ASSUME NEW i \in 1 .. n, NEW j \in 1 .. n,
                       f[i][2] = f[j][2]
                PROVE  i = j
    BY <1>3, <1>5 DEF IsInjective
  <2>1. f[i] = f[j]
    BY <1>4, <1>7
  <2>. QED
    BY <1>4, <2>1
<1>10. cancelled \subseteq deleted
  BY <1>1 DEF CancelledIsDeleted
<1>11. Added' = Added
  BY <1>1 DEF Added
<1>12. SetsAgree'
  <2>1. \A s \in active : <<expiration[s], s>> \in due <=> s \in gone
    BY <1>7 DEF SetsAgree
  <2>. QED
    BY <1>1, <1>7, <2>1 DEF SetsAgree
<1>13. EachInOnePlace'
  BY <1>1, <1>6, <1>8, <1>9, <1>11 DEF EachInOnePlace
<1>14. CancelledIsDeleted' /\ NoBatchOutside'
  BY <1>1, <1>10 DEF CancelledIsDeleted, NoBatchOutside
<1>15. OnlyCreated'
  BY <1>1, <1>6, <1>8, <1>11 DEF OnlyCreated
<1>16. CancellationNoted'
  BY <1>1, <1>6, <1>8, <1>10 DEF CancellationNoted, EachInOnePlace
<1>. QED
  BY <1>12, <1>13, <1>14, <1>15, <1>16

LEMMA ResetKeeps ==
  ASSUME QueueInv, Reset
  PROVE  /\ SetsAgree' /\ EachInOnePlace' /\ CancelledIsDeleted'
         /\ OnlyCreated' /\ NoBatchOutside' /\ CancellationNoted'
<1>. USE DEF QueueInv
<1>. DEFINE again == {s \in Range(expired) : interval[s] > 0 /\ s \notin canceling}
<1>1. /\ expiration' = [s \in Timers |-> IF s \in again THEN readAt + interval[s]
                                                       ELSE expiration[s]]
      /\ timers' = timers \cup {<<readAt + interval[s], s>> : s \in again}
      /\ active' = active \cup again
      /\ deleted' = deleted \cup (Range(expired) \ again)
      /\ expired' = <<>>
      /\ calling' = FALSE
      /\ UNCHANGED <<created, canceling, pending, cancelled>>
  BY DEF Reset, userVars
<1>2. Range(expired') = {} /\ IsInjective(expired')
  BY <1>1 DEF Range, IsInjective
<1>3. Range(expired) \subseteq Timers /\ active \subseteq Timers
  BY RangeOfSeq DEF TypeOK
<1>4. active \cap again = {}
  BY DEF EachInOnePlace
<1>5. Added' = Added
  BY <1>1 DEF Added
<1>6. SetsAgree'
  <2>1. \A s \in active : expiration'[s] = expiration[s]
    BY <1>1, <1>3, <1>4
  <2>2. \A s \in again : expiration'[s] = readAt + interval[s]
    BY <1>1, <1>3
  <2>. HIDE DEF again
  <2>. QED
    BY <1>1, <2>1, <2>2 DEF SetsAgree
<1>7. EachInOnePlace'
  BY <1>1, <1>2, <1>5 DEF EachInOnePlace
<1>8. CancelledIsDeleted'
  BY <1>1 DEF CancelledIsDeleted, CancellationNoted
<1>9. OnlyCreated'
  BY <1>1, <1>2, <1>5 DEF OnlyCreated
<1>10. NoBatchOutside' /\ CancellationNoted'
  BY <1>1, <1>2 DEF NoBatchOutside, CancellationNoted
<1>. QED
  BY <1>6, <1>7, <1>8, <1>9, <1>10

(***************************************************************************)
(* The invariant holds in every state.                                     *)
(***************************************************************************)
THEOREM QueueInvHolds == Spec => []QueueInv
<1>1. Init => QueueInv
  <2>. SUFFICES ASSUME Init
                PROVE  QueueInv
    OBVIOUS
  <2>1. TypeOK
    BY TypeInit
  <2>2. /\ timers = {} /\ active = {} /\ deleted = {} /\ cancelled = {}
        /\ expired = <<>> /\ pending = <<>>
    BY DEF Init
  <2>3. Range(expired) = {} /\ Range(pending) = {} /\ IsInjective(expired)
    BY <2>2 DEF Range, IsInjective
  <2>4. Added = {}
    BY <2>3 DEF Added
  <2>5. HandedOverOnce
    BY <2>2 DEF HandedOverOnce
  <2>. QED
    BY <2>1, <2>2, <2>3, <2>4, <2>5
    DEF QueueInv, SetsAgree, EachInOnePlace, CancelledIsDeleted, OnlyCreated,
        NoBatchOutside, CancellationNoted
<1>2. QueueInv /\ [Next]_vars => QueueInv'
  <2> SUFFICES ASSUME QueueInv, [Next]_vars
               PROVE  QueueInv'
    OBVIOUS
  <2>. USE DEF fdVars, batchVars, timerVars, userVars
  <2>0. /\ TypeOK /\ TypeOK'
        /\ pending \in Seq(Handed) /\ HandedOverOnce
        /\ created \in Nat /\ expiration \in [Timers -> Nat]
    <3>1. TypeOK /\ HandedOverOnce
      BY DEF QueueInv
    <3>2. TypeOK'
      BY <3>1, TypeNext
    <3>3. /\ pending \in Seq(Handed)
          /\ created \in Nat /\ expiration \in [Timers -> Nat]
      BY <3>1, TimerConstants DEF TypeOK, Handed
    <3>. QED
      BY <3>1, <3>2, <3>3
  <2>1. ASSUME UNCHANGED <<created, expiration, deleted, timers, active, calling,
                           canceling, expired, pending, cancelled>>
        PROVE  QueueInv'
    BY <2>0, <2>1
    DEF QueueInv, SetsAgree, EachInOnePlace, Added, CancelledIsDeleted,
        HandedOverOnce, OnlyCreated, NoBatchOutside, CancellationNoted
  <2>2. CASE Tick \/ GoOff \/ Poll \/ Run \/ UNCHANGED vars
    BY <2>1, <2>2 DEF Tick, GoOff, Poll, Run, vars
  <2>3. ASSUME NEW s \in Timers, NEW when \in Times, NEW i \in Intervals,
               LoopAdds(s, when, i)
        PROVE  QueueInv'
    <3>1. /\ s = created + 1 /\ created' = s
          /\ expiration' = [expiration EXCEPT ![s] = when]
          /\ AddTimerInLoop(s, when)
          /\ UNCHANGED <<deleted, pending, calling, canceling, expired, cancelled>>
      BY <2>3 DEF LoopAdds, New
    <3>2. Added' = Added
      BY <3>1 DEF Added
    <3>3. HandedOverOnce'
      BY <2>0, <3>1 DEF HandedOverOnce
    <3>4. s \notin active \cup Range(expired) \cup deleted \cup Added'
      BY <2>0, <3>1, <3>2 DEF QueueInv, OnlyCreated
    <3>5. /\ expiration' \in [Timers -> Nat] /\ expiration'[s] = when
          /\ \A r \in active : expiration'[r] = expiration[r]
      BY <2>0, <3>1, <3>4 DEF TypeOK
    <3>6. /\ created' \in Nat /\ created <= created' /\ s <= created'
      BY <2>0, <3>1
    <3>. QED
      BY <2>0, <3>1, <3>2, <3>3, <3>4, <3>5, <3>6, AddKeeps DEF QueueInv
  <2>4. ASSUME NEW s \in Timers, NEW when \in Times, NEW i \in Intervals,
               NEW t \in Threads, ThreadAdds(t, s, when, i)
        PROVE  QueueInv'
    <3>1. /\ s = created + 1 /\ created' = s
          /\ expiration' = [expiration EXCEPT ![s] = when]
          /\ pending' = Append(pending, <<"add", s>>)
          /\ UNCHANGED <<deleted, timers, active, calling, canceling, expired, cancelled>>
      BY <2>4 DEF ThreadAdds, New
    <3>2. s \notin active \cup Range(expired) \cup deleted \cup Added
      BY <2>0, <3>1 DEF QueueInv, OnlyCreated
    <3>3. HandedOverOnce' /\ Added' = Added \cup {s}
      BY <2>0, <3>1, <3>2, HandOver
    <3>4. \A r \in active : expiration'[r] = expiration[r]
      BY <2>0, <3>1, <3>2 DEF TypeOK
    <3>5. SetsAgree'
      BY <3>1, <3>4 DEF QueueInv, SetsAgree
    <3>6. EachInOnePlace'
      BY <3>1, <3>2, <3>3 DEF QueueInv, EachInOnePlace
    <3>7. OnlyCreated'
      <4>1. 1 .. created' = (1 .. created) \cup {s}
        BY <2>0, <3>1
      <4>. QED
        BY <3>1, <3>3, <4>1 DEF QueueInv, OnlyCreated
    <3>8. CancelledIsDeleted' /\ NoBatchOutside' /\ CancellationNoted'
      BY <3>1 DEF QueueInv, CancelledIsDeleted, NoBatchOutside, CancellationNoted
    <3>. QED
      BY <2>0, <3>3, <3>5, <3>6, <3>7, <3>8 DEF QueueInv
  <2>5. ASSUME NEW s \in Timers, LoopCancels(s)
        PROVE  QueueInv'
    <3>1. /\ CancelInLoop(s) /\ NoteCancelled(s)
          /\ UNCHANGED <<created, expiration, calling, expired, pending>>
      BY <2>5 DEF LoopCancels
    <3>2. Added' = Added /\ HandedOverOnce'
      BY <2>0, <3>1 DEF Added, HandedOverOnce
    <3>. QED
      BY <2>0, <3>1, <3>2, CancelKeeps DEF QueueInv
  <2>6. ASSUME NEW s \in Timers, NEW t \in Threads, ThreadCancels(t, s)
        PROVE  QueueInv'
    <3>1. /\ pending' = Append(pending, <<"cancel", s>>)
          /\ UNCHANGED <<created, expiration, deleted, timers, active, calling,
                         canceling, expired, cancelled>>
      BY <2>6 DEF ThreadCancels
    <3>2. HandedOverOnce' /\ Added' = Added
      BY <2>0, <3>1, HandOver
    <3>. QED
      BY <2>0, <3>1, <3>2
      DEF QueueInv, SetsAgree, EachInOnePlace, CancelledIsDeleted, OnlyCreated,
          NoBatchOutside, CancellationNoted
  <2>7. ASSUME NEW t \in Threads, ThreadGetsId(t)
        PROVE  QueueInv'
    BY <2>1, <2>7 DEF ThreadGetsId
  <2>8. ASSUME NEW s \in Timers, CallAdd(s)
        PROVE  QueueInv'
    <3>1. /\ pending # <<>> /\ Head(pending) = <<"add", s>>
          /\ pending' = Tail(pending)
          /\ AddTimerInLoop(s, expiration[s])
          /\ UNCHANGED <<created, expiration, deleted, calling, canceling, expired,
                         cancelled>>
      BY <2>8 DEF CallAdd
    <3>2. HandedOverOnce' /\ Added' \subseteq Added /\ s \in Added \ Added'
      BY <2>0, <3>1, TakeOver
    <3>3. s \notin active \cup Range(expired) \cup deleted \cup Added'
      BY <3>2 DEF QueueInv, EachInOnePlace
    <3>4. s <= created
      BY <2>0, <3>2 DEF QueueInv, OnlyCreated
    <3>. QED
      BY <2>0, <3>1, <3>2, <3>3, <3>4, AddKeeps DEF QueueInv
  <2>9. ASSUME NEW s \in Timers, CallCancel(s)
        PROVE  QueueInv'
    <3>1. /\ pending # <<>> /\ Head(pending) = <<"cancel", s>>
          /\ pending' = Tail(pending)
          /\ CancelInLoop(s) /\ NoteCancelled(s)
          /\ UNCHANGED <<created, expiration, calling, expired>>
      BY <2>9 DEF CallCancel
    <3>2. HandedOverOnce' /\ Added' \subseteq Added
      BY <2>0, <3>1, TakeOver
    <3>. QED
      BY <2>0, <3>1, <3>2, CancelKeeps DEF QueueInv
  <2>10. CASE GetExpired
    <3>1. HandedOverOnce'
      BY <2>0, <2>10 DEF GetExpired, HandedOverOnce
    <3>. QED
      BY <2>0, <2>10, <3>1, GetExpiredKeeps DEF QueueInv
  <2>11. CASE Reset
    <3>1. HandedOverOnce'
      BY <2>0, <2>11 DEF Reset, HandedOverOnce
    <3>. QED
      BY <2>0, <2>11, <3>1, ResetKeeps DEF QueueInv
  <2>. QED
    BY <2>2, <2>3, <2>4, <2>5, <2>6, <2>7, <2>8, <2>9, <2>10, <2>11
    DEF Next, UserStep, HandleRead, CallFunctor
<1>. QED
  BY <1>1, <1>2, PTL DEF Spec

(***************************************************************************)
(* timers_ and activeTimers_ always hold the same timers, each under its   *)
(* current expiration (the asserts of insert(), cancelInLoop() and         *)
(* getExpired()).                                                          *)
(***************************************************************************)
THEOREM SetsAlwaysAgree == Spec => []SetsAgree
BY QueueInvHolds, PTL DEF QueueInv

(***************************************************************************)
(* No timer is ever in two of the queue, the batch and the functors, or in *)
(* one of them after it was deleted: none is used or deleted after delete. *)
(***************************************************************************)
THEOREM NoTimerTwice == Spec => []EachInOnePlace
BY QueueInvHolds, PTL DEF QueueInv

(***************************************************************************)
(* A cancelled timer never comes back, even if it repeats and cancels      *)
(* itself, or another timer of the same batch cancels it.                  *)
(***************************************************************************)
THEOREM CancelledNeverReturns == Spec => []CancelledIsDeleted
BY QueueInvHolds, PTL DEF QueueInv

-----------------------------------------------------------------------------
(***************************************************************************)
(* Between batches the timerfd is never set later than the first timer     *)
(* expires: with the types, this is inductive by itself.                   *)
(***************************************************************************)
LEMMA AddKeepsArmed ==
  ASSUME TypeOK, ArmedForTheFirst, ~ calling, NEW s, NEW when \in Nat,
         AddTimerInLoop(s, when), UNCHANGED <<now, reported>>
  PROVE  ArmedForTheFirst'
<1>. SUFFICES ASSUME NEW e \in timers', ~ (fired' \/ reported')
              PROVE  alarm' # None /\ alarm' <= (IF e[1] < now THEN now ELSE e[1])
  BY DEF ArmedForTheFirst
<1>1. /\ now \in Nat /\ alarm \in Nat \cup {None}
      /\ \A d \in timers : d[1] \in Nat
  BY DEF TypeOK, Times
<1>2. e \in timers \/ e = <<when, s>>
  BY DEF AddTimerInLoop, Insert
<1>3. CASE (\A d \in timers : when < d[1]) /\ Arm(when)
  <2>1. e[1] \in Nat /\ when <= e[1]
    BY <1>1, <1>2, <1>3
  <2>. QED
    BY <1>1, <1>3, <2>1 DEF Arm, None
<1>4. CASE /\ ~ \A d \in timers : when < d[1]
           /\ UNCHANGED <<alarm, fired>>
  <2>1. PICK d \in timers : d[1] <= when
    BY <1>1, <1>4
  <2>2. /\ ~ (fired \/ reported)
        /\ \A c \in timers : /\ alarm # None
                             /\ alarm <= (IF c[1] < now THEN now ELSE c[1])
    BY <1>4 DEF ArmedForTheFirst
  <2>3. alarm' = alarm /\ alarm \in Nat
    BY <1>1, <1>4, <2>1, <2>2
  <2>4. CASE e \in timers
    BY <2>2, <2>3, <2>4
  <2>5. CASE e = <<when, s>>
    BY <1>1, <2>1, <2>2, <2>3, <2>5
  <2>. QED
    BY <1>2, <2>4, <2>5
<1>. QED
  BY <1>3, <1>4 DEF AddTimerInLoop

THEOREM AlwaysArmed == Spec => []ArmedForTheFirst
<1>1. Init => ArmedForTheFirst
  BY DEF Init, ArmedForTheFirst
<1>2. TypeOK /\ ArmedForTheFirst /\ [Next]_vars => ArmedForTheFirst'
  <2> SUFFICES ASSUME TypeOK, ArmedForTheFirst, [Next]_vars
               PROVE  ArmedForTheFirst'
    OBVIOUS
  <2>. USE DEF fdVars, batchVars, timerVars, userVars
  <2>0. /\ now \in Nat /\ alarm \in Nat \cup {None}
        /\ \A e \in timers : e[1] \in Nat
        /\ expiration \in [Timers -> Nat]
    BY DEF TypeOK, Times
  <2>1. ASSUME timers' \subseteq timers,
               UNCHANGED <<now, calling, alarm, fired, reported>>
        PROVE  ArmedForTheFirst'
    BY <2>1 DEF ArmedForTheFirst
  <2>2. ASSUME calling'
        PROVE  ArmedForTheFirst'
    BY <2>2 DEF ArmedForTheFirst
  <2>3. CASE Tick
    <3>1. /\ now' = now + 1
          /\ UNCHANGED <<timers, calling, alarm, fired, reported>>
      BY <2>3 DEF Tick
    <3>. QED
      BY <2>0, <3>1 DEF ArmedForTheFirst, None
  <2>4. CASE GoOff \/ Poll
    <3>1. fired' \/ reported'
      BY <2>4 DEF GoOff, Poll
    <3>. QED
      BY <3>1 DEF ArmedForTheFirst
  <2>5. ASSUME NEW s \in Timers, NEW when \in Times, NEW i \in Intervals,
               LoopAdds(s, when, i)
        PROVE  ArmedForTheFirst'
    <3>1. CASE calling
      BY <2>2, <2>5, <3>1 DEF LoopAdds
    <3>2. CASE ~ calling
      BY <2>5, <3>2, AddKeepsArmed DEF LoopAdds, Times
    <3>. QED
      BY <3>1, <3>2
  <2>6. ASSUME NEW s \in Timers, CallAdd(s)
        PROVE  ArmedForTheFirst'
    BY <2>0, <2>6, AddKeepsArmed DEF CallAdd
  <2>7. ASSUME NEW s \in Timers, LoopCancels(s) \/ CallCancel(s)
        PROVE  ArmedForTheFirst'
    BY <2>1, <2>7 DEF LoopCancels, CallCancel, CancelInLoop
  <2>8. ASSUME NEW s \in Timers, NEW when \in Times, NEW i \in Intervals,
               NEW t \in Threads, ThreadAdds(t, s, when, i)
        PROVE  ArmedForTheFirst'
    BY <2>1, <2>8 DEF ThreadAdds
  <2>9. ASSUME NEW t \in Threads,
               ThreadGetsId(t) \/ \E s \in Timers : ThreadCancels(t, s)
        PROVE  ArmedForTheFirst'
    BY <2>1, <2>9 DEF ThreadCancels, ThreadGetsId
  <2>10. CASE GetExpired
    BY <2>2, <2>10 DEF GetExpired
  <2>11. CASE Run \/ UNCHANGED vars
    BY <2>1, <2>11 DEF Run, vars
  <2>12. CASE Reset
    <3>1. now' = now /\ ArmForTheFirst
      BY <2>12 DEF Reset
    <3>2. CASE timers' = {}
      BY <3>2 DEF ArmedForTheFirst
    <3>3. ASSUME NEW e \in timers', \A d \in timers' : e[1] <= d[1], Arm(e[1])
          PROVE  ArmedForTheFirst'
      <4>1. timers' \subseteq Nat \X Timers
        BY TypeNext DEF TypeOK
      <4>2. e[1] \in Nat /\ \A d \in timers' : d[1] \in Nat
        BY <4>1
      <4>. QED
        BY <2>0, <3>1, <3>3, <4>2 DEF ArmedForTheFirst, Arm, None
    <3>. QED
      BY <3>1, <3>2, <3>3 DEF ArmForTheFirst
  <2>13. CASE UserStep
    BY <2>5, <2>7, <2>8, <2>9, <2>13 DEF UserStep
  <2>14. CASE CallFunctor
    BY <2>6, <2>7, <2>14 DEF CallFunctor
  <2>. QED
    BY <2>3, <2>4, <2>10, <2>11, <2>12, <2>13, <2>14 DEF Next, HandleRead
<1>. QED
  BY <1>1, <1>2, TypeCorrect, PTL DEF Spec
=============================================================================

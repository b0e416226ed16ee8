------------------------ MODULE TcpConnection_proofs ------------------------
(***************************************************************************)
(* Proofs about the data path of a TcpConnection, for any threads, numbers *)
(* and lengths of messages and size of the socket's send buffer.           *)
(***************************************************************************)
EXTENDS TcpConnection, SequenceTheorems, FiniteSetTheorems, TLAPS

(***************************************************************************)
(* Taking the head off the first of two sequences takes the head off their *)
(* concatenation.                                                          *)
(***************************************************************************)
LEMMA TailOfConcat ==
  ASSUME NEW S, NEW s \in Seq(S), NEW u \in Seq(S), s # <<>>
  PROVE  /\ s \o u # <<>>
         /\ Head(s \o u) = Head(s)
         /\ Tail(s \o u) = Tail(s) \o u
  OBVIOUS

(***************************************************************************)
(* Appending to the second of two sequences appends to their concatenation.*)
(***************************************************************************)
LEMMA AppendToConcat ==
  ASSUME NEW S, NEW s \in Seq(S), NEW u \in Seq(S), NEW e \in S
  PROVE  s \o Append(u, e) = Append(s \o u, e)
  OBVIOUS

(***************************************************************************)
(* The message of a functor: whose it is and which of his.                 *)
(***************************************************************************)
Message(p, k, size) == [i \in 1 .. size |-> <<p, k, i>>]
Who(f) == f.message[1][1]
Nr(f) == f.message[1][2]

IsMessage(f) ==
  /\ Who(f) \in Threads
  /\ Nr(f) \in Nat
  /\ \E size \in MessageSizes : f.message = Message(Who(f), Nr(f), size)

(***************************************************************************)
(* Of a queue q of functors, when M[p] messages of each caller have been   *)
(* accepted and S[p] sent: the messages from M[p] + 1 to S[p] are in it,   *)
(* once each and in this order.                                            *)
(***************************************************************************)
Numbered(q, M, S) ==
  /\ \A p \in Threads : M[p] <= S[p]
  /\ \A i \in DOMAIN q : q[i].op = "send" =>
       IsMessage(q[i]) /\ M[Who(q[i])] < Nr(q[i]) /\ Nr(q[i]) <= S[Who(q[i])]
  /\ \A i, j \in DOMAIN q :
       (i < j /\ q[i].op = "send" /\ q[j].op = "send" /\ Who(q[i]) = Who(q[j]))
         => Nr(q[i]) < Nr(q[j])
  /\ \A p \in Threads, k \in Nat : (M[p] < k /\ k <= S[p]) =>
       \E i \in DOMAIN q : q[i].op = "send" /\ Who(q[i]) = p /\ Nr(q[i]) = k

-----------------------------------------------------------------------------
(* The inductive invariant *)

Queue == batch \o pending

Counted == [p \in Callers |-> Stream!MessagesOf(p)]

\* All that callers of other threads have sent and the loop has not come to is
\* queued; what callbacks send is accepted at once.
Queued ==
  /\ Counted \in [Callers -> Nat]
  /\ Numbered(Queue, Counted, sends)
  /\ Counted[InLoop] = sends[InLoop]

Phases == phase = "events" => batch = <<>>

Writes ==
  /\ writing <=> output # <<>>
  /\ output = <<>> => told = Len(written)

MaySend == \A t \in Threads : tpc[t] = "send" => sends[t] < MaxSends

Inv == TypeOK /\ Queued /\ Phases /\ Writes /\ MaySend

-----------------------------------------------------------------------------
(* Queues of functors *)

LEMMA MessageIs ==
  ASSUME NEW p \in Threads, NEW k \in Nat, NEW size \in MessageSizes
  PROVE  LET f == Call("send", Message(p, k, size))
         IN  IsMessage(f) /\ Who(f) = p /\ Nr(f) = k
<1>1. size \in Nat /\ size >= 1 /\ 1 \in 1 .. size
  BY TcpConnectionConstants
<1>2. Message(p, k, size)[1] = <<p, k, 1>>
  BY <1>1 DEF Message
<1>. QED
  BY <1>2 DEF IsMessage, Who, Nr, Call

LEMMA AppendFacts ==
  ASSUME NEW Q, NEW q \in Seq(Q), NEW f
  PROVE  /\ Append(q, f) \in Seq(Q \cup {f})
         /\ DOMAIN q \subseteq Nat
         /\ Len(q) + 1 \in DOMAIN Append(q, f)
         /\ Append(q, f)[Len(q) + 1] = f
         /\ \A i \in DOMAIN q : i \in DOMAIN Append(q, f) /\ Append(q, f)[i] = q[i] /\ i < Len(q) + 1
         /\ \A i \in DOMAIN Append(q, f) : i \in DOMAIN q \/ i = Len(q) + 1
OBVIOUS

(***************************************************************************)
(* A functor that is no send() does not change the numbering.              *)
(***************************************************************************)
LEMMA NumberedAppend ==
  ASSUME NEW M, NEW S, NEW Q, NEW q \in Seq(Q), Numbered(q, M, S), NEW f, f.op # "send"
  PROVE  Numbered(Append(q, f), M, S)
<1>. DEFINE r == Append(q, f)
            n == Len(q) + 1
<1>1. /\ r[n] = f
      /\ \A i \in DOMAIN q : i \in DOMAIN r /\ r[i] = q[i]
      /\ \A i \in DOMAIN r : i \in DOMAIN q \/ i = n
  BY AppendFacts
<1>. HIDE DEF r, n
<1>2. \A i \in DOMAIN r : r[i].op = "send" => i \in DOMAIN q /\ r[i] = q[i]
  BY <1>1
<1>3. Numbered(r, M, S)
  BY <1>1, <1>2 DEF Numbered
<1>. QED
  BY <1>3 DEF r

(***************************************************************************)
(* send() of another thread appends its next message.                      *)
(***************************************************************************)
LEMMA NumberedSend ==
  ASSUME NEW M \in [Callers -> Nat], NEW S \in [Callers -> Nat],
         NEW Q, NEW q \in Seq(Q), Numbered(q, M, S),
         NEW t \in Threads, NEW f, IsMessage(f), Who(f) = t, Nr(f) = S[t] + 1, f.op = "send"
  PROVE  Numbered(Append(q, f), M, [S EXCEPT ![t] = @ + 1])
<1>. DEFINE r == Append(q, f)
            n == Len(q) + 1
            T == [S EXCEPT ![t] = @ + 1]
<1>1. /\ n \in DOMAIN r /\ r[n] = f
      /\ \A i \in DOMAIN q : i \in DOMAIN r /\ r[i] = q[i] /\ i < n /\ i \in Nat
      /\ \A i \in DOMAIN r : i \in DOMAIN q \/ i = n
      /\ n \in Nat
  BY AppendFacts
<1>2. /\ T[t] = S[t] + 1
      /\ \A p \in Threads : M[p] \in Nat /\ S[p] \in Nat /\ T[p] \in Nat /\ S[p] <= T[p]
      /\ \A p \in Threads : p # t => T[p] = S[p]
  BY DEF Callers
<1>. HIDE DEF r, n, T
<1>3. \A p \in Threads : M[p] <= T[p]
  BY <1>2 DEF Numbered
<1>4. ASSUME NEW i \in DOMAIN r, r[i].op = "send"
      PROVE  IsMessage(r[i]) /\ M[Who(r[i])] < Nr(r[i]) /\ Nr(r[i]) <= T[Who(r[i])]
  <2>1. CASE i = n
    <3>1. M[t] < S[t] + 1
      BY <1>2 DEF Numbered
    <3>. QED
      BY <1>1, <1>2, <2>1, <3>1
  <2>2. CASE i \in DOMAIN q
    <3>1. r[i] = q[i] /\ IsMessage(q[i]) /\ M[Who(q[i])] < Nr(q[i]) /\ Nr(q[i]) <= S[Who(q[i])]
      BY <1>1, <1>4, <2>2 DEF Numbered
    <3>2. Who(q[i]) \in Threads /\ Nr(q[i]) \in Nat
      BY <3>1 DEF IsMessage
    <3>. QED
      BY <1>2, <3>1, <3>2
  <2>. QED
    BY <1>1, <2>1, <2>2
<1>5. ASSUME NEW i \in DOMAIN r, NEW j \in DOMAIN r, i < j, r[i].op = "send", r[j].op = "send",
             Who(r[i]) = Who(r[j])
      PROVE  Nr(r[i]) < Nr(r[j])
  <2>1. i \in DOMAIN q
    <3>1. CASE i = n
      BY <1>1, <1>5, <3>1
    <3>. QED
      BY <1>1, <3>1
  <2>2. CASE j \in DOMAIN q
    BY <1>1, <1>5, <2>1, <2>2 DEF Numbered
  <2>3. CASE j = n
    <3>1. q[i].op = "send" /\ Who(q[i]) = t
      BY <1>1, <1>5, <2>1, <2>3
    <3>2. Nr(q[i]) <= S[t] /\ Nr(q[i]) \in Nat
      BY <2>1, <3>1 DEF Numbered, IsMessage
    <3>. QED
      BY <1>1, <1>2, <2>1, <2>3, <3>2
  <2>. QED
    BY <1>1, <2>2, <2>3
<1>6. ASSUME NEW p \in Threads, NEW k \in Nat, M[p] < k, k <= T[p]
      PROVE  \E i \in DOMAIN r : r[i].op = "send" /\ Who(r[i]) = p /\ Nr(r[i]) = k
  <2>1. CASE p = t /\ k = S[t] + 1
    BY <1>1, <2>1
  <2>2. CASE k <= S[p]
    <3>1. PICK i \in DOMAIN q : q[i].op = "send" /\ Who(q[i]) = p /\ Nr(q[i]) = k
      BY <1>6, <2>2 DEF Numbered
    <3>. QED
      BY <1>1, <3>1
  <2>. QED
    BY <1>2, <1>6, <2>1, <2>2
<1>7. Numbered(r, M, T)
  BY <1>3, <1>4, <1>5, <1>6 DEF Numbered
<1>. QED
  BY <1>7 DEF r, T

LEMMA TailFacts ==
  ASSUME NEW Q, NEW q \in Seq(Q), q # <<>>
  PROVE  /\ Head(q) = q[1] /\ 1 \in DOMAIN q /\ DOMAIN q \subseteq Nat
         /\ DOMAIN Tail(q) \subseteq Nat
         /\ \A i \in DOMAIN Tail(q) : i + 1 \in DOMAIN q /\ Tail(q)[i] = q[i + 1] /\ 1 < i + 1
         /\ \A i \in DOMAIN q : i # 1 => 1 < i /\ i - 1 \in DOMAIN Tail(q) /\ (i - 1) + 1 = i
<1>1. /\ Tail(q) \in Seq(Q)
      /\ Len(q) \in Nat /\ Len(q) >= 1
      /\ Len(Tail(q)) = Len(q) - 1
      /\ DOMAIN q = 1 .. Len(q)
      /\ DOMAIN Tail(q) = 1 .. Len(Tail(q))
      /\ Head(q) = q[1]
      /\ \A i \in 1 .. Len(Tail(q)) : Tail(q)[i] = q[i + 1]
  BY HeadTailProperties
<1>. QED
  BY <1>1

(***************************************************************************)
(* To call a functor that is no send() does not change the numbering.      *)
(***************************************************************************)
LEMMA NumberedTail ==
  ASSUME NEW M, NEW S, NEW Q, NEW q \in Seq(Q), q # <<>>, Numbered(q, M, S),
         Head(q).op # "send"
  PROVE  Numbered(Tail(q), M, S)
<1>. DEFINE r == Tail(q)
<1>1. /\ q[1].op # "send"
      /\ \A i \in DOMAIN r : i + 1 \in DOMAIN q /\ r[i] = q[i + 1] /\ i \in Nat
      /\ \A i \in DOMAIN q : i # 1 => i - 1 \in DOMAIN r /\ (i - 1) + 1 = i
  BY TailFacts
<1>. HIDE DEF r
<1>2. \A i, j \in DOMAIN r : i < j => i + 1 < j + 1
  BY <1>1
<1>3. \A p \in Threads, k \in Nat : (M[p] < k /\ k <= S[p]) =>
        \E i \in DOMAIN r : r[i].op = "send" /\ Who(r[i]) = p /\ Nr(r[i]) = k
  <2>. SUFFICES ASSUME NEW p \in Threads, NEW k \in Nat, M[p] < k, k <= S[p]
                PROVE  \E i \in DOMAIN r : r[i].op = "send" /\ Who(r[i]) = p /\ Nr(r[i]) = k
    OBVIOUS
  <2>1. PICK i \in DOMAIN q : q[i].op = "send" /\ Who(q[i]) = p /\ Nr(q[i]) = k
    BY DEF Numbered
  <2>2. i - 1 \in DOMAIN r /\ r[i - 1] = q[i]
    BY <1>1, <2>1
  <2>. QED
    BY <2>1, <2>2
<1>4. Numbered(r, M, S)
  BY <1>1, <1>2, <1>3 DEF Numbered
<1>. QED
  BY <1>4 DEF r

(***************************************************************************)
(* The first message in the queue is its caller's next one, and what is    *)
(* behind it stays numbered when it has been accepted.                     *)
(***************************************************************************)
LEMMA NumberedAccept ==
  ASSUME NEW M \in [Callers -> Nat], NEW S \in [Callers -> Nat],
         NEW Q, NEW q \in Seq(Q), q # <<>>, Numbered(q, M, S), Head(q).op = "send"
  PROVE  /\ IsMessage(Head(q))
         /\ Nr(Head(q)) = M[Who(Head(q))] + 1
         /\ Numbered(Tail(q), [M EXCEPT ![Who(Head(q))] = @ + 1], S)
<1>. DEFINE r == Tail(q)
            t == Who(Head(q))
            N == [M EXCEPT ![t] = @ + 1]
<1>1. /\ Head(q) = q[1] /\ 1 \in DOMAIN q
      /\ \A i \in DOMAIN r : i + 1 \in DOMAIN q /\ r[i] = q[i + 1] /\ i \in Nat /\ 1 < i + 1
      /\ \A i \in DOMAIN q : i # 1 => 1 < i /\ i - 1 \in DOMAIN r /\ (i - 1) + 1 = i
  BY TailFacts
<1>2. IsMessage(q[1]) /\ M[Who(q[1])] < Nr(q[1]) /\ Nr(q[1]) <= S[Who(q[1])]
  BY <1>1 DEF Numbered
<1>3. t \in Threads /\ Nr(q[1]) \in Nat /\ Who(q[1]) = t
  BY <1>1, <1>2 DEF IsMessage
<1>. HIDE DEF r, t
<1>4. \A p \in Threads : M[p] \in Nat /\ S[p] \in Nat
  BY DEF Callers
<1>5. /\ N[t] = M[t] + 1
      /\ \A p \in Threads : p # t => N[p] = M[p]
  BY <1>3 DEF Callers
<1>. HIDE DEF N
<1>6. Nr(q[1]) = M[t] + 1
  <2>1. M[t] + 1 \in Nat /\ M[t] < M[t] + 1 /\ M[t] + 1 <= S[t]
    BY <1>2, <1>3, <1>4
  <2>2. PICK i \in DOMAIN q : q[i].op = "send" /\ Who(q[i]) = t /\ Nr(q[i]) = M[t] + 1
    BY <1>3, <2>1 DEF Numbered
  <2>3. CASE i # 1
    <3>1. Nr(q[1]) < M[t] + 1
      BY <1>1, <1>3, <2>2, <2>3 DEF Numbered
    <3>. QED
      BY <1>2, <1>3, <1>4, <3>1
  <2>. QED
    BY <2>2, <2>3
<1>7. ASSUME NEW i \in DOMAIN r, r[i].op = "send"
      PROVE  IsMessage(r[i]) /\ N[Who(r[i])] < Nr(r[i]) /\ Nr(r[i]) <= S[Who(r[i])]
  <2>1. /\ r[i] = q[i + 1] /\ i + 1 \in DOMAIN q /\ 1 < i + 1
        /\ IsMessage(r[i]) /\ M[Who(r[i])] < Nr(r[i]) /\ Nr(r[i]) <= S[Who(r[i])]
    BY <1>1, <1>7 DEF Numbered
  <2>2. Who(r[i]) \in Threads /\ Nr(r[i]) \in Nat
    BY <2>1 DEF IsMessage
  <2>3. CASE Who(r[i]) = t
    <3>1. Nr(q[1]) < Nr(r[i])
      BY <1>1, <1>3, <1>7, <2>1, <2>3 DEF Numbered
    <3>. QED
      BY <1>3, <1>5, <1>6, <2>1, <2>3, <3>1
  <2>4. CASE Who(r[i]) # t
    BY <1>5, <2>1, <2>2, <2>4
  <2>. QED
    BY <2>3, <2>4
<1>8. ASSUME NEW i \in DOMAIN r, NEW j \in DOMAIN r, i < j, r[i].op = "send", r[j].op = "send",
             Who(r[i]) = Who(r[j])
      PROVE  Nr(r[i]) < Nr(r[j])
  <2>1. i + 1 < j + 1
    BY <1>1, <1>8
  <2>. QED
    BY <1>1, <1>8, <2>1 DEF Numbered
<1>9. ASSUME NEW p \in Threads, NEW k \in Nat, N[p] < k, k <= S[p]
      PROVE  \E i \in DOMAIN r : r[i].op = "send" /\ Who(r[i]) = p /\ Nr(r[i]) = k
  <2>1. M[p] < k
    BY <1>4, <1>5, <1>9
  <2>2. PICK i \in DOMAIN q : q[i].op = "send" /\ Who(q[i]) = p /\ Nr(q[i]) = k
    BY <1>9, <2>1 DEF Numbered
  <2>3. i # 1
    BY <1>3, <1>4, <1>5, <1>6, <1>9, <2>2
  <2>4. i - 1 \in DOMAIN r /\ r[i - 1] = q[i]
    BY <1>1, <2>2, <2>3
  <2>. QED
    BY <2>2, <2>4
<1>10. \A p \in Threads : N[p] <= S[p]
  BY <1>2, <1>3, <1>4, <1>5, <1>6 DEF Numbered
<1>11. Numbered(r, N, S)
  BY <1>7, <1>8, <1>9, <1>10 DEF Numbered
<1>. QED
  BY <1>1, <1>2, <1>3, <1>6, <1>11 DEF r, N, t

(***************************************************************************)
(* Only other threads' messages are queued.                                *)
(***************************************************************************)
LEMMA NumberedSame ==
  ASSUME NEW q, NEW M, NEW S, NEW N, NEW T, Numbered(q, M, S),
         \A p \in Threads : N[p] = M[p] /\ T[p] = S[p]
  PROVE  Numbered(q, N, T)
BY DEF Numbered, IsMessage

-----------------------------------------------------------------------------
(* The bytes accepted *)

LEMMA SameCardinality == \A S : Stream!Cardinality(S) = Cardinality(S)
BY DEF Stream!Cardinality, Cardinality, Stream!IsFiniteSet, IsFiniteSet

Starts(s, p) == {i \in DOMAIN s : s[i][1] = p /\ s[i][3] = 1}

LEMMA MessagesOfIs == \A p : Stream!MessagesOf(p) = Cardinality(Starts(accepted, p))
BY SameCardinality DEF Stream!MessagesOf, Starts

(***************************************************************************)
(* A message that is accepted is one more of its caller, and of no other.  *)
(***************************************************************************)
LEMMA OneMore ==
  ASSUME NEW B, NEW s \in Seq(B), NEW p, NEW k, NEW size \in Nat \ {0}, NEW r
  PROVE  /\ IsFiniteSet(Starts(s, r))
         /\ Cardinality(Starts(s, r)) \in Nat
         /\ Cardinality(Starts(s \o Message(p, k, size), r)) =
              IF r = p THEN Cardinality(Starts(s, r)) + 1 ELSE Cardinality(Starts(s, r))
<1>. DEFINE m == Message(p, k, size)
            u == s \o m
            n == Len(s)
<1>1. n \in Nat /\ DOMAIN s = 1 .. n
  OBVIOUS
<1>2. /\ m \in Seq({<<p, k, i>> : i \in 1 .. size})
      /\ Len(m) = size
      /\ \A i \in 1 .. size : m[i] = <<p, k, i>>
  BY DEF Message
<1>3. /\ DOMAIN u = 1 .. n + size
      /\ \A i \in 1 .. n : u[i] = s[i]
      /\ \A i \in 1 .. size : u[n + i] = m[i]
  <2>. DEFINE C == B \cup {<<p, k, i>> : i \in 1 .. size}
  <2>a. s \in Seq(C) /\ m \in Seq(C)
    BY <1>2
  <2>. HIDE DEF C, m
  <2>1. /\ u \in Seq(C)
        /\ Len(u) = n + size
        /\ \A i \in 1 .. n + size : u[i] = IF i <= n THEN s[i] ELSE m[i - n]
    BY <2>a, <1>2, ConcatProperties, ZenonT(40)
  <2>2. DOMAIN u = 1 .. n + size
    BY <2>1
  <2>3. \A i \in 1 .. n : i \in 1 .. n + size /\ i <= n
    BY <1>1
  <2>4. \A i \in 1 .. size : n + i \in 1 .. n + size /\ ~ (n + i <= n) /\ (n + i) - n = i
    BY <1>1
  <2>. QED
    BY <2>1, <2>2, <2>3, <2>4
<1>. HIDE DEF u, m, n
<1>4. IsFiniteSet(Starts(s, r))
  <2>1. IsFiniteSet(1 .. n)
    BY <1>1, FS_Interval
  <2>. QED
    BY <1>1, <2>1, FS_Subset DEF Starts
<1>5. Cardinality(Starts(s, r)) \in Nat
  BY <1>4, FS_CardinalityType
<1>6. n + 1 \in DOMAIN u /\ u[n + 1][1] = p /\ u[n + 1][3] = 1 /\ n + 1 \notin DOMAIN s
  <2>1. 1 \in 1 .. size /\ n + 1 \in 1 .. n + size /\ n + 1 \notin 1 .. n
    BY <1>1
  <2>2. u[n + 1] = <<p, k, 1>>
    BY <1>2, <1>3, <2>1
  <2>. QED
    BY <1>1, <1>3, <2>1, <2>2
<1>7. \A i \in DOMAIN s : i \in DOMAIN u /\ u[i] = s[i]
  BY <1>1, <1>3
<1>8. ASSUME NEW i \in DOMAIN u, i \notin DOMAIN s, i # n + 1
      PROVE  u[i][1] = p /\ u[i][3] # 1
  <2>1. i - n \in 1 .. size /\ n + (i - n) = i /\ i - n # 1
    BY <1>1, <1>3, <1>8
  <2>2. u[i] = <<p, k, i - n>>
    BY <1>2, <1>3, <2>1
  <2>. QED
    BY <2>1, <2>2
<1>9. Starts(u, r) = IF r = p THEN Starts(s, r) \cup {n + 1} ELSE Starts(s, r)
  BY <1>6, <1>7, <1>8 DEF Starts
<1>10. n + 1 \notin Starts(s, r)
  BY <1>6 DEF Starts
<1>11. Cardinality(Starts(u, r)) =
         IF r = p THEN Cardinality(Starts(s, r)) + 1 ELSE Cardinality(Starts(s, r))
  BY <1>4, <1>9, <1>10, FS_AddElement
<1>. QED
  BY <1>4, <1>5, <1>11 DEF u, m

(***************************************************************************)
(* A sequence is what is written of it and what is kept.                   *)
(***************************************************************************)
LEMMA SplitSequence ==
  ASSUME NEW B, NEW s \in Seq(B), NEW n \in 0 .. Len(s)
  PROVE  /\ SubSeq(s, 1, n) \in Seq(B)
         /\ Len(SubSeq(s, 1, n)) = n
         /\ SubSeq(s, n + 1, Len(s)) \in Seq(B)
         /\ Len(SubSeq(s, n + 1, Len(s))) = Len(s) - n
         /\ SubSeq(s, 1, n) \o SubSeq(s, n + 1, Len(s)) = s
<1>. DEFINE l == Len(s)
            a == SubSeq(s, 1, n)
            b == SubSeq(s, n + 1, l)
<1>1. l \in Nat /\ DOMAIN s = 1 .. l /\ n \in Nat /\ n <= l
  OBVIOUS
<1>2. /\ a \in Seq(B)
      /\ Len(a) = n
      /\ \A i \in 1 .. n : a[i] = s[i]
  OBVIOUS
<1>3. /\ b \in Seq(B)
      /\ Len(b) = l - n
      /\ \A i \in 1 .. l - n : b[i] = s[n + i]
  OBVIOUS
<1>. HIDE DEF a, b, l
<1>4. /\ a \o b \in Seq(B)
      /\ Len(a \o b) = l
      /\ \A i \in 1 .. l : (a \o b)[i] = s[i]
  <2>1. /\ a \o b \in Seq(B)
        /\ Len(a \o b) = n + (l - n)
        /\ \A i \in 1 .. n + (l - n) : (a \o b)[i] = IF i <= n THEN a[i] ELSE b[i - n]
    <3>1. a \in Seq(B) /\ b \in Seq(B)
      BY <1>2, <1>3
    <3>2. /\ a \o b \in Seq(B)
          /\ Len(a \o b) = Len(a) + Len(b)
          /\ \A i \in 1 .. Len(a) + Len(b) :
               (a \o b)[i] = IF i <= Len(a) THEN a[i] ELSE b[i - Len(a)]
      BY <3>1, ConcatProperties, ZenonT(30)
    <3>3. Len(a) = n /\ Len(b) = l - n
      BY <1>2, <1>3
    <3>. QED
      BY <3>2, <3>3, ZenonT(30)
  <2>2. n + (l - n) = l
    BY <1>1
  <2>3. ASSUME NEW i \in 1 .. l PROVE (a \o b)[i] = s[i]
    <3>1. CASE i <= n
      <4>1. i \in 1 .. n
        BY <1>1, <3>1
      <4>. QED
        BY <1>2, <2>1, <2>2, <3>1, <4>1
    <3>2. CASE ~ (i <= n)
      <4>1. i - n \in 1 .. l - n /\ n + (i - n) = i
        BY <1>1, <3>2
      <4>. QED
        BY <1>3, <2>1, <2>2, <3>2, <4>1
    <3>. QED
      BY <3>1, <3>2
  <2>. QED
    BY <2>1, <2>2, <2>3
<1>5. a \o b = s
  BY <1>1, <1>4, SeqEqual DEF l
<1>. QED
  BY <1>2, <1>3, <1>5 DEF a, b, l

LEMMA PrefixOfConcat ==
  ASSUME NEW B, NEW s \in Seq(B), NEW u \in Seq(B)
  PROVE  Stream!IsPrefix(s, s \o u)
<1>1. Len(s) \in Nat /\ Len(u) \in Nat /\ Len(s \o u) = Len(s) + Len(u)
  OBVIOUS
<1>2. SubSeq(s \o u, 1, Len(s)) = s /\ SubSeq(s, 1, Len(s)) = s
  OBVIOUS
<1>. QED
  BY <1>1, <1>2 DEF Stream!IsPrefix

-----------------------------------------------------------------------------
(* Writing *)

LEMMA Regroup == \A s, t, u \in Seq(Byte) : s \o (t \o u) = (s \o t) \o u
BY ConcatAssociative, SMTT(30)

LEMMA Join == \A s, t \in Seq(Byte) : s \o t \in Seq(Byte) /\ Len(s \o t) = Len(s) + Len(t)
BY ConcatProperties

LEMMA TakenFacts ==
  ASSUME NEW k \in Nat, sock \in 0 .. SockSize, NEW n \in Taken(k)
  PROVE  n \in 0 .. k /\ sock + n \in 0 .. SockSize /\ (fin => n = 0)
BY TcpConnectionConstants DEF Taken

(***************************************************************************)
(* What is written of a message, kept of it and told.                      *)
(***************************************************************************)
LEMMA SendEffect ==
  ASSUME TypeOK, Writes, NEW m \in Seq(Byte), m # <<>>, SendInLoop(m)
  PROVE  /\ accepted' = accepted \o m
         /\ accepted' \in Seq(Byte) /\ written' \in Seq(Byte) /\ output' \in Seq(Byte)
         /\ written' \o output' = accepted'
         /\ \E d \in Seq(Byte) : written' = written \o d
         /\ fin => written' = written
         /\ sock' \in 0 .. SockSize
         /\ writing' \in BOOLEAN
         /\ told' \in 0 .. Len(written')
         /\ pending' = pending \/ pending' = Append(pending, Call("complete", <<>>))
         /\ Writes'
         /\ Tells \/ UNCHANGED <<told, pending>>
<1>1. PICK n \in DirectlyWritten(m) :
        /\ written' = written \o SubSeq(m, 1, n)
        /\ sock' = sock + n
        /\ KeepRest(m, n)
        /\ accepted' = accepted \o m
        /\ IF n = Len(m) THEN WriteCompletes ELSE UNCHANGED <<pending, told>>
  BY DEF SendInLoop
<1>2. /\ written \in Seq(Byte) /\ output \in Seq(Byte) /\ accepted \in Seq(Byte)
      /\ written \o output = accepted
      /\ sock \in 0 .. SockSize
      /\ told \in 0 .. Len(written)
      /\ writing \in BOOLEAN
  BY DEF TypeOK
<1>s. written \in Seq(Byte) /\ output \in Seq(Byte) /\ accepted \in Seq(Byte)
  BY <1>2
<1>3. Len(m) \in Nat /\ Len(m) >= 1
  OBVIOUS
<1>4. /\ n \in 0 .. Len(m)
      /\ sock + n \in 0 .. SockSize
      /\ fin => n = 0
      /\ output # <<>> => n = 0
  <2>1. CASE writing \/ output # <<>>
    <3>1. n = 0
      BY <2>1 DEF DirectlyWritten
    <3>. QED
      BY <1>2, <1>3, <3>1
  <2>2. CASE ~ (writing \/ output # <<>>)
    <3>1. n \in Taken(Len(m))
      BY <2>2 DEF DirectlyWritten
    <3>. QED
      BY <1>2, <1>3, <2>2, <3>1, TakenFacts
  <2>. QED
    BY <2>1, <2>2
<1>a. PICK a \in Seq(Byte), b \in Seq(Byte) :
         a = SubSeq(m, 1, n) /\ b = SubSeq(m, n + 1, Len(m)) /\ Len(a) = n
         /\ Len(b) = Len(m) - n /\ a \o b = m
  <2>. DEFINE c == SubSeq(m, 1, n)
              d == SubSeq(m, n + 1, Len(m))
  <2>1. /\ c \in Seq(Byte) /\ d \in Seq(Byte)
        /\ Len(c) = n /\ Len(d) = Len(m) - n /\ c \o d = m
    BY <1>4, SplitSequence
  <2>. HIDE DEF c, d
  <2>2. \E a \in Seq(Byte), b \in Seq(Byte) :
          a = c /\ b = d /\ Len(a) = n /\ Len(b) = Len(m) - n /\ a \o b = m
    BY <2>1
  <2>. QED
    BY <2>2 DEF c, d
<1>5. Len(a) = n /\ Len(b) = Len(m) - n /\ a \o b = m
  BY <1>a
<1>6. output' = output \o b /\ writing' = (writing \/ n < Len(m))
  BY <1>1, <1>a DEF KeepRest
<1>7. written' = written \o a
  BY <1>1, <1>a
<1>8. accepted' \in Seq(Byte) /\ written' \in Seq(Byte) /\ output' \in Seq(Byte)
  <2>1. accepted \o m \in Seq(Byte) /\ written \o a \in Seq(Byte) /\ output \o b \in Seq(Byte)
    BY <1>2, Join
  <2>. QED
    BY <1>1, <1>6, <1>7, <2>1
<1>9. written' \o output' = accepted'
  <2>1. CASE n = 0
    <3>1. a = <<>>
      BY <1>5, <2>1
    <3>2. b = m /\ written' = written
      BY <1>2, <1>5, <1>7, <3>1, ConcatEmptySeq
    <3>3. written \o (output \o b) = (written \o output) \o b
      BY <1>s, Regroup, ZenonT(40)
    <3>. QED
      BY <1>1, <1>2, <1>6, <3>2, <3>3
  <2>2. CASE n # 0
    <3>1. output = <<>> /\ written = accepted
      BY <1>2, <1>4, <2>2, ConcatEmptySeq
    <3>2. output' = b
      BY <1>5, <1>6, <3>1, ConcatEmptySeq
    <3>3. (accepted \o a) \o b = accepted \o (a \o b)
      BY <1>s, Regroup, ZenonT(40)
    <3>. QED
      BY <1>1, <1>5, <1>7, <3>1, <3>2, <3>3
  <2>. QED
    BY <2>1, <2>2
<1>10. Len(written') = Len(written) + n /\ Len(output') = Len(output) + (Len(m) - n)
  <2>1. Len(written \o a) = Len(written) + Len(a) /\ Len(output \o b) = Len(output) + Len(b)
    BY <1>2, Join
  <2>. QED
    BY <1>5, <1>6, <1>7, <2>1
<1>11. Len(written) \in Nat /\ Len(output) \in Nat /\ n \in Nat /\ n <= Len(m)
  BY <1>2, <1>4
<1>12. fin => written' = written
  <2>1. n = 0 => a = <<>>
    BY <1>5
  <2>. QED
    BY <1>2, <1>4, <1>7, <2>1, ConcatEmptySeq
<1>13. (output' = <<>>) <=> (Len(output) = 0 /\ n = Len(m))
  <2>1. output' = <<>> <=> Len(output) + (Len(m) - n) = 0
    BY <1>8, <1>10, EmptySeq
  <2>. QED
    BY <1>3, <1>11, <2>1
<1>14. output = <<>> <=> Len(output) = 0
  BY <1>2, EmptySeq
<1>15. (output' = <<>>) <=> n = Len(m)
  BY <1>3, <1>4, <1>13, <1>14
<1>16. CASE n = Len(m)
  <2>1. told' = Len(written') /\ pending' = Append(pending, Call("complete", <<>>))
    BY <1>1, <1>16 DEF WriteCompletes
  <2>2. output' = <<>> /\ output = <<>> /\ writing = FALSE /\ writing' = FALSE
    <3>1. output = <<>>
      BY <1>13, <1>14, <1>15, <1>16
    <3>. QED
      BY <1>2, <1>6, <1>11, <1>15, <1>16, <3>1 DEF Writes
  <2>3. told' \in 0 .. Len(written')
    BY <1>10, <1>11, <2>1
  <2>4. Writes'
    BY <2>1, <2>2 DEF Writes
  <2>5. sock' \in 0 .. SockSize
    BY <1>1, <1>4
  <2>b. writing' \in BOOLEAN
    BY <2>2, Zenon
  <2>6. \E d \in Seq(Byte) : written' = written \o d
    BY <1>5, <1>7
  <2>7. Tells
    BY <1>2, <1>3, <1>10, <1>11, <1>16, <2>1, <2>2 DEF Tells
  <2>. QED
    BY <1>1, <1>8, <1>9, <1>12, <2>1, <2>2, <2>3, <2>4, <2>5, <2>6, <2>7, <2>b
<1>17. CASE n # Len(m)
  <2>1. told' = told /\ pending' = pending
    BY <1>1, <1>17
  <2>2. output' # <<>> /\ writing' = TRUE
    <3>1. n < Len(m)
      BY <1>3, <1>11, <1>17
    <3>. QED
      BY <1>6, <1>15, <1>17, <3>1
  <2>3. told' \in 0 .. Len(written')
    BY <1>2, <1>10, <1>11, <2>1
  <2>. QED
    BY <1>1, <1>4, <1>5, <1>7, <1>8, <1>9, <1>12, <2>1, <2>2, <2>3 DEF Writes
<1>. QED
  BY <1>16, <1>17

(***************************************************************************)
(* What the write callback writes of the output and leaves of it.          *)
(***************************************************************************)
LEMMA WriteEffect ==
  ASSUME TypeOK, Writes, WriteOutput
  PROVE  /\ written' \in Seq(Byte) /\ output' \in Seq(Byte)
         /\ written' \o output' = accepted
         /\ \E d \in Seq(Byte) : written' = written \o d
         /\ ~ fin
         /\ fin' \in BOOLEAN
         /\ fin' => output' = <<>>
         /\ sock' \in 0 .. SockSize
         /\ writing' \in BOOLEAN
         /\ told' \in 0 .. Len(written')
         /\ pending' = pending \/ pending' = Append(pending, Call("complete", <<>>))
         /\ Writes'
         /\ Tells \/ UNCHANGED <<told, pending>>
<1>1. PICK n \in Taken(Len(output)) \ {0} :
        /\ written' = written \o SubSeq(output, 1, n)
        /\ sock' = sock + n
        /\ output' = SubSeq(output, n + 1, Len(output))
        /\ writing' = (output' # <<>>)
        /\ IF writing' THEN UNCHANGED <<pending, told>> ELSE WriteCompletes
        /\ fin' = (fin \/ (~ writing' /\ state = "kDisconnecting"))
  BY DEF WriteOutput
<1>2. /\ written \in Seq(Byte) /\ output \in Seq(Byte) /\ accepted \in Seq(Byte)
      /\ written \o output = accepted
      /\ sock \in 0 .. SockSize
      /\ told \in 0 .. Len(written)
      /\ fin \in BOOLEAN
      /\ Len(output) \in Nat
  BY DEF TypeOK
<1>s. written \in Seq(Byte) /\ output \in Seq(Byte) /\ accepted \in Seq(Byte)
  BY <1>2
<1>3. n \in 0 .. Len(output) /\ sock + n \in 0 .. SockSize /\ ~ fin
  BY <1>1, <1>2, TakenFacts
<1>a. PICK a \in Seq(Byte), b \in Seq(Byte) :
         a = SubSeq(output, 1, n) /\ b = SubSeq(output, n + 1, Len(output))
         /\ Len(a) = n /\ a \o b = output
  <2>. DEFINE c == SubSeq(output, 1, n)
              d == SubSeq(output, n + 1, Len(output))
  <2>1. c \in Seq(Byte) /\ d \in Seq(Byte) /\ Len(c) = n /\ c \o d = output
    BY <1>2, <1>3, SplitSequence
  <2>. HIDE DEF c, d
  <2>2. \E a \in Seq(Byte), b \in Seq(Byte) :
          a = c /\ b = d /\ Len(a) = n /\ a \o b = output
    BY <2>1
  <2>. QED
    BY <2>2 DEF c, d
<1>4. Len(a) = n /\ a \o b = output
  BY <1>a
<1>5. written' = written \o a /\ output' = b
  BY <1>1, <1>a
<1>6. written' \in Seq(Byte) /\ output' \in Seq(Byte) /\ Len(written') = Len(written) + n
  BY <1>2, <1>4, <1>5, Join
<1>7. written' \o output' = accepted
  <2>1. (written \o a) \o b = written \o (a \o b)
    BY <1>s, Regroup, ZenonT(40)
  <2>. QED
    BY <1>2, <1>4, <1>5, <2>1
<1>8. Len(written) \in Nat /\ n \in Nat
  BY <1>2, <1>3
<1>9. CASE output' = <<>>
  <2>1. told' = Len(written') /\ pending' = Append(pending, Call("complete", <<>>))
    BY <1>1, <1>9 DEF WriteCompletes
  <2>2. told' \in 0 .. Len(written')
    BY <1>6, <1>8, <2>1
  <2>3. writing' = FALSE /\ fin' \in BOOLEAN
    BY <1>1, <1>2, <1>9
  <2>4. Tells
    BY <1>1, <1>2, <1>6, <1>8, <1>9, <2>1 DEF Tells
  <2>. QED
    BY <1>1, <1>3, <1>4, <1>5, <1>6, <1>7, <1>9, <2>1, <2>2, <2>3, <2>4 DEF Writes
<1>10. CASE output' # <<>>
  <2>1. writing' = TRUE /\ told' = told /\ pending' = pending /\ ~ fin'
    BY <1>1, <1>3, <1>10
  <2>2. told' \in 0 .. Len(written')
    BY <1>2, <1>6, <1>8, <2>1
  <2>3. fin' \in BOOLEAN
    BY <1>1, <1>2
  <2>. QED
    BY <1>1, <1>3, <1>4, <1>5, <1>6, <1>7, <1>10, <2>1, <2>2, <2>3 DEF Writes
<1>. QED
  BY <1>9, <1>10

-----------------------------------------------------------------------------
(* The steps that accept no message *)

LEMMA FunctorFacts ==
  /\ Call("complete", <<>>) \in Functor /\ Call("complete", <<>>).op # "send"
  /\ Call("shutdown", <<>>) \in Functor /\ Call("shutdown", <<>>).op # "send"
BY DEF Call, Functor

LEMMA QueueType == TypeOK => Queue \in Seq(Functor)
BY DEF TypeOK, Queue

LEMMA CountedSame == accepted' = accepted => Counted' = Counted
BY DEF Counted, Stream!MessagesOf

(***************************************************************************)
(* What is queued besides messages may come and go.                        *)
(***************************************************************************)
LEMMA QueuedKept ==
  ASSUME TypeOK, Queued, accepted' = accepted, sends' = sends,
         \/ Queue' = Queue
         \/ \E f \in Functor : f.op # "send" /\ Queue' = Append(Queue, f)
         \/ Queue # <<>> /\ Head(Queue).op # "send" /\ Queue' = Tail(Queue)
  PROVE  Queued'
<1>1. Queue \in Seq(Functor) /\ Numbered(Queue, Counted, sends)
  BY QueueType DEF Queued
<1>2. Numbered(Queue', Counted, sends)
  <2>1. CASE Queue' = Queue
    BY <1>1, <2>1
  <2>2. CASE \E f \in Functor : f.op # "send" /\ Queue' = Append(Queue, f)
    <3>1. PICK f \in Functor : f.op # "send" /\ Queue' = Append(Queue, f)
      BY <2>2
    <3>2. Numbered(Append(Queue, f), Counted, sends)
      BY <1>1, <3>1, NumberedAppend
    <3>. QED
      BY <3>1, <3>2
  <2>3. CASE Queue # <<>> /\ Head(Queue).op # "send" /\ Queue' = Tail(Queue)
    <3>1. Numbered(Tail(Queue), Counted, sends)
      BY <1>1, <2>3, NumberedTail
    <3>. QED
      BY <2>3, <3>1
  <2>. QED
    BY <2>1, <2>2, <2>3
<1>3. Counted' = Counted
  BY CountedSame
<1>. QED
  BY <1>2, <1>3 DEF Queued

LEMMA TypeFacts ==
  ASSUME TypeOK
  PROVE  pending \in Seq(Functor) /\ batch \in Seq(Functor)
BY DEF TypeOK

LEMMA InitHolds == Init => Inv
<1>. SUFFICES ASSUME Init PROVE Inv
  OBVIOUS
<1>1. TypeOK
  <2>1. sends \in [Callers -> 0 .. MaxSends] /\ sock \in 0 .. SockSize
    BY TcpConnectionConstants DEF Init
  <2>2. written \in Seq(Byte) /\ accepted \in Seq(Byte) /\ output \in Seq(Byte)
    BY DEF Init
  <2>3. written \o output = accepted /\ told \in 0 .. Len(written)
    <3>1. Len(<<>>) = 0 /\ <<>> \o <<>> = <<>>
      OBVIOUS
    <3>. QED
      BY <3>1 DEF Init
  <2>4. pending \in Seq(Functor) /\ batch \in Seq(Functor)
    BY DEF Init
  <2>5. tpc \in [Threads -> {"out", "send", "set", "shutdown"}]
    BY DEF Init
  <2>6. writing \in BOOLEAN /\ fin \in BOOLEAN /\ unread \in BOOLEAN /\ user \in BOOLEAN
    BY DEF Init
  <2>7. state \in {"kConnected", "kDisconnecting"} /\ phase \in {"events", "functors"}
        /\ revents \subseteq {"in", "out"}
    BY DEF Init
  <2>. QED
    BY <2>1, <2>2, <2>3, <2>4, <2>5, <2>6, <2>7 DEF TypeOK
<1>2. Queue = <<>>
  BY DEF Init, Queue
<1>3. Counted = [p \in Callers |-> 0]
  <2>1. \A p : Starts(accepted, p) = {}
    BY DEF Init, Starts
  <2>2. \A p : Stream!MessagesOf(p) = 0
    BY <2>1, MessagesOfIs, FS_EmptySet
  <2>. QED
    BY <2>2 DEF Counted
<1>4. sends = [p \in Callers |-> 0]
  BY DEF Init
<1>5. Numbered(Queue, Counted, sends)
  <2>1. \A p \in Threads : Counted[p] = 0 /\ sends[p] = 0
    BY <1>3, <1>4 DEF Callers
  <2>2. DOMAIN Queue = {}
    BY <1>2
  <2>. QED
    BY <2>1, <2>2 DEF Numbered
<1>6. Queued
  BY <1>3, <1>4, <1>5 DEF Queued, Callers
<1>7. Phases /\ Writes /\ MaySend
  BY DEF Init, Phases, Writes, MaySend
<1>. QED
  BY <1>1, <1>6, <1>7 DEF Inv

LEMMA PeerReadsKeeps == ASSUME Inv, PeerReads PROVE Inv'
<1>1. TypeOK'
  <2>1. sock' \in 0 .. SockSize
    BY TcpConnectionConstants DEF Inv, TypeOK, PeerReads
  <2>. QED
    BY <2>1 DEF Inv, TypeOK, PeerReads, loopVars, userVars
<1>2. Queued'
  BY QueuedKept DEF Inv, PeerReads, loopVars, userVars, Queue
<1>3. Phases' /\ Writes' /\ MaySend'
  BY DEF Inv, Phases, Writes, MaySend, PeerReads, loopVars, userVars
<1>. QED
  BY <1>1, <1>2, <1>3 DEF Inv

LEMMA PeerSendsKeeps == ASSUME Inv, PeerSends PROVE Inv'
<1>1. TypeOK'
  BY DEF Inv, TypeOK, PeerSends, outVars, loopVars, userVars
<1>2. Queued'
  BY QueuedKept DEF Inv, PeerSends, outVars, loopVars, userVars, Queue
<1>3. Phases' /\ Writes' /\ MaySend'
  BY DEF Inv, Phases, Writes, MaySend, PeerSends, outVars, loopVars, userVars
<1>. QED
  BY <1>1, <1>2, <1>3 DEF Inv

LEMMA PollKeeps == ASSUME Inv, Poll PROVE Inv'
<1>1. TypeOK'
  BY DEF Inv, TypeOK, Poll, Ready, outVars, userVars
<1>2. Queued'
  BY QueuedKept DEF Inv, Poll, outVars, userVars, Queue
<1>3. Phases' /\ Writes' /\ MaySend'
  BY DEF Inv, Phases, Writes, MaySend, Poll, outVars, userVars
<1>. QED
  BY <1>1, <1>2, <1>3 DEF Inv

LEMMA TakeFunctorsKeeps == ASSUME Inv, TakeFunctors PROVE Inv'
<1>1. TypeOK'
  BY DEF Inv, TypeOK, TakeFunctors, outVars, userVars
<1>2. Queued'
  <2>1. batch = <<>> /\ batch' = pending /\ pending' = <<>>
    BY DEF Inv, Phases, TakeFunctors
  <2>2. <<>> \o pending = pending /\ pending \o <<>> = pending
    BY TypeFacts, ConcatEmptySeq DEF Inv
  <2>3. Queue' = Queue
    BY <2>1, <2>2 DEF Queue
  <2>. QED
    BY <2>3, QueuedKept DEF Inv, TakeFunctors, outVars, userVars
<1>3. Phases' /\ Writes' /\ MaySend'
  BY DEF Inv, Phases, Writes, MaySend, TakeFunctors, outVars, userVars
<1>. QED
  BY <1>1, <1>2, <1>3 DEF Inv

LEMMA HandleReadKeeps == ASSUME Inv, HandleRead PROVE Inv'
<1>1. TypeOK'
  BY DEF Inv, TypeOK, HandleRead, outVars, userVars
<1>2. Queued'
  BY QueuedKept DEF Inv, HandleRead, outVars, userVars, Queue
<1>3. Phases' /\ Writes' /\ MaySend'
  BY DEF Inv, Phases, Writes, MaySend, HandleRead, outVars, userVars
<1>. QED
  BY <1>1, <1>2, <1>3 DEF Inv

LEMMA CallbackReturnsKeeps == ASSUME Inv, CallbackReturns PROVE Inv'
<1>1. TypeOK'
  BY DEF Inv, TypeOK, CallbackReturns, outVars, userVars
<1>2. Queued'
  BY QueuedKept DEF Inv, CallbackReturns, outVars, userVars, Queue
<1>3. Phases' /\ Writes' /\ MaySend'
  BY DEF Inv, Phases, Writes, MaySend, CallbackReturns, outVars, userVars
<1>. QED
  BY <1>1, <1>2, <1>3 DEF Inv

LEMMA UserShutdownKeeps == ASSUME Inv, UserShutdown PROVE Inv'
<1>1. TypeOK'
  BY DEF Inv, TypeOK, UserShutdown, ShutdownInLoop, outVars, loopVars, userVars
<1>2. Queued'
  BY QueuedKept DEF Inv, UserShutdown, outVars, loopVars, userVars, Queue
<1>3. Phases' /\ Writes' /\ MaySend'
  BY DEF Inv, Phases, Writes, MaySend, UserShutdown, outVars, loopVars, userVars
<1>. QED
  BY <1>1, <1>2, <1>3 DEF Inv

(***************************************************************************)
(* A functor that the loop calls is the first of the queue.                *)
(***************************************************************************)
LEMMA CallingTakesHead ==
  ASSUME TypeOK, NEW op, Calling(op)
  PROVE  /\ Queue # <<>>
         /\ Head(Queue) = Head(batch) /\ Head(Queue).op = op
         /\ batch' \in Seq(Functor)
         /\ Tail(Queue) = batch' \o pending
         /\ batch # <<>>
<1>1. pending \in Seq(Functor) /\ batch \in Seq(Functor)
  BY TypeFacts
<1>2. batch # <<>> /\ Head(batch).op = op /\ batch' = Tail(batch)
  BY DEF Calling
<1>3. /\ Queue # <<>>
      /\ Head(Queue) = Head(batch)
      /\ Tail(Queue) = Tail(batch) \o pending
  BY <1>1, <1>2, TailOfConcat DEF Queue
<1>4. Tail(batch) \in Seq(Functor)
  BY <1>1, <1>2, HeadTailProperties
<1>. QED
  BY <1>2, <1>3, <1>4

LEMMA CallShutdownKeeps == ASSUME Inv, CallShutdown PROVE Inv'
<1>0. TypeOK /\ Calling("shutdown")
  BY DEF Inv, CallShutdown
<1>a. /\ Queue # <<>> /\ Head(Queue).op = "shutdown"
      /\ batch' \in Seq(Functor)
      /\ Tail(Queue) = batch' \o pending
      /\ batch # <<>>
  BY <1>0, CallingTakesHead
<1>1. TypeOK'
  BY <1>a DEF Inv, TypeOK, CallShutdown, ShutdownInLoop, outVars, userVars
<1>2. Queued'
  <2>1. Queue' = Tail(Queue)
    BY <1>a DEF Queue, CallShutdown
  <2>2. Head(Queue).op # "send"
    BY <1>a
  <2>. QED
    BY <1>a, <2>1, <2>2, QueuedKept DEF Inv, CallShutdown, outVars, userVars
<1>3. Phases' /\ Writes' /\ MaySend'
  BY <1>a DEF Inv, Phases, Writes, MaySend, CallShutdown, outVars, userVars
<1>. QED
  BY <1>1, <1>2, <1>3 DEF Inv

LEMMA CallWriteCompleteKeeps == ASSUME Inv, CallWriteComplete PROVE Inv'
<1>0. TypeOK /\ Calling("complete")
  BY DEF Inv, CallWriteComplete
<1>a. /\ Queue # <<>> /\ Head(Queue).op = "complete"
      /\ batch' \in Seq(Functor)
      /\ Tail(Queue) = batch' \o pending
      /\ batch # <<>>
  BY <1>0, CallingTakesHead
<1>1. TypeOK'
  BY <1>a DEF Inv, TypeOK, CallWriteComplete, outVars, userVars
<1>2. Queued'
  <2>1. Queue' = Tail(Queue)
    BY <1>a DEF Queue, CallWriteComplete
  <2>2. Head(Queue).op # "send"
    BY <1>a
  <2>. QED
    BY <1>a, <2>1, <2>2, QueuedKept DEF Inv, CallWriteComplete, outVars, userVars
<1>3. Phases' /\ Writes' /\ MaySend'
  BY <1>a DEF Inv, Phases, Writes, MaySend, CallWriteComplete, outVars, userVars
<1>. QED
  BY <1>1, <1>2, <1>3 DEF Inv

LEMMA HandleWriteKeeps == ASSUME Inv, HandleWrite PROVE Inv'
<1>0. TypeOK /\ Queued /\ Phases /\ Writes /\ MaySend
  BY DEF Inv
<1>1. /\ revents' = {}
      /\ UNCHANGED <<state, accepted, unread, phase, batch, user, userVars>>
  BY DEF HandleWrite
<1>2. CASE UNCHANGED <<writing, output, sock, written, told, fin, pending>>
  <2>1. TypeOK'
    BY <1>0, <1>1, <1>2 DEF TypeOK, userVars
  <2>2. Queued'
    BY <1>0, <1>1, <1>2, QueuedKept DEF userVars, Queue
  <2>3. Phases' /\ Writes' /\ MaySend'
    BY <1>0, <1>1, <1>2 DEF Phases, Writes, MaySend, userVars
  <2>. QED
    BY <2>1, <2>2, <2>3 DEF Inv
<1>3. CASE WriteOutput
  <2>1. /\ written' \in Seq(Byte) /\ output' \in Seq(Byte)
        /\ written' \o output' = accepted
        /\ fin' \in BOOLEAN
        /\ sock' \in 0 .. SockSize
        /\ writing' \in BOOLEAN
        /\ told' \in 0 .. Len(written')
        /\ pending' = pending \/ pending' = Append(pending, Call("complete", <<>>))
        /\ Writes'
    BY <1>0, <1>3, WriteEffect
  <2>2. pending \in Seq(Functor) /\ batch \in Seq(Functor)
    BY <1>0, TypeFacts
  <2>a. Append(pending, Call("complete", <<>>)) \in Seq(Functor)
    BY <2>2, FunctorFacts, AppendProperties
  <2>3. pending' \in Seq(Functor)
    BY <2>1, <2>2, <2>a
  <2>4. TypeOK'
    BY <1>0, <1>1, <2>1, <2>3 DEF TypeOK, userVars
  <2>5. Queued'
    <3>1. Queue' = Queue \/ Queue' = Append(Queue, Call("complete", <<>>))
      <4>1. batch \o Append(pending, Call("complete", <<>>)) = Append(Queue, Call("complete", <<>>))
        BY <2>2, FunctorFacts, AppendToConcat DEF Queue
      <4>. QED
        BY <1>1, <2>1, <4>1 DEF Queue
    <3>. QED
      BY <1>0, <1>1, <3>1, FunctorFacts, QueuedKept DEF userVars
  <2>6. Phases' /\ MaySend'
    BY <1>0, <1>1 DEF Phases, MaySend, userVars
  <2>. QED
    BY <2>1, <2>4, <2>5, <2>6 DEF Inv
<1>. QED
  BY <1>2, <1>3 DEF HandleWrite

LEMMA ThreadTestsKeeps == ASSUME Inv, NEW t \in Threads, ThreadTests(t) PROVE Inv'
<1>1. TypeOK'
  BY DEF Inv, TypeOK, ThreadTests, outVars, loopVars
<1>2. Queued'
  BY QueuedKept DEF Inv, ThreadTests, outVars, loopVars, Queue
<1>3. Phases' /\ Writes'
  BY DEF Inv, Phases, Writes, ThreadTests, outVars, loopVars
<1>4. MaySend'
  BY DEF Inv, TypeOK, MaySend, ThreadTests
<1>. QED
  BY <1>1, <1>2, <1>3, <1>4 DEF Inv

LEMMA ThreadSetsStateKeeps == ASSUME Inv, NEW t \in Threads, ThreadSetsState(t) PROVE Inv'
<1>1. TypeOK'
  BY DEF Inv, TypeOK, ThreadSetsState, outVars, loopVars
<1>2. Queued'
  BY QueuedKept DEF Inv, ThreadSetsState, outVars, loopVars, Queue
<1>3. Phases' /\ Writes'
  BY DEF Inv, Phases, Writes, ThreadSetsState, outVars, loopVars
<1>4. MaySend'
  BY DEF Inv, TypeOK, MaySend, ThreadSetsState
<1>. QED
  BY <1>1, <1>2, <1>3, <1>4 DEF Inv

LEMMA ThreadShutsDownKeeps == ASSUME Inv, NEW t \in Threads, ThreadShutsDown(t) PROVE Inv'
<1>0. pending \in Seq(Functor) /\ batch \in Seq(Functor)
  BY TypeFacts DEF Inv
<1>1. TypeOK'
  <2>1. pending' \in Seq(Functor)
    BY <1>0, FunctorFacts DEF ThreadShutsDown
  <2>. QED
    BY <2>1 DEF Inv, TypeOK, ThreadShutsDown, outVars, loopVars
<1>2. Queued'
  <2>1. Queue' = Append(Queue, Call("shutdown", <<>>))
    BY <1>0, FunctorFacts, AppendToConcat DEF Queue, ThreadShutsDown, loopVars
  <2>. QED
    BY <2>1, FunctorFacts, QueuedKept DEF Inv, ThreadShutsDown, outVars
<1>3. Phases' /\ Writes'
  BY DEF Inv, Phases, Writes, ThreadShutsDown, outVars, loopVars
<1>4. MaySend'
  BY DEF Inv, TypeOK, MaySend, ThreadShutsDown
<1>. QED
  BY <1>1, <1>2, <1>3, <1>4 DEF Inv

-----------------------------------------------------------------------------
(* send() *)

LEMMA MessageType ==
  ASSUME NEW p \in Callers, NEW k \in 1 .. MaxSends, NEW size \in MessageSizes
  PROVE  Message(p, k, size) \in Seq(Byte) /\ Message(p, k, size) # <<>>
<1>1. size \in Nat /\ size >= 1
  BY TcpConnectionConstants
<1>2. \A i \in 1 .. size : <<p, k, i>> \in Byte
  BY <1>1 DEF Byte
<1>3. Message(p, k, size) \in [1 .. size -> Byte]
  BY <1>2 DEF Message
<1>4. Message(p, k, size) \in Seq(Byte) /\ Len(Message(p, k, size)) = size
  BY <1>1, <1>3
<1>. QED
  BY <1>1, <1>4

LEMMA ThreadSendsKeeps == ASSUME Inv, NEW t \in Threads, ThreadSends(t) PROVE Inv'
<1>0. pending \in Seq(Functor) /\ batch \in Seq(Functor) /\ Queue \in Seq(Functor)
  BY TypeFacts, QueueType DEF Inv
<1>1. PICK size \in MessageSizes : pending' = Append(pending, Call("send", NextMessage(t, size)))
  BY DEF ThreadSends
<1>2. /\ sends \in [Callers -> 0 .. MaxSends] /\ t \in Callers
      /\ sends[t] < MaxSends /\ sends[t] + 1 \in 1 .. MaxSends
      /\ tpc \in [Threads -> {"out", "send", "set", "shutdown"}]
  <2>1. sends \in [Callers -> 0 .. MaxSends] /\ t \in Callers
    BY DEF Inv, TypeOK, Callers
  <2>2. sends[t] < MaxSends
    BY DEF Inv, MaySend, ThreadSends
  <2>. QED
    BY <2>1, <2>2, TcpConnectionConstants DEF Inv, TypeOK
<1>. DEFINE f == Call("send", Message(t, sends[t] + 1, size))
<1>3. NextMessage(t, size) = Message(t, sends[t] + 1, size)
  BY DEF NextMessage, Message
<1>4. pending' = Append(pending, f)
  BY <1>1, <1>3
<1>5. f \in Functor /\ f.op = "send"
  BY <1>2, MessageType DEF Call, Functor
<1>6. IsMessage(f) /\ Who(f) = t /\ Nr(f) = sends[t] + 1
  BY <1>2, MessageIs
<1>. HIDE DEF f
<1>7. sends' = [sends EXCEPT ![t] = @ + 1]
  BY DEF ThreadSends
<1>8. TypeOK'
  <2>1. pending' \in Seq(Functor)
    BY <1>0, <1>4, <1>5, AppendProperties
  <2>2. sends' \in [Callers -> 0 .. MaxSends]
    BY <1>2, <1>7
  <2>3. tpc' \in [Threads -> {"out", "send", "set", "shutdown"}]
    BY <1>2 DEF ThreadSends
  <2>. QED
    BY <2>1, <2>2, <2>3 DEF Inv, TypeOK, ThreadSends, outVars, loopVars
<1>9. Queued'
  <2>1. Queue' = Append(Queue, f)
    BY <1>0, <1>4, <1>5, AppendToConcat DEF Queue, ThreadSends, loopVars
  <2>2. Counted \in [Callers -> Nat] /\ Numbered(Queue, Counted, sends) /\ Counted[InLoop] = sends[InLoop]
    BY DEF Inv, Queued
  <2>3. sends \in [Callers -> Nat]
    BY <1>2
  <2>4. Numbered(Append(Queue, f), Counted, [sends EXCEPT ![t] = @ + 1])
    BY <1>0, <1>5, <1>6, <2>2, <2>3, NumberedSend
  <2>5. Numbered(Queue', Counted, sends')
    BY <1>7, <2>1, <2>4
  <2>6. sends'[InLoop] = sends[InLoop]
    BY <1>2, <1>7, TcpConnectionConstants DEF Callers
  <2>7. Counted' = Counted
    BY CountedSame DEF ThreadSends, outVars
  <2>. QED
    BY <2>2, <2>5, <2>6, <2>7 DEF Queued
<1>10. Phases' /\ Writes'
  BY DEF Inv, Phases, Writes, ThreadSends, outVars, loopVars
<1>11. MaySend'
  BY <1>2, <1>7 DEF Inv, MaySend, ThreadSends, Callers
<1>. QED
  BY <1>8, <1>9, <1>10, <1>11 DEF Inv

(***************************************************************************)
(* The count of the messages accepted goes up by one, for their caller.    *)
(***************************************************************************)
LEMMA CountedMore ==
  ASSUME accepted \in Seq(Byte), NEW p \in Callers, NEW k, NEW size \in MessageSizes,
         accepted' = accepted \o Message(p, k, size)
  PROVE  /\ Counted \in [Callers -> Nat]
         /\ Counted' = [Counted EXCEPT ![p] = @ + 1]
         /\ Counted' \in [Callers -> Nat]
<1>1. size \in Nat \ {0}
  BY TcpConnectionConstants
<1>2. \A r : /\ Cardinality(Starts(accepted, r)) \in Nat
             /\ Cardinality(Starts(accepted', r)) =
                  IF r = p THEN Cardinality(Starts(accepted, r)) + 1
                  ELSE Cardinality(Starts(accepted, r))
  BY <1>1, OneMore
<1>3. Counted = [r \in Callers |-> Cardinality(Starts(accepted, r))]
  BY MessagesOfIs DEF Counted
<1>4. Counted' = [r \in Callers |-> Cardinality(Starts(accepted', r))]
  BY SameCardinality DEF Counted, Starts, Stream!MessagesOf
<1>5. Counted \in [Callers -> Nat]
  BY <1>2, <1>3
<1>6. Counted' = [Counted EXCEPT ![p] = @ + 1]
  BY <1>2, <1>3, <1>4
<1>. QED
  BY <1>5, <1>6

(***************************************************************************)
(* The first message in the queue is the next of its caller.               *)
(***************************************************************************)
LEMMA CallSendIs ==
  ASSUME Inv, CallSend
  PROVE  \E p \in Threads, size \in MessageSizes :
           /\ Head(batch).message = Message(p, Counted[p] + 1, size)
           /\ Message(p, Counted[p] + 1, size) \in Seq(Byte)
           /\ Message(p, Counted[p] + 1, size) # <<>>
           /\ SendInLoop(Message(p, Counted[p] + 1, size))
           /\ Numbered(Tail(Queue), [Counted EXCEPT ![p] = @ + 1], sends)
<1>0. TypeOK /\ Calling("send")
  BY DEF Inv, CallSend
<1>1. /\ Queue # <<>> /\ Head(Queue) = Head(batch) /\ Head(Queue).op = "send"
      /\ Queue \in Seq(Functor)
  BY <1>0, CallingTakesHead, QueueType
<1>2. /\ Counted \in [Callers -> Nat] /\ sends \in [Callers -> 0 .. MaxSends]
      /\ Numbered(Queue, Counted, sends)
  BY <1>0 DEF Inv, TypeOK, Queued
<1>3. sends \in [Callers -> Nat]
  BY <1>2
<1>4. /\ IsMessage(Head(Queue))
      /\ Nr(Head(Queue)) = Counted[Who(Head(Queue))] + 1
      /\ Numbered(Tail(Queue), [Counted EXCEPT ![Who(Head(Queue))] = @ + 1], sends)
  BY <1>1, <1>2, <1>3, NumberedAccept
<1>5. PICK p \in Threads : p = Who(Head(Queue))
  BY <1>4 DEF IsMessage
<1>6. PICK size \in MessageSizes : Head(Queue).message = Message(p, Counted[p] + 1, size)
  BY <1>4, <1>5 DEF IsMessage
<1>7. Head(Queue).message \in Seq(Byte)
  <2>1. Head(Queue) \in Functor
    BY <1>1, HeadTailProperties
  <2>. QED
    BY <2>1 DEF Functor
<1>8. Head(Queue).message # <<>>
  <2>1. size \in Nat /\ size >= 1
    BY TcpConnectionConstants
  <2>2. DOMAIN Message(p, Counted[p] + 1, size) = 1 .. size /\ 1 \in 1 .. size
    BY <2>1 DEF Message
  <2>3. 1 \in DOMAIN Head(Queue).message
    BY <1>6, <2>2
  <2>4. 1 \notin DOMAIN <<>>
    OBVIOUS
  <2>. QED
    BY <2>3, <2>4
<1>9. SendInLoop(Head(batch).message)
  BY DEF CallSend
<1>. QED
  BY <1>1, <1>4, <1>5, <1>6, <1>7, <1>8, <1>9

LEMMA CallSendKeeps == ASSUME Inv, CallSend PROVE Inv'
<1>0. TypeOK /\ Writes /\ Calling("send")
  BY DEF Inv, CallSend
<1>1. PICK p \in Threads, size \in MessageSizes :
           /\ Message(p, Counted[p] + 1, size) \in Seq(Byte)
           /\ Message(p, Counted[p] + 1, size) # <<>>
           /\ SendInLoop(Message(p, Counted[p] + 1, size))
           /\ Numbered(Tail(Queue), [Counted EXCEPT ![p] = @ + 1], sends)
  BY CallSendIs
<1>2. PICK m \in Seq(Byte) : m = Message(p, Counted[p] + 1, size)
  BY <1>1
<1>3. /\ accepted' = accepted \o m
      /\ accepted' \in Seq(Byte) /\ written' \in Seq(Byte) /\ output' \in Seq(Byte)
      /\ written' \o output' = accepted'
      /\ sock' \in 0 .. SockSize
      /\ writing' \in BOOLEAN
      /\ told' \in 0 .. Len(written')
      /\ pending' = pending \/ pending' = Append(pending, Call("complete", <<>>))
      /\ Writes'
  <2>1. m # <<>> /\ SendInLoop(m)
    BY <1>1, <1>2
  <2>. QED
    BY <1>0, <2>1, SendEffect
<1>4. batch' \in Seq(Functor) /\ Tail(Queue) = batch' \o pending /\ batch # <<>>
  BY <1>0, CallingTakesHead
<1>5. pending \in Seq(Functor) /\ Append(pending, Call("complete", <<>>)) \in Seq(Functor)
  BY <1>0, TypeFacts, FunctorFacts, AppendProperties
<1>6. TypeOK'
  <2>1. pending' \in Seq(Functor)
    BY <1>3, <1>5
  <2>. QED
    BY <1>0, <1>3, <1>4, <2>1 DEF TypeOK, CallSend, userVars
<1>7. Counted' = [Counted EXCEPT ![p] = @ + 1] /\ Counted' \in [Callers -> Nat]
      /\ Counted \in [Callers -> Nat] /\ p \in Callers
  BY <1>0, <1>2, <1>3, CountedMore DEF TypeOK, Callers
<1>8. Queue' = Tail(Queue) \/ Queue' = Append(Tail(Queue), Call("complete", <<>>))
  <2>1. batch' \o Append(pending, Call("complete", <<>>)) = Append(Tail(Queue), Call("complete", <<>>))
    <3>1. PICK b \in Seq(Functor) : b = batch'
      BY <1>4
    <3>2. b \o Append(pending, Call("complete", <<>>)) = Append(b \o pending, Call("complete", <<>>))
      BY <1>5, FunctorFacts, AppendToConcat
    <3>. QED
      BY <1>4, <3>1, <3>2
  <2>. QED
    BY <1>3, <1>4, <2>1 DEF Queue
<1>9. Numbered(Queue', Counted', sends)
  <2>1. Numbered(Tail(Queue), Counted', sends)
    BY <1>1, <1>7
  <2>2. Tail(Queue) \in Seq(Functor)
    BY <1>4, <1>5, ConcatProperties
  <2>3. Numbered(Append(Tail(Queue), Call("complete", <<>>)), Counted', sends)
    BY <2>1, <2>2, FunctorFacts, NumberedAppend
  <2>. QED
    BY <1>8, <2>1, <2>3
<1>10. Queued'
  <2>1. Counted'[InLoop] = Counted[InLoop]
    BY <1>7, TcpConnectionConstants DEF Callers
  <2>. QED
    BY <1>7, <1>9, <2>1 DEF Inv, Queued, CallSend, userVars
<1>11. Phases' /\ MaySend'
  BY <1>4 DEF Inv, Phases, MaySend, CallSend, userVars
<1>. QED
  BY <1>3, <1>6, <1>10, <1>11 DEF Inv

(***************************************************************************)
(* What a callback sends is the next message of the loop.                  *)
(***************************************************************************)
LEMMA UserSendIs ==
  ASSUME Inv, UserSend
  PROVE  \E size \in MessageSizes :
           /\ Message(InLoop, Counted[InLoop] + 1, size) \in Seq(Byte)
           /\ Message(InLoop, Counted[InLoop] + 1, size) # <<>>
           /\ SendInLoop(Message(InLoop, Counted[InLoop] + 1, size))
<1>1. PICK size \in MessageSizes : SendInLoop(NextMessage(InLoop, size))
  BY DEF UserSend
<1>2. Counted[InLoop] = sends[InLoop] /\ InLoop \in Callers
  BY DEF Inv, Queued, Callers
<1>3. NextMessage(InLoop, size) = Message(InLoop, Counted[InLoop] + 1, size)
  BY <1>2 DEF NextMessage, Message
<1>4. sends[InLoop] + 1 \in 1 .. MaxSends
  BY <1>2, TcpConnectionConstants DEF Inv, TypeOK, UserSend
<1>. QED
  BY <1>1, <1>2, <1>3, <1>4, MessageType

LEMMA UserSendKeeps == ASSUME Inv, UserSend PROVE Inv'
<1>0. TypeOK /\ Writes
  BY DEF Inv
<1>1. PICK size \in MessageSizes :
           /\ Message(InLoop, Counted[InLoop] + 1, size) \in Seq(Byte)
           /\ Message(InLoop, Counted[InLoop] + 1, size) # <<>>
           /\ SendInLoop(Message(InLoop, Counted[InLoop] + 1, size))
  BY UserSendIs
<1>2. PICK m \in Seq(Byte) : m = Message(InLoop, Counted[InLoop] + 1, size)
  BY <1>1
<1>3. /\ accepted' = accepted \o m
      /\ accepted' \in Seq(Byte) /\ written' \in Seq(Byte) /\ output' \in Seq(Byte)
      /\ written' \o output' = accepted'
      /\ sock' \in 0 .. SockSize
      /\ writing' \in BOOLEAN
      /\ told' \in 0 .. Len(written')
      /\ pending' = pending \/ pending' = Append(pending, Call("complete", <<>>))
      /\ Writes'
  <2>1. m # <<>> /\ SendInLoop(m)
    BY <1>1, <1>2
  <2>. QED
    BY <1>0, <2>1, SendEffect
<1>4. /\ sends' = [sends EXCEPT ![InLoop] = @ + 1]
      /\ sends[InLoop] < MaxSends
      /\ sends \in [Callers -> 0 .. MaxSends] /\ InLoop \in Callers
  BY DEF Inv, TypeOK, Callers, UserSend
<1>5. pending \in Seq(Functor) /\ batch \in Seq(Functor) /\ Queue \in Seq(Functor)
      /\ Append(pending, Call("complete", <<>>)) \in Seq(Functor)
  BY <1>0, TypeFacts, QueueType, FunctorFacts, AppendProperties
<1>6. TypeOK'
  <2>1. pending' \in Seq(Functor)
    BY <1>3, <1>5
  <2>2. sends' \in [Callers -> 0 .. MaxSends]
    BY <1>4, TcpConnectionConstants
  <2>. QED
    BY <1>0, <1>3, <2>1, <2>2 DEF TypeOK, UserSend, loopVars
<1>7. Counted' = [Counted EXCEPT ![InLoop] = @ + 1] /\ Counted' \in [Callers -> Nat]
      /\ Counted \in [Callers -> Nat]
  BY <1>0, <1>2, <1>3, <1>4, CountedMore DEF TypeOK
<1>8. \A p \in Threads : Counted'[p] = Counted[p] /\ sends'[p] = sends[p]
  BY <1>4, <1>7, TcpConnectionConstants DEF Callers
<1>9. Queue' = Queue \/ Queue' = Append(Queue, Call("complete", <<>>))
  <2>1. batch \o Append(pending, Call("complete", <<>>)) = Append(Queue, Call("complete", <<>>))
    BY <1>5, FunctorFacts, AppendToConcat DEF Queue
  <2>2. batch' = batch
    BY DEF UserSend, loopVars
  <2>. QED
    BY <1>3, <2>1, <2>2 DEF Queue
<1>10. Numbered(Queue', Counted', sends')
  <2>1. Numbered(Queue, Counted, sends)
    BY DEF Inv, Queued
  <2>2. Numbered(Append(Queue, Call("complete", <<>>)), Counted, sends)
    BY <1>5, <2>1, FunctorFacts, NumberedAppend
  <2>3. Numbered(Queue', Counted, sends)
    BY <1>9, <2>1, <2>2
  <2>. QED
    BY <1>8, <2>3, NumberedSame
<1>11. Queued'
  <2>1. Counted'[InLoop] = sends'[InLoop]
    BY <1>4, <1>7 DEF Inv, Queued
  <2>. QED
    BY <1>7, <1>10, <2>1 DEF Queued
<1>12. Phases' /\ MaySend'
  <2>1. \A t \in Threads : sends'[t] = sends[t]
    BY <1>8
  <2>. QED
    BY <2>1 DEF Inv, Phases, MaySend, UserSend, loopVars
<1>. QED
  BY <1>3, <1>6, <1>11, <1>12 DEF Inv

-----------------------------------------------------------------------------
(* The theorems *)

LEMMA InvKept == Inv /\ [Next]_vars => Inv'
<1>. SUFFICES ASSUME Inv, [Next]_vars PROVE Inv'
  OBVIOUS
<1>1. CASE LoopStep
  BY <1>1, PollKeeps, TakeFunctorsKeeps, HandleReadKeeps, HandleWriteKeeps, CallSendKeeps,
     CallShutdownKeeps, CallWriteCompleteKeeps, CallbackReturnsKeeps DEF LoopStep
<1>2. CASE UserSend
  BY <1>2, UserSendKeeps
<1>3. CASE UserShutdown
  BY <1>3, UserShutdownKeeps
<1>4. CASE PeerReads
  BY <1>4, PeerReadsKeeps
<1>5. CASE PeerSends
  BY <1>5, PeerSendsKeeps
<1>6. CASE \E t \in Threads : ThreadStep(t)
  BY <1>6, ThreadTestsKeeps, ThreadSetsStateKeeps, ThreadSendsKeeps, ThreadShutsDownKeeps
     DEF ThreadStep
<1>7. CASE UNCHANGED vars
  <2>1. TypeOK'
    BY <1>7 DEF Inv, TypeOK, vars, outVars, loopVars, userVars
  <2>2. Queued'
    BY <1>7, QueuedKept DEF Inv, Queue, vars, outVars, loopVars, userVars
  <2>3. Phases' /\ Writes' /\ MaySend'
    BY <1>7 DEF Inv, Phases, Writes, MaySend, vars, outVars, loopVars, userVars
  <2>. QED
    BY <2>1, <2>2, <2>3 DEF Inv
<1>. QED
  BY <1>1, <1>2, <1>3, <1>4, <1>5, <1>6, <1>7 DEF Next

(***************************************************************************)
(* The inductive invariant: every message of another thread that the loop  *)
(* has not come to is queued, once and in its caller's order, and the      *)
(* channel asks for room exactly as long as output is left.                *)
(***************************************************************************)
THEOREM Invariance == Spec => []Inv
<1>. QED
  BY InitHolds, InvKept, PTL DEF Spec

(***************************************************************************)
(* Type correctness; and send(), sendInLoop() and handleWrite() neither    *)
(* lose nor repeat a byte: what has been written and what is in the output *)
(* buffer is what has been accepted.                                       *)
(***************************************************************************)
THEOREM NoByteIsLost == Spec => []TypeOK
<1>1. Inv => TypeOK
  BY DEF Inv
<1>. QED
  BY <1>1, Invariance, PTL

(***************************************************************************)
(* The steps at which the promise of module Stream says something.         *)
(***************************************************************************)
LEMMA Extends ==
  ASSUME TypeOK, accepted' \in Seq(Byte), written' \in Seq(Byte), output' \in Seq(Byte),
         written' \o output' = accepted',
         \E d \in Seq(Byte) : written' = written \o d,
         fin => written' = written
  PROVE  Stream!Writing
<1>1. PICK d \in Seq(Byte) : written' = written \o d
  OBVIOUS
<1>2. Stream!IsPrefix(written, written')
  BY <1>1, PrefixOfConcat DEF TypeOK
<1>3. Stream!IsPrefix(written', accepted')
  <2>1. PICK w \in Seq(Byte), u \in Seq(Byte) : w = written' /\ u = output'
    OBVIOUS
  <2>2. Stream!IsPrefix(w, w \o u)
    BY PrefixOfConcat
  <2>. QED
    BY <2>1, <2>2
<1>. QED
  BY <1>2, <1>3 DEF Stream!Writing

LEMMA Unwritten ==
  ASSUME TypeOK, accepted' = accepted, written' = written
  PROVE  Stream!Writing
<1>1. written \in Seq(Byte) /\ output \in Seq(Byte) /\ written \o output = accepted
  BY DEF TypeOK
<1>2. <<>> \in Seq(Byte) /\ written \o <<>> = written
  BY <1>1, ConcatEmptySeq
<1>3. Stream!IsPrefix(written, written) /\ Stream!IsPrefix(written, accepted)
  <2>1. Stream!IsPrefix(written, written \o <<>>) /\ Stream!IsPrefix(written, written \o output)
    BY <1>1, <1>2, PrefixOfConcat
  <2>. QED
    BY <1>1, <1>2, <2>1
<1>. QED
  BY <1>3 DEF Stream!Writing

LEMMA SendRefines ==
  ASSUME TypeOK, Writes, NEW p \in Callers, NEW size \in MessageSizes,
         Message(p, Counted[p] + 1, size) \in Seq(Byte),
         Message(p, Counted[p] + 1, size) # <<>>,
         SendInLoop(Message(p, Counted[p] + 1, size)), fin' = fin
  PROVE  Stream!Send(p, size)
<1>1. PICK m \in Seq(Byte) : m = Message(p, Counted[p] + 1, size)
  OBVIOUS
<1>2. /\ accepted' = accepted \o m
      /\ accepted' \in Seq(Byte) /\ written' \in Seq(Byte) /\ output' \in Seq(Byte)
      /\ written' \o output' = accepted'
      /\ \E d \in Seq(Byte) : written' = written \o d
      /\ fin => written' = written
  <2>1. m # <<>> /\ SendInLoop(m)
    BY <1>1
  <2>. QED
    BY <2>1, SendEffect
<1>3. Stream!Writing
  BY <1>2, Extends
<1>4. m = [i \in 1 .. size |-> <<p, Stream!MessagesOf(p) + 1, i>>]
  BY <1>1 DEF Message, Counted
<1>. QED
  BY <1>2, <1>3, <1>4 DEF Stream!Send

LEMMA ShutdownRefines ==
  ASSUME TypeOK, Writes, ShutdownInLoop, accepted' = accepted, written' = written
  PROVE  Stream!Finish \/ Stream!Write
<1>1. Stream!Writing
  BY Unwritten
<1>2. CASE fin' = fin
  BY <1>1, <1>2 DEF Stream!Write
<1>3. CASE fin' # fin
  <2>1. ~ writing /\ fin' = TRUE
    BY <1>3 DEF ShutdownInLoop, TypeOK
  <2>2. written = accepted
    <3>1. output = <<>>
      BY <2>1 DEF Writes
    <3>. QED
      BY <3>1, ConcatEmptySeq DEF TypeOK
  <2>. QED
    BY <1>1, <2>1, <2>2 DEF Stream!Finish
<1>. QED
  BY <1>2, <1>3

LEMMA HandleWriteRefines ==
  ASSUME TypeOK, Writes, HandleWrite
  PROVE  Stream!Finish \/ Stream!Write
<1>1. accepted' = accepted
  BY DEF HandleWrite
<1>2. CASE UNCHANGED <<writing, output, sock, written, told, fin, pending>>
  BY <1>1, <1>2, Unwritten DEF Stream!Write
<1>3. CASE WriteOutput
  <2>1. /\ written' \in Seq(Byte) /\ output' \in Seq(Byte)
        /\ written' \o output' = accepted
        /\ \E d \in Seq(Byte) : written' = written \o d
        /\ ~ fin
        /\ fin' \in BOOLEAN
        /\ fin' => output' = <<>>
    BY <1>3, WriteEffect
  <2>2. accepted \in Seq(Byte)
    BY DEF TypeOK
  <2>3. Stream!Writing
    BY <1>1, <2>1, <2>2, Extends
  <2>4. CASE fin'
    <3>1. written' = accepted'
      <4>1. PICK w \in Seq(Byte) : w = written'
        BY <2>1
      <4>2. w \o <<>> = w
        BY ConcatEmptySeq
      <4>. QED
        BY <1>1, <2>1, <2>4, <4>1, <4>2
    <3>2. fin' = TRUE
      BY <2>1, <2>4
    <3>. QED
      BY <1>1, <2>3, <3>1, <3>2 DEF Stream!Finish
  <2>5. CASE ~ fin'
    <3>1. fin' = fin
      BY <2>1, <2>5 DEF TypeOK
    <3>. QED
      BY <1>1, <2>3, <3>1 DEF Stream!Write
  <2>. QED
    BY <2>4, <2>5
<1>. QED
  BY <1>2, <1>3 DEF HandleWrite

LEMMA StepRefines ==
  Inv /\ [Next]_vars => [Stream!Next]_<<accepted, written, fin>>
<1>. SUFFICES ASSUME Inv, [Next]_vars
              PROVE  Stream!Next \/ UNCHANGED <<accepted, written, fin>>
  OBVIOUS
<1>0. TypeOK /\ Writes
  BY DEF Inv
<1>1. CASE CallSend
  <2>1. PICK p \in Threads, size \in MessageSizes :
           /\ Message(p, Counted[p] + 1, size) \in Seq(Byte)
           /\ Message(p, Counted[p] + 1, size) # <<>>
           /\ SendInLoop(Message(p, Counted[p] + 1, size))
    BY <1>1, CallSendIs
  <2>2. p \in Callers /\ fin' = fin
    BY <1>1 DEF CallSend, Callers
  <2>3. Stream!Send(p, size)
    BY <1>0, <2>1, <2>2, SendRefines
  <2>. QED
    BY <2>2, <2>3 DEF Stream!Next
<1>2. CASE UserSend
  <2>1. PICK size \in MessageSizes :
           /\ Message(InLoop, Counted[InLoop] + 1, size) \in Seq(Byte)
           /\ Message(InLoop, Counted[InLoop] + 1, size) # <<>>
           /\ SendInLoop(Message(InLoop, Counted[InLoop] + 1, size))
    BY <1>2, UserSendIs
  <2>2. InLoop \in Callers /\ fin' = fin
    BY <1>2 DEF UserSend, Callers
  <2>3. Stream!Send(InLoop, size)
    BY <1>0, <2>1, <2>2, SendRefines
  <2>. QED
    BY <2>2, <2>3 DEF Stream!Next
<1>3. CASE CallShutdown
  <2>1. ShutdownInLoop /\ accepted' = accepted /\ written' = written
    BY <1>3 DEF CallShutdown, outVars
  <2>. QED
    BY <1>0, <2>1, ShutdownRefines DEF Stream!Next
<1>4. CASE UserShutdown
  <2>1. ShutdownInLoop /\ accepted' = accepted /\ written' = written
    BY <1>4 DEF UserShutdown, outVars
  <2>. QED
    BY <1>0, <2>1, ShutdownRefines DEF Stream!Next
<1>5. CASE HandleWrite
  BY <1>0, <1>5, HandleWriteRefines DEF Stream!Next
<1>6. CASE Poll \/ TakeFunctors \/ HandleRead \/ CallWriteComplete \/ CallbackReturns
  BY <1>6 DEF Poll, TakeFunctors, HandleRead, CallWriteComplete, CallbackReturns, outVars
<1>7. CASE PeerReads \/ PeerSends \/ UNCHANGED vars
  BY <1>7 DEF PeerReads, PeerSends, vars, outVars
<1>8. CASE \E t \in Threads : ThreadStep(t)
  BY <1>8 DEF ThreadStep, ThreadTests, ThreadSetsState, ThreadSends, ThreadShutsDown, outVars
<1>. QED
  BY <1>1, <1>2, <1>3, <1>4, <1>5, <1>6, <1>7, <1>8 DEF Next, LoopStep

(***************************************************************************)
(* The data path keeps the promise of module Stream: written directly or   *)
(* by handleWrite(), sent by callbacks or by other threads, the bytes      *)
(* leave message by message, each caller's messages in his order, and the  *)
(* FIN only behind all of them.                                            *)
(***************************************************************************)
THEOREM StreamRefines == Spec => ImplementsStream
<1>1. Init => Stream!Init
  BY DEF Init, Stream!Init
<1>. QED
  BY <1>1, Invariance, StepRefines, PTL DEF ImplementsStream, Spec, Stream!Spec

\* Other steps than sendInLoop() and handleWrite() queue no such callback.
LEMMA NoMoreCompletions ==
  ASSUME NEW q \in Seq(Functor), NEW f, f.op # "complete"
  PROVE  Completions(Append(q, f)) \subseteq Completions(q)
<1>. DEFINE r == Append(q, f)
<1>1. \A i \in DOMAIN r : (i \in DOMAIN q /\ r[i] = q[i]) \/ r[i] = f
  OBVIOUS
<1>. HIDE DEF r
<1>2. Completions(r) \subseteq Completions(q)
  BY <1>1 DEF Completions
<1>. QED
  BY <1>2 DEF r

(***************************************************************************)
(* The writeCompleteCallback_ is queued whenever the last byte accepted    *)
(* has been written, by sendInLoop() or by handleWrite(): once for the     *)
(* bytes written since the last time, and never while output is left.      *)
(***************************************************************************)
THEOREM WriteCompleteIsTold == Spec => WriteCompleteTold
<1>1. Inv => (output = <<>> => told = Len(written))
  BY DEF Inv, Writes
<1>2. Inv /\ [Next]_vars =>
        [Tells \/ (UNCHANGED told /\ Completions(pending') \subseteq Completions(pending))]_vars
  <2>. SUFFICES ASSUME Inv, Next
                PROVE  Tells \/ (UNCHANGED told /\ Completions(pending') \subseteq Completions(pending))
    OBVIOUS
  <2>0. TypeOK /\ Writes
    BY DEF Inv
  <2>1. CASE CallSend
    <3>1. PICK p \in Threads, size \in MessageSizes :
             /\ Message(p, Counted[p] + 1, size) \in Seq(Byte)
             /\ Message(p, Counted[p] + 1, size) # <<>>
             /\ SendInLoop(Message(p, Counted[p] + 1, size))
      BY <2>1, CallSendIs
    <3>2. Tells \/ UNCHANGED <<told, pending>>
      BY <2>0, <3>1, SendEffect
    <3>. QED
      BY <3>2
  <2>2. CASE UserSend
    <3>1. PICK size \in MessageSizes :
             /\ Message(InLoop, Counted[InLoop] + 1, size) \in Seq(Byte)
             /\ Message(InLoop, Counted[InLoop] + 1, size) # <<>>
             /\ SendInLoop(Message(InLoop, Counted[InLoop] + 1, size))
      BY <2>2, UserSendIs
    <3>2. Tells \/ UNCHANGED <<told, pending>>
      BY <2>0, <3>1, SendEffect
    <3>. QED
      BY <3>2
  <2>3. CASE HandleWrite
    <3>1. CASE UNCHANGED <<writing, output, sock, written, told, fin, pending>>
      BY <3>1
    <3>2. CASE WriteOutput
      BY <2>0, <3>2, WriteEffect
    <3>. QED
      BY <2>3, <3>1, <3>2 DEF HandleWrite
  <2>4. CASE TakeFunctors
    <3>1. UNCHANGED told /\ pending' = <<>>
      BY <2>4 DEF TakeFunctors, outVars
    <3>. QED
      BY <3>1 DEF Completions
  <2>5. CASE Poll \/ HandleRead \/ CallShutdown \/ CallWriteComplete \/ CallbackReturns
             \/ UserShutdown \/ PeerReads \/ PeerSends
    <3>1. UNCHANGED <<told, pending>>
      BY <2>5 DEF Poll, HandleRead, CallShutdown, CallWriteComplete, CallbackReturns,
                  UserShutdown, PeerReads, PeerSends, outVars
    <3>. QED
      BY <3>1
  <2>6. ASSUME NEW t \in Threads, ThreadStep(t)
        PROVE  UNCHANGED told /\ Completions(pending') \subseteq Completions(pending)
    <3>1. CASE ThreadTests(t) \/ ThreadSetsState(t)
      <4>1. UNCHANGED <<told, pending>>
        BY <3>1 DEF ThreadTests, ThreadSetsState, outVars
      <4>. QED
        BY <4>1
    <3>2. CASE ThreadSends(t)
      <4>1. PICK size \in MessageSizes :
               pending' = Append(pending, Call("send", NextMessage(t, size)))
        BY <3>2 DEF ThreadSends
      <4>2. Call("send", NextMessage(t, size)).op # "complete"
        BY DEF Call
      <4>. QED
        BY <2>0, <3>2, <4>1, <4>2, NoMoreCompletions DEF TypeOK, ThreadSends, outVars
    <3>3. CASE ThreadShutsDown(t)
      <4>1. Call("shutdown", <<>>).op # "complete"
        BY DEF Call
      <4>. QED
        BY <2>0, <3>3, <4>1, NoMoreCompletions DEF TypeOK, ThreadShutsDown, outVars
    <3>. QED
      BY <2>6, <3>1, <3>2, <3>3 DEF ThreadStep
  <2>. QED
    BY <2>1, <2>2, <2>3, <2>4, <2>5, <2>6 DEF Next, LoopStep
<1>. QED
  BY <1>1, <1>2, Invariance, PTL DEF Spec, WriteCompleteTold
=============================================================================

--------------------------- MODULE Buffer_proofs ----------------------------
(***************************************************************************)
(* A Buffer is a queue of bytes, whatever the sizes of the vector, of the  *)
(* room for prepend() and of what is put in and taken out.                 *)
(***************************************************************************)
EXTENDS Buffer, SequenceTheorems, TLAPS

Record ==
  [data : UNION {[0 .. n - 1 -> Bytes] : n \in Nat}, size : Nat, reader : Nat, writer : Nat]

\* The type invariant, and that retrieveAll() always has room for prepend().
IsBuffer(b) ==
  /\ b \in Record
  /\ b.data \in [0 .. b.size - 1 -> Bytes]
  /\ b.reader <= b.writer
  /\ b.writer <= b.size
  /\ CheapPrepend <= b.size

\* What shrink() leaves, be the indices stale or not
IsVector(b) ==
  /\ b \in Record
  /\ b.data \in [0 .. b.size - 1 -> Bytes]
  /\ b.reader <= b.writer
  /\ CheapPrepend <= b.size

Inv ==
  /\ stale \in BOOLEAN
  /\ IsVector(buffer)
  /\ ~ stale => IsBuffer(buffer)

-----------------------------------------------------------------------------
(* Sequences *)

LEMMA FunctionIsSeq ==
  ASSUME NEW S, NEW n \in Nat, NEW f \in [1 .. n -> S]
  PROVE  f \in Seq(S) /\ Len(f) = n
OBVIOUS

LEMMA SameSeq ==
  ASSUME NEW S, NEW u \in Seq(S), NEW v \in Seq(S), Len(u) = Len(v),
         \A i \in 1 .. Len(u) : u[i] = v[i]
  PROVE  u = v
BY SeqEqual

\* What is u up to its length and v behind it is u \o v.
LEMMA IsConcat ==
  ASSUME NEW S, NEW u \in Seq(S), NEW v \in Seq(S), NEW w \in Seq(S),
         Len(w) = Len(u) + Len(v),
         \A i \in 1 .. Len(u) : w[i] = u[i],
         \A i \in 1 .. Len(v) : w[Len(u) + i] = v[i]
  PROVE  w = u \o v
<1>1. u \o v \in Seq(S) /\ Len(u \o v) = Len(w)
  OBVIOUS
<1>2. ASSUME NEW i \in 1 .. Len(w)
      PROVE  w[i] = (u \o v)[i]
  <2>1. CASE i <= Len(u)
    BY <2>1
  <2>2. CASE i > Len(u)
    <3>1. PICK k \in 1 .. Len(v) : i = Len(u) + k
      <4>1. i - Len(u) \in 1 .. Len(v) /\ i = Len(u) + (i - Len(u))
        BY <2>2
      <4> QED
        BY <4>1
    <3> QED
      BY <3>1
  <2> QED
    BY <2>1, <2>2
<1> QED
  BY <1>1, <1>2, SameSeq

LEMMA ChunksAreSeqs == \A s \in Chunks : s \in Seq(Bytes)
<1> SUFFICES ASSUME NEW s \in Chunks PROVE s \in Seq(Bytes)
  OBVIOUS
<1>1. PICK n \in Nat : s \in [1 .. n -> Bytes]
  BY BufferConstants DEF Chunks
<1> QED
  BY <1>1, FunctionIsSeq

-----------------------------------------------------------------------------
(* The members *)

LEMMA FieldsOf ==
  ASSUME NEW b, IsBuffer(b)
  PROVE  /\ b.size \in Nat /\ b.reader \in Nat /\ b.writer \in Nat
         /\ CheapPrepend \in Nat
         /\ b.data \in [0 .. b.size - 1 -> Bytes]
         /\ b.reader <= b.writer
         /\ b.writer <= b.size
         /\ CheapPrepend <= b.size
         /\ Readable(b) \in Nat /\ Readable(b) = b.writer - b.reader
         /\ Writable(b) \in Nat /\ Writable(b) = b.size - b.writer
         /\ Prependable(b) = b.reader
BY BufferConstants DEF IsBuffer, Record, Readable, Writable, Prependable

\* The bytes from peek() on
LEMMA PeekIs ==
  ASSUME NEW b, IsBuffer(b), NEW n \in Nat, n <= Readable(b)
  PROVE  /\ Peek(b, n) \in Seq(Bytes)
         /\ Len(Peek(b, n)) = n
         /\ \A i \in 1 .. n : Peek(b, n)[i] = b.data[b.reader + i - 1]
<1>1. Peek(b, n) \in [1 .. n -> Bytes]
  BY DEF Peek, IsBuffer, Readable, Record
<1> QED
  BY <1>1, FunctionIsSeq DEF Peek

LEMMA ContentsIs ==
  ASSUME NEW b, IsBuffer(b)
  PROVE  /\ Readable(b) \in Nat
         /\ Contents(b) \in Seq(Bytes)
         /\ Len(Contents(b)) = Readable(b)
         /\ \A i \in 1 .. Readable(b) : Contents(b)[i] = b.data[b.reader + i - 1]
<1>1. Readable(b) \in Nat
  BY DEF IsBuffer, Readable, Record
<1> QED
  BY <1>1, PeekIs DEF Contents

\* std::copy changes the bytes it copies to, and nothing else.
LEMMA VectorCopied ==
  ASSUME NEW b, IsVector(b), NEW s \in Seq(Bytes), NEW at \in Nat, at + Len(s) <= b.size
  PROVE  /\ IsVector(CopiedTo(b, s, at))
         /\ CopiedTo(b, s, at).size = b.size
         /\ CopiedTo(b, s, at).reader = b.reader
         /\ CopiedTo(b, s, at).writer = b.writer
         /\ \A i \in 0 .. b.size - 1 : (i < at \/ at + Len(s) <= i) =>
              CopiedTo(b, s, at).data[i] = b.data[i]
         /\ \A i \in 1 .. Len(s) : CopiedTo(b, s, at).data[at + i - 1] = s[i]
<1> DEFINE d == [i \in 0 .. b.size - 1 |->
                   IF at <= i /\ i < at + Len(s) THEN s[i - at + 1] ELSE b.data[i]]
           c == CopiedTo(b, s, at)
<1>1. d \in [0 .. b.size - 1 -> Bytes]
  <2>1. ASSUME NEW i \in 0 .. b.size - 1, at <= i, i < at + Len(s)
        PROVE  s[i - at + 1] \in Bytes
    <3>1. i - at + 1 \in 1 .. Len(s)
      BY <2>1 DEF IsVector, Record
    <3> QED
      BY <3>1
  <2> QED
    BY <2>1 DEF IsVector
<1>2. c = [b EXCEPT !.data = d]
  BY DEF CopiedTo
<1>3. /\ c.size = b.size
      /\ c.reader = b.reader
      /\ c.writer = b.writer
      /\ c.data = d
      /\ c \in Record
  BY <1>1, <1>2 DEF IsVector, Record
<1>4. IsVector(c)
  BY <1>1, <1>3 DEF IsVector
<1>5. \A i \in 0 .. b.size - 1 : (i < at \/ at + Len(s) <= i) => d[i] = b.data[i]
  BY DEF IsVector, Record
<1>6. ASSUME NEW i \in 1 .. Len(s)
      PROVE  d[at + i - 1] = s[i]
  <2> DEFINE k == at + i - 1
  <2>1. k \in 0 .. b.size - 1 /\ at <= k /\ k < at + Len(s) /\ k - at + 1 = i
    BY DEF IsVector, Record
  <2>2. d[k] = s[k - at + 1]
    BY <2>1
  <2> QED
    BY <2>1, <2>2
<1> QED
  BY <1>3, <1>4, <1>5, <1>6

LEMMA CopiedToIs ==
  ASSUME NEW b, IsBuffer(b), NEW s \in Seq(Bytes), NEW at \in Nat, at + Len(s) <= b.size
  PROVE  /\ IsBuffer(CopiedTo(b, s, at))
         /\ CopiedTo(b, s, at).size = b.size
         /\ CopiedTo(b, s, at).reader = b.reader
         /\ CopiedTo(b, s, at).writer = b.writer
         /\ \A i \in 0 .. b.size - 1 : (i < at \/ at + Len(s) <= i) =>
              CopiedTo(b, s, at).data[i] = b.data[i]
         /\ \A i \in 1 .. Len(s) : CopiedTo(b, s, at).data[at + i - 1] = s[i]
<1>1. IsVector(b)
  BY DEF IsBuffer, IsVector
<1>2. PICK c : c = CopiedTo(b, s, at)
  OBVIOUS
<1>3. /\ IsVector(c)
      /\ c.size = b.size
      /\ c.writer = b.writer
  BY <1>1, <1>2, VectorCopied
<1>4. IsBuffer(c)
  BY <1>3 DEF IsBuffer, IsVector
<1> QED
  BY <1>1, <1>2, <1>4, VectorCopied

\* Setting the indices
Indexed(b, r, w) == [b EXCEPT !.reader = r, !.writer = w]

LEMMA VectorIndexed ==
  ASSUME NEW b, IsVector(b), NEW r \in Nat, NEW w \in Nat, r <= w, w <= b.size
  PROVE  /\ IsBuffer(Indexed(b, r, w))
         /\ Indexed(b, r, w).data = b.data
         /\ Indexed(b, r, w).size = b.size
         /\ Indexed(b, r, w).reader = r
         /\ Indexed(b, r, w).writer = w
BY DEF Indexed, IsBuffer, IsVector, Record

LEMMA IndexedIs ==
  ASSUME NEW b, IsBuffer(b), NEW r \in Nat, NEW w \in Nat, r <= w, w <= b.size
  PROVE  /\ IsBuffer(Indexed(b, r, w))
         /\ Indexed(b, r, w).data = b.data
         /\ Indexed(b, r, w).size = b.size
         /\ Indexed(b, r, w).reader = r
         /\ Indexed(b, r, w).writer = w
BY DEF Indexed, IsBuffer, Record

\* hasWritten()
Written(b, w) == [b EXCEPT !.writer = w]

LEMMA WrittenIs ==
  ASSUME NEW b, IsBuffer(b), NEW w \in Nat, b.reader <= w, w <= b.size
  PROVE  /\ IsBuffer(Written(b, w))
         /\ Written(b, w).data = b.data
         /\ Written(b, w).size = b.size
         /\ Written(b, w).reader = b.reader
         /\ Written(b, w).writer = w
BY DEF Written, IsBuffer, Record

\* The readable bytes are s.
LEMMA ContentsAre ==
  ASSUME NEW b, IsBuffer(b), NEW s \in Seq(Bytes), Readable(b) = Len(s),
         \A i \in 1 .. Len(s) : b.data[b.reader + i - 1] = s[i]
  PROVE  Contents(b) = s
BY ContentsIs, SameSeq

\* resize() to more than there was keeps the bytes, read and unread.
LEMMA ResizedIs ==
  ASSUME NEW b, IsBuffer(b), NEW n \in Nat, b.size <= n
  PROVE  /\ IsBuffer(Resized(b, n))
         /\ Resized(b, n).size = n
         /\ Resized(b, n).reader = b.reader
         /\ Resized(b, n).writer = b.writer
         /\ Contents(Resized(b, n)) = Contents(b)
<1> DEFINE d == [i \in 0 .. n - 1 |-> IF i < b.size THEN b.data[i] ELSE Zero]
           c == Resized(b, n)
<1>1. d \in [0 .. n - 1 -> Bytes]
  BY BufferConstants DEF IsBuffer, Record
<1>2. c = [b EXCEPT !.size = n, !.data = d]
  BY DEF Resized
<1>3. /\ c.size = n
      /\ c.reader = b.reader
      /\ c.writer = b.writer
      /\ c.data = d
      /\ c \in Record
  BY <1>1, <1>2 DEF IsBuffer, Record
<1>4. IsBuffer(c)
  <2> HIDE DEF c, d
  <2> QED
    BY <1>1, <1>3, FieldsOf DEF IsBuffer
<1>5. Readable(c) = Readable(b)
  BY <1>3 DEF Readable
<1>6. ASSUME NEW i \in 1 .. Readable(b)
      PROVE  c.data[c.reader + i - 1] = Contents(b)[i]
  <2>1. b.reader + i - 1 \in 0 .. n - 1 /\ b.reader + i - 1 < b.size
    BY DEF IsBuffer, Record, Readable
  <2> QED
    BY <1>3, <2>1, ContentsIs
<1> QED
  BY <1>3, <1>4, <1>5, <1>6, ContentsIs, ContentsAre

\* Moving the readable bytes down keeps them, though they may overlap.
LEMMA MovedDownIs ==
  ASSUME NEW b, IsBuffer(b), CheapPrepend <= b.reader
  PROVE  /\ IsBuffer(MovedDown(b))
         /\ MovedDown(b).size = b.size
         /\ MovedDown(b).writer = CheapPrepend + Readable(b)
         /\ Contents(MovedDown(b)) = Contents(b)
<1>1. PICK s \in Seq(Bytes) : s = Contents(b) /\ Len(s) = Readable(b)
  BY ContentsIs
<1>2. PICK d : d = CopiedTo(b, s, CheapPrepend)
  OBVIOUS
<1>3. CheapPrepend \in Nat /\ CheapPrepend + Len(s) <= b.size
  BY <1>1, FieldsOf
<1>4. /\ IsBuffer(d)
      /\ d.size = b.size
      /\ \A i \in 1 .. Len(s) : d.data[CheapPrepend + i - 1] = s[i]
  BY <1>2, <1>3, CopiedToIs
<1>5. PICK w \in Nat : w = CheapPrepend + Readable(b)
  BY FieldsOf
<1>6. MovedDown(b) = Indexed(d, CheapPrepend, w)
  BY <1>1, <1>2, <1>5 DEF MovedDown, Indexed
<1>7. CheapPrepend <= w /\ w <= d.size
  BY <1>1, <1>3, <1>4, <1>5, FieldsOf
<1>8. PICK c : c = Indexed(d, CheapPrepend, w)
  OBVIOUS
<1>9. /\ IsBuffer(c)
      /\ c.size = b.size
      /\ c.reader = CheapPrepend
      /\ c.writer = w
      /\ c.data = d.data
  BY <1>3, <1>4, <1>7, <1>8, IndexedIs
<1>10. Readable(c) = Len(s)
  BY <1>1, <1>3, <1>5, <1>9, FieldsOf DEF Readable
<1>11. Contents(c) = s
  BY <1>4, <1>9, <1>10, ContentsAre
<1> QED
  BY <1>1, <1>5, <1>6, <1>8, <1>9, <1>11

\* makeSpace() makes the space, keeps the readable bytes, and lets the vector
\* grow only if they and the room for prepend() would not fit.
LEMMA SpaceMadeIs ==
  ASSUME NEW b, IsBuffer(b), NEW len \in Nat, Writable(b) < len
  PROVE  /\ IsBuffer(SpaceMade(b, len))
         /\ Contents(SpaceMade(b, len)) = Contents(b)
         /\ len <= Writable(SpaceMade(b, len))
         /\ \/ SpaceMade(b, len).size = b.size
            \/ b.size < Readable(b) + len + CheapPrepend
<1>1. CASE Writable(b) + Prependable(b) < len + CheapPrepend
  <2>1. SpaceMade(b, len) = Resized(b, b.writer + len)
    BY <1>1 DEF SpaceMade
  <2>2. b.writer + len \in Nat /\ b.size <= b.writer + len
    BY DEF IsBuffer, Record, Writable
  <2>3. b.size < Readable(b) + len + CheapPrepend
    BY <1>1, BufferConstants DEF IsBuffer, Record, Writable, Prependable, Readable
  <2>4. len <= Writable(Resized(b, b.writer + len))
    BY <2>2, ResizedIs DEF Writable, IsBuffer, Record
  <2> QED
    BY <2>1, <2>2, <2>3, <2>4, ResizedIs
<1>2. CASE ~ (Writable(b) + Prependable(b) < len + CheapPrepend)
  <2>1. SpaceMade(b, len) = MovedDown(b)
    BY <1>2 DEF SpaceMade
  <2>2. CheapPrepend <= b.reader
    BY <1>2, BufferConstants DEF IsBuffer, Record, Writable, Prependable
  <2>3. len <= Writable(MovedDown(b))
    <3>1. Writable(MovedDown(b)) = b.size - (CheapPrepend + Readable(b))
      BY <2>2, MovedDownIs DEF Writable
    <3>2. len + CheapPrepend <= b.size - b.writer + b.reader
      BY <1>2, FieldsOf
    <3> QED
      BY <3>1, <3>2, FieldsOf, SMTT(30)
  <2> QED
    BY <2>1, <2>2, <2>3, MovedDownIs
<1> QED
  BY <1>1, <1>2

\* Bytes copied behind the readable ones become readable.
Filled(b, s) == [CopiedTo(b, s, b.writer) EXCEPT !.writer = b.writer + Len(s)]

LEMMA FilledIs ==
  ASSUME NEW b, IsBuffer(b), NEW s \in Seq(Bytes), Len(s) <= Writable(b)
  PROVE  /\ IsBuffer(Filled(b, s))
         /\ Filled(b, s).size = b.size
         /\ Filled(b, s).writer = b.writer + Len(s)
         /\ Contents(Filled(b, s)) = Contents(b) \o s
<1>1. b.writer \in Nat /\ b.writer + Len(s) <= b.size
  BY FieldsOf
<1>2. PICK d : d = CopiedTo(b, s, b.writer)
  OBVIOUS
<1>3. /\ IsBuffer(d)
      /\ d.size = b.size
      /\ d.reader = b.reader
      /\ d.writer = b.writer
      /\ \A i \in 0 .. b.size - 1 : i < b.writer => d.data[i] = b.data[i]
      /\ \A i \in 1 .. Len(s) : d.data[b.writer + i - 1] = s[i]
  BY <1>1, <1>2, CopiedToIs
<1>4. PICK w \in Nat : w = b.writer + Len(s)
  BY <1>1
<1>5. PICK c : c = Written(d, w)
  OBVIOUS
<1>6. /\ IsBuffer(c)
      /\ c.size = b.size
      /\ c.reader = b.reader
      /\ c.writer = w
      /\ c.data = d.data
  <2>1. d.reader <= w /\ w <= d.size
    BY <1>1, <1>3, <1>4, FieldsOf
  <2> QED
    BY <1>3, <1>5, <2>1, WrittenIs
<1>7. /\ Readable(b) \in Nat
      /\ Contents(b) \in Seq(Bytes)
      /\ Len(Contents(b)) = Readable(b)
      /\ \A i \in 1 .. Readable(b) : Contents(b)[i] = b.data[b.reader + i - 1]
  BY ContentsIs
<1>8. /\ Contents(c) \in Seq(Bytes)
      /\ Len(Contents(c)) = Readable(b) + Len(s)
      /\ \A i \in 1 .. Readable(b) + Len(s) : Contents(c)[i] = d.data[b.reader + i - 1]
  <2>1. Readable(c) = Readable(b) + Len(s)
    <3>1. Readable(c) = w - b.reader /\ Readable(b) = b.writer - b.reader
      BY <1>6 DEF Readable
    <3>2. b.reader \in Nat /\ b.writer \in Nat /\ Len(s) \in Nat
      BY FieldsOf
    <3> QED
      BY <1>4, <3>1, <3>2
  <2> QED
    BY <1>6, <2>1, ContentsIs
<1>9. ASSUME NEW i \in 1 .. Readable(b)
      PROVE  Contents(c)[i] = Contents(b)[i]
  <2>1. b.reader + i - 1 \in 0 .. b.size - 1 /\ b.reader + i - 1 < b.writer
    BY DEF IsBuffer, Record, Readable
  <2>2. i \in 1 .. Readable(b) + Len(s)
    BY <1>7
  <2> QED
    BY <1>3, <1>7, <1>8, <2>1, <2>2
<1>10. ASSUME NEW i \in 1 .. Len(s)
      PROVE  Contents(c)[Readable(b) + i] = s[i]
  <2>1. /\ Readable(b) + i \in 1 .. Readable(b) + Len(s)
        /\ b.reader + (Readable(b) + i) - 1 = b.writer + i - 1
    BY <1>7, SMTT(30) DEF IsBuffer, Record, Readable
  <2> QED
    BY <1>3, <1>8, <2>1
<1>11. Contents(c) = Contents(b) \o s
  <2>1. PICK u \in Seq(Bytes) : u = Contents(b) /\ Len(u) = Readable(b)
    BY <1>7
  <2>2. PICK v \in Seq(Bytes) : v = Contents(c) /\ Len(v) = Len(u) + Len(s)
    BY <1>8, <2>1
  <2>3. /\ \A i \in 1 .. Len(u) : v[i] = u[i]
        /\ \A i \in 1 .. Len(s) : v[Len(u) + i] = s[i]
    BY <1>9, <1>10, <2>1, <2>2
  <2>4. v = u \o s
    BY <2>2, <2>3, IsConcat
  <2> QED
    BY <2>1, <2>2, <2>4
<1>12. Filled(b, s) = c
  BY <1>2, <1>4, <1>5 DEF Filled, Written
<1> QED
  BY <1>6, <1>11, <1>12, <1>4

\* append() adds s at the end, and lets the vector grow only if it must.
LEMMA AppendedIs ==
  ASSUME NEW b, IsBuffer(b), NEW s \in Seq(Bytes)
  PROVE  /\ IsBuffer(Appended(b, s))
         /\ Contents(Appended(b, s)) = Contents(b) \o s
         /\ \/ Appended(b, s).size = b.size
            \/ b.size < Readable(b) + Len(s) + CheapPrepend
<1>1. PICK r : r = IF Writable(b) < Len(s) THEN SpaceMade(b, Len(s)) ELSE b
  OBVIOUS
<1>2. Len(s) \in Nat
  OBVIOUS
<1>3. /\ IsBuffer(r)
      /\ Contents(r) = Contents(b)
      /\ Len(s) <= Writable(r)
      /\ \/ r.size = b.size
         \/ b.size < Readable(b) + Len(s) + CheapPrepend
  <2>1. CASE Writable(b) < Len(s)
    BY <1>1, <1>2, <2>1, SpaceMadeIs
  <2>2. CASE ~ (Writable(b) < Len(s))
    BY <1>1, <1>2, <2>2, FieldsOf
  <2> QED
    BY <2>1, <2>2
<1>4. Appended(b, s) = Filled(r, s)
  <2>1. r.writer \in Nat /\ r.writer + Len(s) <= r.size
    BY <1>2, <1>3, FieldsOf, SMTT(30)
  <2>2. r.writer = CopiedTo(r, s, r.writer).writer
    BY <1>3, <2>1, CopiedToIs
  <2> QED
    BY <1>1, <2>2 DEF Appended, Filled
<1> QED
  BY <1>3, <1>4, FilledIs

\* prepend() adds s in front.
LEMMA PrependedIs ==
  ASSUME NEW b, IsBuffer(b), NEW s \in Seq(Bytes), Len(s) <= Prependable(b)
  PROVE  /\ IsBuffer(Prepended(b, s))
         /\ Prepended(b, s).size = b.size
         /\ Contents(Prepended(b, s)) = s \o Contents(b)
<1>1. PICK r \in Nat : r = b.reader - Len(s) /\ r + Len(s) = b.reader
  BY FieldsOf
<1>2. PICK a : a = Indexed(b, r, b.writer)
  OBVIOUS
<1>3. /\ IsBuffer(a)
      /\ a.size = b.size
      /\ a.reader = r
      /\ a.writer = b.writer
      /\ a.data = b.data
  <2>1. b.writer \in Nat /\ r <= b.writer /\ b.writer <= b.size
    BY <1>1, FieldsOf
  <2> QED
    BY <1>2, <2>1, IndexedIs
<1>4. PICK c : c = CopiedTo(a, s, r)
  OBVIOUS
<1>5. /\ IsBuffer(c)
      /\ c.size = b.size
      /\ c.reader = r
      /\ c.writer = b.writer
      /\ \A i \in 0 .. b.size - 1 : b.reader <= i => c.data[i] = b.data[i]
      /\ \A i \in 1 .. Len(s) : c.data[r + i - 1] = s[i]
  <2>1. r + Len(s) <= a.size
    <3>1. b.reader \in Nat /\ b.size \in Nat /\ b.reader <= b.size
      BY FieldsOf
    <3> QED
      BY <1>1, <1>3, <3>1
  <2> QED
    BY <1>1, <1>3, <1>4, <2>1, CopiedToIs
<1>6. Prepended(b, s) = c
  <2>1. [b EXCEPT !.reader = @ - Len(s)] = a
    BY <1>1, <1>2 DEF Indexed, IsBuffer, Record
  <2> QED
    BY <1>1, <1>4, <2>1 DEF Prepended
<1>7. PICK u \in Seq(Bytes) :
        /\ u = Contents(b)
        /\ Len(u) = Readable(b)
        /\ \A i \in 1 .. Readable(b) : u[i] = b.data[b.reader + i - 1]
  BY ContentsIs
<1>8. Readable(c) = Len(s) + Len(u)
  <2>1. Readable(c) = b.writer - r /\ Len(u) = b.writer - b.reader
    BY <1>5, <1>7 DEF Readable
  <2>2. b.reader \in Nat /\ b.writer \in Nat /\ Len(s) \in Nat
    BY FieldsOf
  <2> QED
    BY <1>1, <2>1, <2>2
<1>9. PICK w \in Seq(Bytes) :
        /\ w = Contents(c)
        /\ Len(w) = Len(s) + Len(u)
        /\ \A i \in 1 .. Len(s) + Len(u) : w[i] = c.data[r + i - 1]
  <2>1. /\ Contents(c) \in Seq(Bytes)
        /\ Len(Contents(c)) = Readable(c)
        /\ \A i \in 1 .. Readable(c) : Contents(c)[i] = c.data[r + i - 1]
    BY <1>5, ContentsIs
  <2> QED
    BY <1>8, <2>1
<1>10. ASSUME NEW i \in 1 .. Len(s)
       PROVE  w[i] = s[i]
  <2>1. i \in 1 .. Len(s) + Len(u)
    OBVIOUS
  <2> QED
    BY <1>5, <1>9, <2>1
<1>11. ASSUME NEW i \in 1 .. Len(u)
       PROVE  w[Len(s) + i] = u[i]
  <2>1. /\ Len(s) + i \in 1 .. Len(s) + Len(u)
        /\ r + (Len(s) + i) - 1 = b.reader + i - 1
        /\ b.reader + i - 1 \in 0 .. b.size - 1
        /\ b.reader <= b.reader + i - 1
    <3>1. /\ Len(s) \in Nat
          /\ Len(u) \in Nat
          /\ b.reader \in Nat
          /\ b.size \in Nat
          /\ b.reader + Len(u) <= b.size
      BY <1>7, FieldsOf
    <3>2. Len(s) + i \in 1 .. Len(s) + Len(u)
      BY <3>1
    <3>3. r + (Len(s) + i) - 1 = b.reader + i - 1
      BY <1>1, <3>1
    <3>4. b.reader + i - 1 \in 0 .. b.size - 1 /\ b.reader <= b.reader + i - 1
      BY <3>1, SMTT(30)
    <3> QED
      BY <3>2, <3>3, <3>4
  <2> QED
    BY <1>5, <1>7, <1>9, <2>1
<1>12. w = s \o u
  BY <1>9, <1>10, <1>11, IsConcat
<1> QED
  BY <1>5, <1>6, <1>7, <1>9, <1>12

\* retrieve() drops the bytes in front.
LEMMA RetrievedIs ==
  ASSUME NEW b, IsBuffer(b), NEW n \in 0 .. Readable(b)
  PROVE  /\ IsBuffer(Retrieved(b, n))
         /\ Retrieved(b, n).size = b.size
         /\ Contents(Retrieved(b, n)) =
              [i \in 1 .. Len(Contents(b)) - n |-> Contents(b)[n + i]]
<1>1. PICK r \in Nat : r = b.reader + n
  BY FieldsOf
<1>2. PICK c : c = Indexed(b, r, b.writer)
  OBVIOUS
<1>3. /\ IsBuffer(c)
      /\ c.size = b.size
      /\ c.reader = r
      /\ c.writer = b.writer
      /\ c.data = b.data
  <2>1. b.writer \in Nat /\ r <= b.writer /\ b.writer <= b.size
    BY <1>1, FieldsOf
  <2> QED
    BY <1>2, <2>1, IndexedIs
<1>4. Retrieved(b, n) = c
  BY <1>1, <1>2 DEF Retrieved, Indexed, IsBuffer, Record
<1>5. PICK u \in Seq(Bytes) :
        /\ u = Contents(b)
        /\ Len(u) = Readable(b)
        /\ \A i \in 1 .. Readable(b) : u[i] = b.data[b.reader + i - 1]
  BY ContentsIs
<1>6. PICK k \in Nat : k = Len(u) - n /\ Readable(c) = k
  BY <1>1, <1>3, <1>5, FieldsOf, SMTT(30)
<1>7. Contents(c) = [i \in 1 .. k |-> c.data[r + i - 1]]
  BY <1>3, <1>6 DEF Contents, Peek
<1>8. ASSUME NEW i \in 1 .. k
      PROVE  c.data[r + i - 1] = u[n + i]
  <2>1. n + i \in 1 .. Readable(b) /\ b.reader + (n + i) - 1 = r + i - 1
    BY <1>1, <1>5, <1>6, FieldsOf, SMTT(30)
  <2> QED
    BY <1>3, <1>5, <2>1
<1>9. Contents(c) = [i \in 1 .. k |-> u[n + i]]
  BY <1>7, <1>8
<1> QED
  BY <1>3, <1>4, <1>5, <1>6, <1>9

\* A buffer without readable bytes
LEMMA EmptyIs ==
  ASSUME NEW b, IsBuffer(b), b.reader = b.writer
  PROVE  Contents(b) = <<>> /\ Readable(b) = 0
<1>1. Readable(b) = 0
  BY FieldsOf
<1>2. PICK e \in Seq(Bytes) : e = <<>> /\ Len(e) = 0
  <2>1. <<>> \in Seq(Bytes) /\ Len(<<>>) = 0
    OBVIOUS
  <2> QED
    BY <2>1, Zenon
<1>3. \A i \in 1 .. Len(e) : b.data[b.reader + i - 1] = e[i]
  BY <1>2
<1>4. Contents(b) = e
  BY <1>1, <1>2, <1>3, ContentsAre
<1> QED
  BY <1>1, <1>2, <1>4

LEMMA RetrievedAllIs ==
  ASSUME NEW b, IsVector(b)
  PROVE  /\ IsBuffer(RetrievedAll(b))
         /\ Contents(RetrievedAll(b)) = <<>>
         /\ Readable(RetrievedAll(b)) = 0
<1>1. RetrievedAll(b) = Indexed(b, CheapPrepend, CheapPrepend)
  BY DEF RetrievedAll, Indexed
<1>2. PICK c : c = Indexed(b, CheapPrepend, CheapPrepend)
  OBVIOUS
<1>3. IsBuffer(c) /\ c.reader = c.writer
  <2>1. CheapPrepend \in Nat /\ CheapPrepend <= CheapPrepend
    BY BufferConstants
  <2>2. CheapPrepend <= b.size
    BY DEF IsVector
  <2> QED
    BY <1>2, <2>1, <2>2, VectorIndexed
<1> QED
  BY <1>1, <1>2, <1>3, EmptyIs

LEMMA NewIs == IsBuffer(New) /\ Contents(New) = <<>> /\ Readable(New) = 0
<1>1. IsBuffer(New)
  BY BufferConstants DEF New, IsBuffer, Record
<1>2. New.reader = New.writer
  BY DEF New
<1> QED
  BY <1>1, <1>2, EmptyIs

\* readFd() adds s at the end, received in one part or in two.
LEMMA ReadFromIs ==
  ASSUME NEW b, IsBuffer(b), NEW s \in Seq(Bytes)
  PROVE  /\ IsBuffer(ReadFrom(b, s))
         /\ Contents(ReadFrom(b, s)) = Contents(b) \o s
         /\ \/ ReadFrom(b, s).size = b.size
            \/ b.size < Readable(b) + Len(s) + CheapPrepend
<1>1. CASE Len(s) <= Writable(b)
  <2>1. b.writer \in Nat /\ b.writer + Len(s) <= b.size
    BY <1>1, FieldsOf
  <2>2. b.writer = CopiedTo(b, s, b.writer).writer
    BY <2>1, CopiedToIs
  <2>3. ReadFrom(b, s) = Filled(b, s)
    BY <1>1, <2>2 DEF ReadFrom, Filled
  <2> QED
    BY <1>1, <2>3, FilledIs
<1>2. CASE ~ (Len(s) <= Writable(b))
  <2>1. PICK fits \in Nat : fits = Writable(b) /\ fits < Len(s)
    BY <1>2, FieldsOf
  <2>2. PICK u : u = [i \in 1 .. fits |-> s[i]]
    OBVIOUS
  <2>3. PICK v : v = [i \in 1 .. Len(s) - fits |-> s[fits + i]]
    OBVIOUS
  <2>4. u \in Seq(Bytes) /\ Len(u) = fits
    <3>1. \A i \in 1 .. fits : s[i] \in Bytes
      BY <2>1
    <3>2. u \in [1 .. fits -> Bytes]
      BY <2>2, <3>1
    <3> QED
      BY <3>2, FunctionIsSeq
  <2>5. v \in Seq(Bytes) /\ Len(v) = Len(s) - fits
    <3>1. \A i \in 1 .. Len(s) - fits : s[fits + i] \in Bytes
      BY <2>1
    <3>2. Len(s) - fits \in Nat /\ v \in [1 .. Len(s) - fits -> Bytes]
      BY <2>1, <2>3, <3>1
    <3> QED
      BY <3>2, FunctionIsSeq
  <2>6. s = u \o v
    <3>1. Len(s) = Len(u) + Len(v)
      BY <2>1, <2>4, <2>5
    <3>2. \A i \in 1 .. Len(u) : s[i] = u[i]
      BY <2>2, <2>4
    <3>3. \A i \in 1 .. Len(v) : s[Len(u) + i] = v[i]
      BY <2>3, <2>4, <2>5
    <3> QED
      BY <2>4, <2>5, <3>1, <3>2, <3>3, IsConcat
  <2>7. PICK a : a = Filled(b, u)
    OBVIOUS
  <2>8. /\ IsBuffer(a)
        /\ a.size = b.size
        /\ a.writer = b.writer + fits
        /\ Contents(a) = Contents(b) \o u
    BY <2>1, <2>4, <2>7, FilledIs, SMTT(30)
  <2>9. b.writer + fits = b.size
    BY <2>1, FieldsOf
  <2>10. ReadFrom(b, s) = Appended(a, v)
    <3>1. a = [CopiedTo(b, u, b.writer) EXCEPT !.writer = b.size]
      BY <2>4, <2>7, <2>9 DEF Filled
    <3> QED
      BY <1>2, <2>1, <2>2, <2>3, <3>1 DEF ReadFrom
  <2>11. PICK r \in Seq(Bytes) : r = Contents(b) /\ Len(r) = Readable(b)
    BY ContentsIs
  <2>12. (r \o u) \o v = r \o s
    BY <2>4, <2>5, <2>6, <2>11
  <2>13. Readable(a) + Len(v) = Readable(b) + Len(s)
    <3>1. Readable(a) = Len(r \o u)
      BY <2>8, <2>11, ContentsIs
    <3>2. Len(r \o u) = Readable(b) + fits
      BY <2>4, <2>11
    <3>3. Len(v) = Len(s) - fits /\ Len(s) \in Nat /\ Readable(b) \in Nat
      BY <2>5, <2>11
    <3> QED
      BY <2>1, <3>1, <3>2, <3>3
  <2> QED
    BY <2>5, <2>8, <2>10, <2>11, <2>12, <2>13, AppendedIs
<1> QED
  BY <1>1, <1>2

\* shrink() keeps the readable bytes if they start at kCheapPrepend, and leaves
\* indices that may be wrong otherwise.
LEMMA ShrunkIs ==
  ASSUME NEW b, IsBuffer(b), NEW reserve \in Nat
  PROVE  /\ IsVector(Shrunk(b, reserve))
         /\ Readable(Shrunk(b, reserve)) = Readable(b)
         /\ b.reader = CheapPrepend =>
              /\ IsBuffer(Shrunk(b, reserve))
              /\ Contents(Shrunk(b, reserve)) = Contents(b)
<1>1. PICK n \in Nat : n = CheapPrepend + Readable(b) + reserve
  BY FieldsOf
<1>2. PICK d : d = [i \in 0 .. n - 1 |-> Zero]
  OBVIOUS
<1>3. d \in [0 .. n - 1 -> Bytes]
  BY <1>2, BufferConstants
<1>4. PICK a : a = Zeroed(b, n)
  OBVIOUS
<1>5. /\ a.size = n
      /\ a.reader = b.reader
      /\ a.writer = b.writer
      /\ a.data = d
      /\ a \in Record
  <2>1. a = [b EXCEPT !.size = n, !.data = d]
    BY <1>2, <1>4 DEF Zeroed
  <2> QED
    BY <1>1, <1>3, <2>1 DEF IsBuffer, Record
<1>6. CheapPrepend <= n
  BY <1>1, FieldsOf
<1>7. IsVector(a)
  BY <1>3, <1>5, <1>6, FieldsOf DEF IsVector
<1>8. PICK s \in Seq(Bytes) : s = Contents(b) /\ Len(s) = Readable(b)
  BY ContentsIs
<1>9. PICK c : c = CopiedTo(a, s, CheapPrepend)
  OBVIOUS
<1>10. /\ IsVector(c)
       /\ c.size = n
       /\ c.reader = b.reader
       /\ c.writer = b.writer
       /\ \A i \in 1 .. Len(s) : c.data[CheapPrepend + i - 1] = s[i]
  <2>1. CheapPrepend \in Nat /\ CheapPrepend + Len(s) <= a.size
    BY <1>1, <1>5, <1>8, FieldsOf
  <2> QED
    BY <1>5, <1>7, <1>9, <2>1, VectorCopied
<1>11. Readable(c) = Len(s)
  BY <1>8, <1>10 DEF Readable
<1>12. ASSUME b.reader = CheapPrepend
       PROVE  IsBuffer(c) /\ Contents(c) = s
  <2>1. c.writer <= c.size
    BY <1>1, <1>10, <1>12, FieldsOf
  <2>2. IsBuffer(c)
    BY <1>10, <2>1 DEF IsBuffer, IsVector
  <2> QED
    BY <1>10, <1>11, <1>12, <2>2, ContentsAre
<1>13. Shrunk(b, reserve) = c
  <2>1. Shrunk(b, reserve) =
          CopiedTo(Zeroed(b, CheapPrepend + Readable(b) + reserve), Contents(b), CheapPrepend)
    BY DEF Shrunk
  <2> QED
    BY <1>1, <1>4, <1>8, <1>9, <2>1
<1> QED
  BY <1>8, <1>10, <1>11, <1>12, <1>13

-----------------------------------------------------------------------------
(* The calls *)

\* What a step does to the queue of bytes
QueueStep == ByteQueue!Next \/ Misplaced \/ UNCHANGED <<Held, call>>

\* What there is to read while the indices are right
LEMMA HeldIs ==
  /\ ~ stale => Held = Contents(buffer)
  /\ stale => Held = <<>>
  /\ ~ stale' => Held' = Contents(buffer')
  /\ stale' => Held' = <<>>
BY DEF Held

LEMMA RightAgain ==
  ASSUME ~ stale', stale' \in BOOLEAN, IsBuffer(buffer')
  PROVE  Inv'
<1>1. IsVector(buffer')
  BY DEF IsBuffer, IsVector
<1> QED
  BY <1>1, Zenon DEF Inv

LEMMA BufferIsVector ==
  ASSUME NEW b, IsBuffer(b)
  PROVE  IsVector(b)
BY DEF IsBuffer, IsVector

GrowthStep ==
  (buffer'.size > buffer.size /\ Readable(buffer') > Readable(buffer))
    => Readable(buffer') + CheapPrepend > buffer.size

\* Bytes added at the end
LEMMA PutKeeps ==
  ASSUME Inv, ~ stale, NEW s \in Chunks, Write(s) \/ ReadFd(s)
  PROVE  Inv' /\ QueueStep /\ GrowthStep
<1>1. s \in Seq(Bytes) /\ IsBuffer(buffer) /\ ~ stale' /\ stale' \in BOOLEAN
  <2>1. s \in Seq(Bytes) /\ IsBuffer(buffer) /\ stale \in BOOLEAN
    BY ChunksAreSeqs DEF Inv
  <2>2. stale' = stale
    BY DEF Write, ReadFd
  <2> QED
    BY <2>1, <2>2, Zenon
<1>2. /\ IsBuffer(buffer')
      /\ Contents(buffer') = Contents(buffer) \o s
      /\ \/ buffer'.size = buffer.size
         \/ buffer.size < Readable(buffer) + Len(s) + CheapPrepend
      /\ call' = <<"put", s>>
  <2>1. CASE Write(s)
    BY <1>1, <2>1, AppendedIs DEF Write
  <2>2. CASE ReadFd(s)
    BY <1>1, <2>2, ReadFromIs DEF ReadFd
  <2> QED
    BY <2>1, <2>2
<1>3. QueueStep
  <2>1. ByteQueue!Put(s)
    BY <1>1, <1>2, HeldIs DEF ByteQueue!Put
  <2> QED
    BY <2>1 DEF QueueStep, ByteQueue!Next
<1>4. GrowthStep
  <2>1. Readable(buffer') = Readable(buffer) + Len(s)
    <3>1. PICK u \in Seq(Bytes) : u = Contents(buffer) /\ Len(u) = Readable(buffer)
      BY <1>1, ContentsIs
    <3>2. Readable(buffer') = Len(u \o s)
      BY <1>2, <3>1, ContentsIs
    <3> QED
      BY <1>1, <3>1, <3>2
  <2>2. buffer.size \in Nat /\ buffer'.size \in Nat /\ Readable(buffer) \in Nat
    BY <1>1, <1>2, FieldsOf
  <2> QED
    BY <1>1, <1>2, <2>1, <2>2, BufferConstants DEF GrowthStep
<1> QED
  BY <1>1, <1>2, <1>3, <1>4, RightAgain

\* Bytes added in front
LEMMA PrependKeeps ==
  ASSUME Inv, ~ stale, NEW s \in Chunks, Prepend(s)
  PROVE  Inv' /\ QueueStep /\ GrowthStep
<1>1. s \in Seq(Bytes) /\ IsBuffer(buffer) /\ ~ stale' /\ stale' \in BOOLEAN
  BY ChunksAreSeqs, Zenon DEF Inv, Prepend
<1>2. /\ IsBuffer(buffer')
      /\ buffer'.size = buffer.size
      /\ Contents(buffer') = s \o Contents(buffer)
      /\ call' = <<"putFront", s>>
  BY <1>1, PrependedIs DEF Prepend
<1>3. QueueStep
  <2>1. ByteQueue!PutFront(s)
    BY <1>1, <1>2, HeldIs DEF ByteQueue!PutFront
  <2> QED
    BY <2>1 DEF QueueStep, ByteQueue!Next
<1>4. GrowthStep
  BY <1>1, <1>2, FieldsOf DEF GrowthStep
<1> QED
  BY <1>1, <1>2, <1>3, <1>4, RightAgain

\* Bytes taken from the front
LEMMA RetrieveKeeps ==
  ASSUME Inv, ~ stale, NEW len \in 0 .. Readable(buffer), Retrieve(len)
  PROVE  Inv' /\ QueueStep /\ GrowthStep
<1>1. IsBuffer(buffer) /\ Len(Contents(buffer)) = Readable(buffer) /\ ~ stale' /\ stale' \in BOOLEAN
  BY ContentsIs, Zenon DEF Inv, Retrieve
<1>2. /\ IsBuffer(buffer')
      /\ buffer'.size = buffer.size
      /\ Contents(buffer') =
           [i \in 1 .. Len(Contents(buffer)) - len |-> Contents(buffer)[len + i]]
      /\ call' = <<"take", Peek(buffer, len)>>
  BY <1>1, RetrievedIs DEF Retrieve
<1>3. Peek(buffer, len) = ByteQueue!Prefix(len)
  <2>1. \A i \in 1 .. len : i \in 1 .. Readable(buffer)
    BY <1>1, FieldsOf
  <2>2. \A i \in 1 .. len : Contents(buffer)[i] = buffer.data[buffer.reader + i - 1]
    BY <1>1, <2>1, ContentsIs
  <2> QED
    BY <2>2, HeldIs DEF Peek, ByteQueue!Prefix
<1>4. QueueStep
  <2>1. ByteQueue!Take(len)
    BY <1>1, <1>2, <1>3, HeldIs DEF ByteQueue!Take
  <2> QED
    BY <1>1, <2>1, HeldIs DEF QueueStep, ByteQueue!Next
<1>5. GrowthStep
  BY <1>1, <1>2, FieldsOf DEF GrowthStep
<1> QED
  BY <1>1, <1>2, <1>4, <1>5, RightAgain

\* All bytes taken, with a vector that is kept or a new one
LEMMA TakeAllKeeps ==
  ASSUME Inv, RetrieveAll \/ Swap
  PROVE  Inv' /\ QueueStep /\ GrowthStep
<1>1. IsVector(buffer) /\ ~ stale' /\ stale' \in BOOLEAN
  BY Zenon DEF Inv, RetrieveAll, Swap
<1>2. PICK u \in Seq(Bytes) : u = Held
  <2>1. CASE stale
    <3>1. <<>> \in Seq(Bytes)
      OBVIOUS
    <3> QED
      BY <2>1, <3>1, HeldIs, Zenon
  <2>2. CASE ~ stale
    BY <2>2, HeldIs, ContentsIs DEF Inv
  <2> QED
    BY <2>1, <2>2
<1>3. /\ IsBuffer(buffer')
      /\ Contents(buffer') = <<>>
      /\ Readable(buffer') = 0
      /\ call' = <<"take", u>>
  <2>1. CASE RetrieveAll
    BY <1>1, <1>2, <2>1, RetrievedAllIs DEF RetrieveAll
  <2>2. CASE Swap
    BY <1>2, <2>2, NewIs DEF Swap
  <2> QED
    BY <2>1, <2>2
<1>4. QueueStep
  <2>1. PICK n \in Nat : n = Len(u)
    BY <1>2
  <2>2. <<>> = [i \in 1 .. n - n |-> u[n + i]]
    BY <2>1
  <2>3. u = [i \in 1 .. n |-> u[i]]
    BY <2>1
  <2>4. ByteQueue!Take(n)
    BY <1>1, <1>2, <1>3, <2>1, <2>2, <2>3, HeldIs DEF ByteQueue!Take, ByteQueue!Prefix
  <2> QED
    BY <1>2, <2>1, <2>4 DEF QueueStep, ByteQueue!Next
<1>5. GrowthStep
  <2>1. Readable(buffer) \in Nat
    BY <1>1 DEF IsVector, Record, Readable
  <2> QED
    BY <1>3, <2>1 DEF GrowthStep
<1> QED
  BY <1>1, <1>3, <1>4, <1>5, RightAgain

\* The vector replaced by one that fits, with the indices it had
LEMMA ShrinkKeeps ==
  ASSUME Inv, ~ stale, NEW reserve \in Nat, Shrink(reserve)
  PROVE  Inv' /\ QueueStep /\ GrowthStep
<1>1. IsBuffer(buffer)
  BY DEF Inv
<1>2. /\ IsVector(buffer')
      /\ Readable(buffer') = Readable(buffer)
      /\ buffer.reader = CheapPrepend =>
           IsBuffer(buffer') /\ Contents(buffer') = Contents(buffer)
      /\ call' = call
      /\ stale' = (buffer.reader # CheapPrepend)
  BY <1>1, ShrunkIs DEF Shrink
<1>3. Inv'
  BY <1>2 DEF Inv
<1>4. QueueStep
  <2>1. CASE stale'
    BY <1>2, <2>1 DEF QueueStep, Misplaced
  <2>2. CASE ~ stale'
    BY <1>2, <2>2, HeldIs DEF QueueStep
  <2> QED
    BY <2>1, <2>2
<1>5. GrowthStep
  BY <1>1, <1>2, FieldsOf DEF GrowthStep
<1> QED
  BY <1>3, <1>4, <1>5

LEMMA EveryCallKeeps ==
  ASSUME Inv, Next
  PROVE  Inv' /\ QueueStep /\ GrowthStep
<1>1. CASE ~ stale /\ \E s \in Chunks : Write(s) \/ ReadFd(s)
  BY <1>1, PutKeeps
<1>2. CASE ~ stale /\ \E s \in Chunks : Prepend(s)
  BY <1>2, PrependKeeps
<1>3. CASE ~ stale /\ \E len \in 0 .. Readable(buffer) : Retrieve(len)
  BY <1>3, RetrieveKeeps
<1>4. CASE RetrieveAll \/ Swap
  BY <1>4, TakeAllKeeps
<1>5. CASE ~ stale /\ \E reserve \in 0 .. MaxChunk : Shrink(reserve)
  <2>1. PICK reserve \in 0 .. MaxChunk : Shrink(reserve)
    BY <1>5
  <2>2. reserve \in Nat
    BY BufferConstants
  <2> QED
    BY <1>5, <2>1, <2>2, ShrinkKeeps
<1> QED
  BY <1>1, <1>2, <1>3, <1>4, <1>5 DEF Next

-----------------------------------------------------------------------------
(* The theorems *)

LEMMA AlwaysInv == Spec => []Inv
<1>1. Init => Inv
  BY NewIs, BufferIsVector DEF Init, Inv
<1>2. Inv /\ [Next]_vars => Inv'
  <2>1. Inv /\ Next => Inv'
    BY EveryCallKeeps
  <2>2. Inv /\ UNCHANGED vars => Inv'
    BY DEF Inv, vars
  <2> QED
    BY <2>1, <2>2
<1> QED
  BY <1>1, <1>2, PTL DEF Spec

\* For any sizes of the vector, of the room for prepend() and of extrabuf, and
\* any sequence of calls, readerIndex_ and writerIndex_ stay in order, and
\* within the vector unless shrink() has been called while readerIndex_ was
\* not kCheapPrepend and neither retrieveAll() nor swap() since.
THEOREM TypeCorrect == Spec => []TypeOK
<1>1. Inv => TypeOK
  BY DEF Inv, TypeOK, IsVector, IsBuffer, Record
<1> QED
  BY <1>1, AlwaysInv, PTL

\* The Buffer implements the queue of bytes: append(), prepend(), readFd(),
\* retrieve() and swap() lose, repeat and reorder no byte, nor does shrink()
\* if readerIndex_ is kCheapPrepend.
THEOREM BufferIsQueue == Spec => ImplementsByteQueue
<1>1. Init => ByteQueue!Init
  BY NewIs, HeldIs DEF Init, ByteQueue!Init
<1>2. Inv /\ [Next]_vars => [ByteQueue!Next \/ Misplaced]_<<Held, call>>
  <2>1. Inv /\ Next => QueueStep
    BY EveryCallKeeps
  <2>2. UNCHANGED vars => QueueStep
    BY DEF QueueStep, vars, Held
  <2> QED
    BY <2>1, <2>2 DEF QueueStep
<1> QED
  BY <1>1, <1>2, AlwaysInv, PTL DEF Spec, ImplementsByteQueue

\* makeSpace() lets the vector grow only if what is to be read and the room
\* for prepend() do not fit in it.
THEOREM GrowsOnlyIfItMust == Spec => GrowsOnlyIfNeeded
<1>1. Inv /\ [Next]_vars => [GrowthStep]_vars
  BY EveryCallKeeps
<1> QED
  BY <1>1, AlwaysInv, PTL DEF Spec, GrowsOnlyIfNeeded, GrowthStep
=============================================================================

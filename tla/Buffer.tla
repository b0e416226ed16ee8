------------------------------- MODULE Buffer -------------------------------
(***************************************************************************)
(* net/Buffer.{h,cc}: the byte buffer of a TcpConnection, a vector of char *)
(* and two indices.  One object is used by one thread at a time, so every  *)
(* member function is a single step.  A Buffer is a record and a member    *)
(* function an operator from the Buffer before to the Buffer after it.     *)
(***************************************************************************)
EXTENDS Integers, Sequences

CONSTANTS
  Bytes,           \* the values of a char
  Zero,            \* the char that vector<char> fills new elements with
  CheapPrepend,    \* kCheapPrepend, 8 in the code
  InitialSize,     \* kInitialSize, 1024 in the code
  ExtraBuf,        \* sizeof extrabuf in readFd(), 65536 in the code
  MaxChunk,        \* bound: the length of what one call writes
  MaxSize          \* bound: the size of the vector

ASSUME BufferConstants ==
  /\ Zero \in Bytes
  /\ CheapPrepend \in Nat
  /\ InitialSize \in Nat
  /\ ExtraBuf \in Nat
  /\ MaxChunk \in Nat
  /\ MaxSize \in Nat

Chunks == UNION {[1 .. n -> Bytes] : n \in 0 .. MaxChunk}

VARIABLES
  buffer,    \* [data: the vector, size, reader: readerIndex_, writer]
  call,      \* the last call and the bytes it gave or took
  stale      \* history: shrink() has left indices of the old layout

vars == <<buffer, call, stale>>

-----------------------------------------------------------------------------
(* The members *)

New == [data |-> [i \in 0 .. CheapPrepend + InitialSize - 1 |-> Zero],
        size |-> CheapPrepend + InitialSize,
        reader |-> CheapPrepend,
        writer |-> CheapPrepend]

Readable(b) == b.writer - b.reader
Writable(b) == b.size - b.writer
Prependable(b) == b.reader

\* The len bytes from peek() on; the readable ones end at beginWrite().
Peek(b, len) == [i \in 1 .. len |-> b.data[b.reader + i - 1]]
Contents(b) == Peek(b, Readable(b))

\* std::copy of s to begin() + at.
CopiedTo(b, s, at) ==
  [b EXCEPT !.data = [i \in 0 .. b.size - 1 |->
     IF at <= i /\ i < at + Len(s) THEN s[i - at + 1] ELSE b.data[i]]]

Resized(b, n) ==
  [b EXCEPT !.size = n,
            !.data = [i \in 0 .. n - 1 |-> IF i < b.size THEN b.data[i] ELSE Zero]]

\* The readable bytes are moved down to kCheapPrepend.
MovedDown(b) ==
  [CopiedTo(b, Contents(b), CheapPrepend) EXCEPT
     !.reader = CheapPrepend,
     !.writer = CheapPrepend + Readable(b)]

\* A plausible mistake: the room kept for prepend() is not counted.
SpaceMade_ForgetsPrepend(b, len) ==
  IF Writable(b) + Prependable(b) < len
  THEN Resized(b, b.writer + len)
  ELSE MovedDown(b)

\* Another: the bytes that may be prepended are not reclaimed.
SpaceMade_AlwaysGrows(b, len) == Resized(b, b.writer + len)

\* makeSpace()
SpaceMade(b, len) ==
  IF Writable(b) + Prependable(b) < len + CheapPrepend
  THEN Resized(b, b.writer + len)
  ELSE MovedDown(b)

\* append(data, len), with ensureWritableBytes() and hasWritten()
Appended(b, s) ==
  LET roomy == IF Writable(b) < Len(s) THEN SpaceMade(b, Len(s)) ELSE b
  IN  [CopiedTo(roomy, s, roomy.writer) EXCEPT !.writer = @ + Len(s)]

\* prepend(data, len)
Prepended(b, s) ==
  CopiedTo([b EXCEPT !.reader = @ - Len(s)], s, b.reader - Len(s))

\* retrieve(len)
Retrieved(b, len) == [b EXCEPT !.reader = @ + len]

\* retrieveAll()
RetrievedAll(b) == [b EXCEPT !.reader = CheapPrepend, !.writer = CheapPrepend]

\* A plausible mistake: writerIndex_ is not moved behind what did fit.
ReadFrom_KeepsWriter(b, s) ==
  LET fits == Writable(b)
  IN  IF Len(s) <= fits
      THEN [CopiedTo(b, s, b.writer) EXCEPT !.writer = @ + Len(s)]
      ELSE Appended(b, [i \in 1 .. Len(s) - fits |-> s[fits + i]])

\* readFd(), when readv() has received s: what does not fit behind the
\* readable bytes has gone to extrabuf, and is appended.
ReadFrom(b, s) ==
  LET fits == Writable(b)
      first == [i \in 1 .. fits |-> s[i]]
      rest == [i \in 1 .. Len(s) - fits |-> s[fits + i]]
  IN  IF Len(s) <= fits
      THEN [CopiedTo(b, s, b.writer) EXCEPT !.writer = @ + Len(s)]
      ELSE Appended([CopiedTo(b, first, b.writer) EXCEPT !.writer = b.size], rest)

\* A vector of n bytes in the place of the old one
Zeroed(b, n) == [b EXCEPT !.size = n, !.data = [i \in 0 .. n - 1 |-> Zero]]

\* shrink(reserve): the indices stay as they were.
Shrunk(b, reserve) ==
  CopiedTo(Zeroed(b, CheapPrepend + Readable(b) + reserve), Contents(b), CheapPrepend)

\* What there is to read: of a Buffer with stale indices, nothing that was put in.
Held == IF stale THEN <<>> ELSE Contents(buffer)

-----------------------------------------------------------------------------
(* The calls, in any order that the assertions of the members allow.  After *)
(* a shrink() that leaves stale indices the calls that read or write the    *)
(* vector are undefined, and left out: retrieveAll() and swap() are not.    *)

Init ==
  /\ buffer = New
  /\ call = <<"take", <<>>>>
  /\ stale = FALSE

\* append()
Write(s) ==
  /\ buffer' = Appended(buffer, s)
  /\ call' = <<"put", s>>
  /\ UNCHANGED stale

\* readFd(), when readv() has received s: its failure changes nothing.
ReadFd(s) ==
  /\ Len(s) <= Writable(buffer) + ExtraBuf
  /\ buffer' = ReadFrom(buffer, s)
  /\ call' = <<"put", s>>
  /\ UNCHANGED stale

Prepend(s) ==
  /\ Len(s) <= Prependable(buffer)
  /\ buffer' = Prepended(buffer, s)
  /\ call' = <<"putFront", s>>
  /\ UNCHANGED stale

\* peek(), then retrieve() or retrieveUntil()
Retrieve(len) ==
  /\ buffer' = Retrieved(buffer, len)
  /\ call' = <<"take", Peek(buffer, len)>>
  /\ UNCHANGED stale

\* retrieveAll(), alone or at the end of retrieveAsString()
RetrieveAll ==
  /\ buffer' = RetrievedAll(buffer)
  /\ call' = <<"take", Held>>
  /\ stale' = FALSE

\* swap() with a new Buffer, which takes what there was to read.
Swap ==
  /\ buffer' = New
  /\ call' = <<"take", Held>>
  /\ stale' = FALSE

\* shrink() puts the readable bytes at kCheapPrepend of a new vector and leaves
\* readerIndex_ and writerIndex_ where they were.  Nothing in the repository
\* calls it.
Shrink(reserve) ==
  /\ buffer' = Shrunk(buffer, reserve)
  /\ stale' = (buffer.reader # CheapPrepend)
  /\ UNCHANGED call

Next ==
  \/ /\ ~ stale
     /\ \/ \E s \in Chunks : Write(s) \/ ReadFd(s)
        \/ \E reserve \in 0 .. MaxChunk : Shrink(reserve)
     /\ buffer'.size <= MaxSize
  \/ /\ ~ stale
     /\ \/ \E s \in Chunks : Prepend(s)
        \/ \E len \in 0 .. Readable(buffer) : Retrieve(len)
  \/ RetrieveAll
  \/ Swap

Spec == Init /\ [][Next]_vars

-----------------------------------------------------------------------------
(* Correctness *)

\* The indices lie in order within the vector, whatever the calls and their
\* order, as long as shrink() is not called while readerIndex_ is elsewhere than
\* at kCheapPrepend: every copy of append(), prepend() and readFd() stays inside
\* the vector, and no unsigned subtraction wraps.
TypeOK ==
  /\ stale \in BOOLEAN
  /\ buffer.size \in Nat
  /\ buffer.reader \in Nat
  /\ buffer.writer \in Nat
  /\ buffer.reader <= buffer.writer
  /\ ~ stale => buffer.writer <= buffer.size
  /\ buffer.data \in [0 .. buffer.size - 1 -> Bytes]

\* The readable bytes are a queue: growing the vector, moving the bytes down
\* over themselves, receiving in two parts and shrink() lose, repeat and reorder
\* none, with one exception: shrink() when readerIndex_ is not kCheapPrepend,
\* that is after retrieve() of a part or after prepend(), makes the indices
\* stale, and what was to be read is out of reach.  The queue is then taken
\* to be empty, and is whole again from the next retrieveAll() or swap() on.
ByteQueue == INSTANCE ByteQueue WITH bytes <- Held
Misplaced == buffer.reader # CheapPrepend /\ ~ stale /\ stale'
ImplementsByteQueue == ByteQueue!Init /\ [][ByteQueue!Next \/ Misplaced]_<<Held, call>>

\* makeSpace() lets the vector grow with what it holds only if the readable
\* bytes and the room for prepend() would not fit otherwise: the memory of a
\* connection follows what is unread, not what has ever been received.
GrowsOnlyIfNeeded ==
  [][(buffer'.size > buffer.size /\ Readable(buffer') > Readable(buffer))
     => Readable(buffer') + CheapPrepend > buffer.size]_vars
=============================================================================

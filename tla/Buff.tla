-------------------------------- MODULE Buff --------------------------------
(***************************************************************************)
(* Buff (src/src/buffer.h, buffer.cc), the input and output buffer of a    *)
(* TcpConnection: one vector of bytes, of which those from readerIndex_ up *)
(* to writerIndex_ are the content.  The room in front of it (at first the *)
(* kCheapPrepend bytes reserved for a header) and behind it is of varying  *)
(* size; when a write does not fit behind, the content is moved to the     *)
(* front, or the vector grows.                                             *)
(*                                                                         *)
(* Bytes outside the content are whatever was there before.  A Buff is     *)
(* used by one thread, so that each member function is one step.           *)
(***************************************************************************)
EXTENDS Integers, Sequences

CONSTANTS
  Names,            \* the buffers: two, if they are to be swapped
  Byte,             \* the values of a byte
  Zero,             \* the one that resize() puts into new places
  Data,             \* the strings of bytes that one call may write
  kCheapPrepend,    \* bytes reserved in front (8 in the code)
  initialSize,      \* bytes of room behind (kInitialSize is 1024)
  ExtraBuf,         \* size of readFd's buffer on the stack (65536)
  MaxContent,       \* most bytes a buffer ever holds (a bound)
  MaxLen            \* longest string in Data

ASSUME BuffAssumption ==
  /\ Zero \in Byte
  /\ kCheapPrepend \in Nat
  /\ initialSize \in Nat
  /\ ExtraBuf \in Nat
  /\ MaxContent \in Nat
  /\ MaxLen \in Nat
  /\ Data \subseteq Seq(Byte)
  /\ \A d \in Data : Len(d) \in 1..MaxLen

VARIABLE buffs      \* of each buffer: buf_, its size(), readerIndex_, writerIndex_

-----------------------------------------------------------------------------
(* The member functions, as operators on a buffer b.                       *)

readableBytes(b) == b.writerIndex - b.readerIndex
writableBytes(b) == b.size - b.writerIndex
prependableBytes(b) == b.readerIndex

\* What peek() and readableBytes() let the user read.
Content(b) == [i \in 1..readableBytes(b) |-> b.buf[b.readerIndex + i - 1]]

\* std::copy of the bytes to the places from `at' on.
Copied(buf, bytes, at) ==
  [i \in DOMAIN buf |-> IF i \in at..(at + Len(bytes) - 1)
                        THEN bytes[i - at + 1] ELSE buf[i]]

New == [buf |-> [i \in 0..(kCheapPrepend + initialSize - 1) |-> Zero],
        size |-> kCheapPrepend + initialSize,
        readerIndex |-> kCheapPrepend,
        writerIndex |-> kCheapPrepend]

retrieveAll(b) == [b EXCEPT !.readerIndex = kCheapPrepend,
                            !.writerIndex = kCheapPrepend]

\* Seeded fault: taking more than there is does not empty the buffer.
retrieveUnchecked(b, len) == [b EXCEPT !.readerIndex = @ + len]

retrieve(b, len) ==
  IF len < readableBytes(b) THEN [b EXCEPT !.readerIndex = @ + len]
                            ELSE retrieveAll(b)

resize(b, size) ==
  [b EXCEPT !.buf = [i \in 0..(size - 1) |->
                       IF i < b.size THEN b.buf[i] ELSE Zero],
            !.size = size]

\* The content moves to the front.
moveToFront(b) ==
  [b EXCEPT !.buf = Copied(b.buf, Content(b), kCheapPrepend),
            !.readerIndex = kCheapPrepend,
            !.writerIndex = kCheapPrepend + readableBytes(b)]

\* Seeded fault: the room in front is never used again.
makeSpaceGrows(b, len) == resize(b, len + b.writerIndex)

\* Seeded fault: the indices are set, but the content is not moved.
makeSpaceForgets(b, len) ==
  IF writableBytes(b) + prependableBytes(b) < len + kCheapPrepend
  THEN resize(b, len + b.writerIndex)
  ELSE [b EXCEPT !.readerIndex = kCheapPrepend,
                 !.writerIndex = kCheapPrepend + readableBytes(b)]

makeSpace(b, len) ==
  IF writableBytes(b) + prependableBytes(b) < len + kCheapPrepend
  THEN resize(b, len + b.writerIndex)
  ELSE moveToFront(b)

ensureWritableBytes(b, len) ==
  IF writableBytes(b) < len THEN makeSpace(b, len) ELSE b

\* The user writes at beginWrite() and calls hasWritten.
written(b, bytes) == [b EXCEPT !.buf = Copied(b.buf, bytes, b.writerIndex),
                               !.writerIndex = b.writerIndex + Len(bytes)]

append(b, bytes) == written(ensureWritableBytes(b, Len(bytes)), bytes)

prepend(b, bytes) ==
  [b EXCEPT !.readerIndex = b.readerIndex - Len(bytes),
            !.buf = Copied(b.buf, bytes, b.readerIndex - Len(bytes))]

unwrite(b, len) == [b EXCEPT !.writerIndex = @ - len]

\* readFd, when readv() returns these bytes: what does not fit behind the
\* content goes to extrabuf first.
readFd(b, bytes) ==
  LET writable == writableBytes(b)
  IN  IF Len(bytes) <= writable
      THEN written(b, bytes)
      ELSE append(written(b, SubSeq(bytes, 1, writable)),
                  SubSeq(bytes, writable + 1, Len(bytes)))

\* The most that readv() can return: extrabuf is used only if it is larger
\* than the room behind the content.
readvLimit(b) ==
  IF writableBytes(b) < ExtraBuf THEN writableBytes(b) + ExtraBuf
                                 ELSE writableBytes(b)

-----------------------------------------------------------------------------
(* The buffers.                                                            *)

\* The indices are in order and inside the vector.
WellFormed(b) ==
  /\ DOMAIN b.buf = 0..(b.size - 1)
  /\ b.readerIndex <= b.writerIndex
  /\ b.writerIndex <= b.size
  /\ kCheapPrepend <= b.size

TypeOK ==
  /\ DOMAIN buffs = Names
  /\ \A n \in Names :
       /\ WellFormed(buffs[n])
       /\ \A i \in DOMAIN buffs[n].buf : buffs[n].buf[i] \in Byte

Init == buffs = [n \in Names |-> New]

Becomes(n, b) == buffs' = [buffs EXCEPT ![n] = b]

\* A bound on what the user puts into a buffer.
HasPlace(n, bytes) == readableBytes(buffs[n]) + Len(bytes) <= MaxContent

Retrieve(n, len) ==
  Becomes(n, retrieve(buffs[n], len))

AppendBytes(n, bytes) ==
  /\ HasPlace(n, bytes)
  /\ Becomes(n, append(buffs[n], bytes))

\* The user makes room for len bytes that it is going to write.
Reserve(n, len) ==
  /\ readableBytes(buffs[n]) + len <= MaxContent
  /\ Becomes(n, ensureWritableBytes(buffs[n], len))

WriteInPlace(n, bytes) ==
  /\ HasPlace(n, bytes)
  /\ Len(bytes) <= writableBytes(buffs[n])
  /\ Becomes(n, written(buffs[n], bytes))

\* prepend and unwrite check nothing: their caller keeps within the bounds.
Prepend(n, bytes) ==
  /\ HasPlace(n, bytes)
  /\ Len(bytes) <= prependableBytes(buffs[n])
  /\ Becomes(n, prepend(buffs[n], bytes))

Unwrite(n, len) ==
  /\ len <= readableBytes(buffs[n])
  /\ Becomes(n, unwrite(buffs[n], len))

ReadFd(n, bytes) ==
  /\ HasPlace(n, bytes)
  /\ Len(bytes) <= readvLimit(buffs[n])
  /\ Becomes(n, readFd(buffs[n], bytes))

Swap(m, n) == buffs' = [buffs EXCEPT ![m] = buffs[n], ![n] = buffs[m]]

Next ==
  \/ \E n \in Names :
       \/ \E len \in 0..(MaxContent + 1) : Retrieve(n, len)
       \/ \E len \in 0..MaxLen : Reserve(n, len) \/ Unwrite(n, len)
       \/ \E bytes \in Data :
            \/ AppendBytes(n, bytes)
            \/ WriteInPlace(n, bytes)
            \/ Prepend(n, bytes)
            \/ ReadFd(n, bytes)
  \/ \E m, n \in Names : Swap(m, n)

Spec == Init /\ [][Next]_buffs

-----------------------------------------------------------------------------
(* Properties.                                                             *)

\* Whatever is moved or reallocated, and wherever the bytes of a read ended up
\* first, the content is the bytes written, in order, without those taken
\* (buffer.h:99-252, buffer.cc:16-45).
Queue == INSTANCE ByteQueue WITH content <- [n \in Names |-> Content(buffs[n])]
ImplementsByteQueue == Queue!Spec

\* A buffer takes no more memory than the most it has held and one more write,
\* although bytes that have been read leave holes: the room in front is used
\* again before the vector grows (buffer.h:237-252).
Compact ==
  \A n \in Names :
     \/ buffs[n].size <= kCheapPrepend + initialSize
     \/ buffs[n].size < MaxContent + kCheapPrepend + MaxLen
=============================================================================

----------------------------- MODULE BuffProofs -----------------------------
(***************************************************************************)
(* Buff for every size of its vector, every byte and every string: it is   *)
(* well formed, implements the byte queue, and stays compact.              *)
(*                                                                         *)
(* The lemmas say, of each operator on a buffer, what its content is       *)
(* afterwards and that it is well formed; the theorems follow from them    *)
(* action by action.                                                       *)
(***************************************************************************)
EXTENDS Buff, TLAPS

\* A buffer whose indices are in order and inside the vector.
Buffer ==
  [buf : UNION {[0..(size - 1) -> Byte] : size \in Nat},
   size : Nat, readerIndex : Nat, writerIndex : Nat]

Good(b) == b \in Buffer /\ WellFormed(b)

\* What an update of buf_ and writerIndex_ amounts to; and so on for the others.
LEMMA SetBytesEnd ==
  ASSUME NEW b \in Buffer, NEW X, NEW Y
  PROVE  [b EXCEPT !.buf = X, !.writerIndex = Y]
         = [buf |-> X, size |-> b.size,
            readerIndex |-> b.readerIndex, writerIndex |-> Y]
<1> DEFINE Rec(buf, size, r, w) ==
             [buf |-> buf, size |-> size, readerIndex |-> r, writerIndex |-> w]
<1>1. b = Rec(b.buf, b.size, b.readerIndex, b.writerIndex)
  BY DEF Buffer
<1>2. [b EXCEPT !.buf = X] = Rec(X, b.size, b.readerIndex, b.writerIndex)
  BY <1>1
<1>3. [Rec(X, b.size, b.readerIndex, b.writerIndex) EXCEPT !.writerIndex = Y]
        = Rec(X, b.size, b.readerIndex, Y)
  OBVIOUS
<1>4. [b EXCEPT !.buf = X, !.writerIndex = Y]
        = [[b EXCEPT !.buf = X] EXCEPT !.writerIndex = Y]
  OBVIOUS
<1> QED BY <1>2, <1>3, <1>4

\* An update of readerIndex_ and buf_.
LEMMA SetStartBytes ==
  ASSUME NEW b \in Buffer, NEW X, NEW Y
  PROVE  [b EXCEPT !.readerIndex = Y, !.buf = X]
         = [buf |-> X, size |-> b.size,
            readerIndex |-> Y, writerIndex |-> b.writerIndex]
<1> DEFINE Rec(buf, size, r, w) ==
             [buf |-> buf, size |-> size, readerIndex |-> r, writerIndex |-> w]
<1>1. b = Rec(b.buf, b.size, b.readerIndex, b.writerIndex)
  BY DEF Buffer
<1>2. [b EXCEPT !.readerIndex = Y] = Rec(b.buf, b.size, Y, b.writerIndex)
  BY <1>1
<1>3. [Rec(b.buf, b.size, Y, b.writerIndex) EXCEPT !.buf = X]
        = Rec(X, b.size, Y, b.writerIndex)
  OBVIOUS
<1>4. [b EXCEPT !.readerIndex = Y, !.buf = X]
        = [[b EXCEPT !.readerIndex = Y] EXCEPT !.buf = X]
  OBVIOUS
<1> QED BY <1>2, <1>3, <1>4

\* An update of buf_ and its size.
LEMMA SetBytesSize ==
  ASSUME NEW b \in Buffer, NEW X, NEW Y
  PROVE  [b EXCEPT !.buf = X, !.size = Y]
         = [buf |-> X, size |-> Y,
            readerIndex |-> b.readerIndex, writerIndex |-> b.writerIndex]
<1> DEFINE Rec(buf, size, r, w) ==
             [buf |-> buf, size |-> size, readerIndex |-> r, writerIndex |-> w]
<1>1. b = Rec(b.buf, b.size, b.readerIndex, b.writerIndex)
  BY DEF Buffer
<1>2. [b EXCEPT !.buf = X] = Rec(X, b.size, b.readerIndex, b.writerIndex)
  BY <1>1
<1>3. [Rec(X, b.size, b.readerIndex, b.writerIndex) EXCEPT !.size = Y]
        = Rec(X, Y, b.readerIndex, b.writerIndex)
  OBVIOUS
<1>4. [b EXCEPT !.buf = X, !.size = Y]
        = [[b EXCEPT !.buf = X] EXCEPT !.size = Y]
  OBVIOUS
<1> QED BY <1>2, <1>3, <1>4

\* An update of both indices.
LEMMA SetIndices ==
  ASSUME NEW b \in Buffer, NEW Y, NEW Z
  PROVE  [b EXCEPT !.readerIndex = Y, !.writerIndex = Z]
         = [buf |-> b.buf, size |-> b.size,
            readerIndex |-> Y, writerIndex |-> Z]
<1> DEFINE Rec(buf, size, r, w) ==
             [buf |-> buf, size |-> size, readerIndex |-> r, writerIndex |-> w]
<1>1. b = Rec(b.buf, b.size, b.readerIndex, b.writerIndex)
  BY DEF Buffer
<1>2. [b EXCEPT !.readerIndex = Y] = Rec(b.buf, b.size, Y, b.writerIndex)
  BY <1>1
<1>3. [Rec(b.buf, b.size, Y, b.writerIndex) EXCEPT !.writerIndex = Z]
        = Rec(b.buf, b.size, Y, Z)
  OBVIOUS
<1>4. [b EXCEPT !.readerIndex = Y, !.writerIndex = Z]
        = [[b EXCEPT !.readerIndex = Y] EXCEPT !.writerIndex = Z]
  OBVIOUS
<1> QED BY <1>2, <1>3, <1>4

\* An update of buf_ and both indices.
LEMMA SetBytesIndices ==
  ASSUME NEW b \in Buffer, NEW X, NEW Y, NEW Z
  PROVE  [b EXCEPT !.buf = X, !.readerIndex = Y, !.writerIndex = Z]
         = [buf |-> X, size |-> b.size,
            readerIndex |-> Y, writerIndex |-> Z]
<1> DEFINE Rec(buf, size, r, w) ==
             [buf |-> buf, size |-> size, readerIndex |-> r, writerIndex |-> w]
<1>1. b = Rec(b.buf, b.size, b.readerIndex, b.writerIndex)
  BY DEF Buffer
<1>2. [b EXCEPT !.buf = X] = Rec(X, b.size, b.readerIndex, b.writerIndex)
  BY <1>1
<1>3. [Rec(X, b.size, b.readerIndex, b.writerIndex) EXCEPT !.readerIndex = Y]
        = Rec(X, b.size, Y, b.writerIndex)
  OBVIOUS
<1>4. [Rec(X, b.size, Y, b.writerIndex) EXCEPT !.writerIndex = Z]
        = Rec(X, b.size, Y, Z)
  OBVIOUS
<1>5. [b EXCEPT !.buf = X, !.readerIndex = Y, !.writerIndex = Z]
        = [[[b EXCEPT !.buf = X] EXCEPT !.readerIndex = Y] EXCEPT !.writerIndex = Z]
  OBVIOUS
<1> QED BY <1>2, <1>3, <1>4, <1>5

\* The vector of a well-formed buffer has a byte in each place.
LEMMA GoodBytes ==
  ASSUME NEW b, Good(b)
  PROVE  b.buf \in [0..(b.size - 1) -> Byte]
<1>1. PICK s \in Nat : b.buf \in [0..(s - 1) -> Byte]
  BY DEF Good, Buffer
<1>2. DOMAIN b.buf = 0..(b.size - 1)
  BY DEF Good, WellFormed
<1> QED BY <1>1, <1>2

\* A record with these four fields is a well-formed buffer.
LEMMA MakeGood ==
  ASSUME NEW size \in Nat, NEW r \in Nat, NEW w \in Nat,
         NEW buf \in [0..(size - 1) -> Byte],
         r <= w, w <= size, kCheapPrepend <= size
  PROVE  Good([buf |-> buf, size |-> size, readerIndex |-> r, writerIndex |-> w])
<1>1. buf \in UNION {[0..(s - 1) -> Byte] : s \in Nat}
  OBVIOUS
<1>2. DOMAIN buf = 0..(size - 1)
  OBVIOUS
<1> QED BY <1>1, <1>2 DEF Good, Buffer, WellFormed

\* Copying bytes into a vector leaves a vector of the same size.
LEMMA CopiedType ==
  ASSUME NEW size \in Nat, NEW buf \in [0..(size - 1) -> Byte],
         NEW bytes \in Seq(Byte), NEW at \in Nat
  PROVE  Copied(buf, bytes, at) \in [0..(size - 1) -> Byte]
<1>1. ASSUME NEW i \in at..(at + Len(bytes) - 1)
      PROVE  bytes[i - at + 1] \in Byte
  BY <1>1
<1> QED BY <1>1 DEF Copied

\* The content of a buffer is a string of bytes, as long as it says it is.
LEMMA ContentType ==
  ASSUME NEW b, Good(b)
  PROVE  /\ readableBytes(b) \in Nat
         /\ Content(b) \in Seq(Byte)
         /\ Len(Content(b)) = readableBytes(b)
         /\ \A i \in 1..readableBytes(b) :
              Content(b)[i] = b.buf[b.readerIndex + i - 1]
<1>1. readableBytes(b) \in Nat
  BY DEF Good, Buffer, WellFormed, readableBytes
<1>2. ASSUME NEW i \in 1..readableBytes(b)
      PROVE  b.buf[b.readerIndex + i - 1] \in Byte
  <2>1. b.readerIndex + i - 1 \in 0..(b.size - 1)
    BY DEF Good, Buffer, WellFormed, readableBytes
  <2> QED BY <2>1, GoodBytes
<1> QED BY <1>1, <1>2 DEF Content

\* Two strings are equal when they are equally long and agree everywhere.
LEMMA SameString ==
  ASSUME NEW s \in Seq(Byte), NEW t \in Seq(Byte), Len(s) = Len(t),
         \A i \in 1..Len(s) : s[i] = t[i]
  PROVE  s = t
OBVIOUS

\* Two strings put together.
LEMMA Together ==
  ASSUME NEW s \in Seq(Byte), NEW t \in Seq(Byte)
  PROVE  /\ s \o t \in Seq(Byte)
         /\ Len(s \o t) = Len(s) + Len(t)
OBVIOUS

\* hasWritten: the bytes are the new end of the content.
LEMMA WrittenGood ==
  ASSUME NEW b, Good(b), NEW bytes \in Seq(Byte), Len(bytes) <= writableBytes(b)
  PROVE  /\ Good(written(b, bytes))
         /\ Content(written(b, bytes)) = Content(b) \o bytes
         /\ written(b, bytes).size = b.size
<1> DEFINE buf == Copied(b.buf, bytes, b.writerIndex)
           w == b.writerIndex + Len(bytes)
           c == [buf |-> buf, size |-> b.size, readerIndex |-> b.readerIndex,
                 writerIndex |-> w]
<1>1. buf \in [0..(b.size - 1) -> Byte]
  BY GoodBytes, CopiedType DEF Good, Buffer
<1>2. /\ w \in Nat /\ w <= b.size /\ b.readerIndex <= w
  BY DEF Good, Buffer, WellFormed, writableBytes
<1>3. written(b, bytes) = c
  <2>1. b \in Buffer
    BY DEF Good
  <2>2. written(b, bytes) = [b EXCEPT !.buf = buf, !.writerIndex = w]
    BY DEF written
  <2> HIDE DEF buf, w
  <2> QED BY <2>1, <2>2, SetBytesEnd
<1>4. Good(c)
  <2> HIDE DEF buf, w
  <2> QED BY <1>1, <1>2, MakeGood DEF Good, Buffer, WellFormed
<1>5. Content(c) = Content(b) \o bytes
  <2>1. readableBytes(c) = readableBytes(b) + Len(bytes)
    BY DEF readableBytes, Good, Buffer
  <2>2. ASSUME NEW i \in 1..readableBytes(c)
        PROVE  Content(c)[i] = (Content(b) \o bytes)[i]
    <3>1. Content(c)[i] = buf[b.readerIndex + i - 1]
      BY <1>4, ContentType
    <3>2. b.readerIndex + i - 1 \in 0..(b.size - 1)
      BY <1>2, <2>1 DEF readableBytes, Good, Buffer
    <3> DEFINE j == b.readerIndex + i - 1
    <3>3. /\ b.readerIndex \in Nat /\ b.writerIndex \in Nat
          /\ readableBytes(b) = b.writerIndex - b.readerIndex
          /\ readableBytes(b) \in Nat /\ i \in Nat /\ i >= 1
          /\ Content(b) \in Seq(Byte) /\ Len(Content(b)) = readableBytes(b)
          /\ b.buf \in [0..(b.size - 1) -> Byte]
      <4>1. b.readerIndex \in Nat /\ b.writerIndex \in Nat
        BY DEF Good, Buffer
      <4>2. /\ readableBytes(b) \in Nat /\ Content(b) \in Seq(Byte)
            /\ Len(Content(b)) = readableBytes(b)
            /\ b.buf \in [0..(b.size - 1) -> Byte]
        BY ContentType, GoodBytes
      <4>3. i \in Nat /\ i >= 1
        BY <2>1, <4>2
      <4> QED BY <4>1, <4>2, <4>3 DEF readableBytes
    <3>4. CASE i <= readableBytes(b)
      <4>1. j \notin b.writerIndex..(b.writerIndex + Len(bytes) - 1)
        BY <3>3, <3>4
      <4>2. buf[j] = b.buf[j]
        BY <3>2, <3>3, <4>1 DEF Copied
      <4>3. Content(b)[i] = b.buf[j]
        BY <3>3, <3>4, ContentType
      <4>4. (Content(b) \o bytes)[i] = Content(b)[i]
        BY <3>3, <3>4
      <4> QED BY <3>1, <4>2, <4>3, <4>4
    <3>5. CASE i > readableBytes(b)
      <4>1. j - b.writerIndex + 1 = i - readableBytes(b)
        BY <3>3
      <4>2. j \in b.writerIndex..(b.writerIndex + Len(bytes) - 1)
        BY <2>1, <3>3, <3>5
      <4>3. buf[j] = bytes[i - readableBytes(b)]
        <5> HIDE DEF j
        <5> QED BY <3>2, <3>3, <4>1, <4>2 DEF Copied, j
      <4>4. (Content(b) \o bytes)[i] = bytes[i - readableBytes(b)]
        BY <2>1, <3>3, <3>5
      <4> QED BY <3>1, <4>3, <4>4
    <3>6. i <= readableBytes(b) \/ i > readableBytes(b)
      BY <3>3
    <3> QED BY <3>4, <3>5, <3>6
  <2>3. /\ Content(c) \in Seq(Byte) /\ Len(Content(c)) = readableBytes(c)
        /\ Content(b) \in Seq(Byte) /\ Len(Content(b)) = readableBytes(b)
    BY <1>4, ContentType
  <2>4. /\ Content(b) \o bytes \in Seq(Byte)
        /\ Len(Content(b) \o bytes) = readableBytes(c)
    BY <2>1, <2>3
  <2> HIDE DEF c
  <2> QED BY <2>2, <2>3, <2>4, SameString
<1> QED BY <1>3, <1>4, <1>5

\* resize, to something larger: the content stays.
LEMMA ResizeGood ==
  ASSUME NEW b, Good(b), NEW size \in Nat, b.size <= size
  PROVE  /\ Good(resize(b, size))
         /\ Content(resize(b, size)) = Content(b)
         /\ resize(b, size).size = size
         /\ writableBytes(resize(b, size)) = size - b.writerIndex
<1> DEFINE buf == [i \in 0..(size - 1) |-> IF i < b.size THEN b.buf[i] ELSE Zero]
           c == [buf |-> buf, size |-> size, readerIndex |-> b.readerIndex,
                 writerIndex |-> b.writerIndex]
<1>1. buf \in [0..(size - 1) -> Byte]
  <2>1. ASSUME NEW i \in 0..(size - 1), i < b.size
        PROVE  b.buf[i] \in Byte
    BY <2>1, GoodBytes DEF Good, Buffer
  <2> QED BY <2>1, BuffAssumption
<1>2. resize(b, size) = c
  <2>1. b \in Buffer
    BY DEF Good
  <2>2. resize(b, size) = [b EXCEPT !.buf = buf, !.size = size]
    BY DEF resize
  <2> HIDE DEF buf
  <2> QED BY <2>1, <2>2, SetBytesSize
<1>3. Good(c)
  <2>1. /\ b.readerIndex \in Nat /\ b.writerIndex \in Nat
        /\ b.readerIndex <= b.writerIndex
        /\ b.writerIndex <= size /\ kCheapPrepend <= size
    BY BuffAssumption DEF Good, Buffer, WellFormed
  <2> HIDE DEF buf
  <2> QED BY <1>1, <2>1, MakeGood
<1>4. readableBytes(c) = readableBytes(b)
  BY DEF readableBytes
<1>5. ASSUME NEW i \in 1..readableBytes(b)
      PROVE  c.buf[c.readerIndex + i - 1] = b.buf[b.readerIndex + i - 1]
  BY DEF readableBytes, Good, Buffer, WellFormed
<1>6. Content(c) = Content(b)
  BY <1>4, <1>5 DEF Content
<1> QED BY <1>2, <1>3, <1>6 DEF writableBytes

\* moveToFront, when there is room: the content stays.
LEMMA MoveGood ==
  ASSUME NEW b, Good(b), kCheapPrepend + readableBytes(b) <= b.size
  PROVE  /\ Good(moveToFront(b))
         /\ Content(moveToFront(b)) = Content(b)
         /\ moveToFront(b).size = b.size
         /\ writableBytes(moveToFront(b))
              = b.size - kCheapPrepend - readableBytes(b)
<1> DEFINE buf == Copied(b.buf, Content(b), kCheapPrepend)
           w == kCheapPrepend + readableBytes(b)
           c == [buf |-> buf, size |-> b.size, readerIndex |-> kCheapPrepend,
                 writerIndex |-> w]
<1>1. buf \in [0..(b.size - 1) -> Byte]
  BY GoodBytes, ContentType, CopiedType, BuffAssumption DEF Good, Buffer
<1>2. w \in Nat /\ kCheapPrepend <= w /\ w <= b.size
  BY ContentType, BuffAssumption
<1>3. moveToFront(b) = c
  <2>1. b \in Buffer
    BY DEF Good
  <2>2. moveToFront(b)
          = [b EXCEPT !.buf = buf, !.readerIndex = kCheapPrepend, !.writerIndex = w]
    BY DEF moveToFront
  <2> HIDE DEF buf, w
  <2> QED BY <2>1, <2>2, SetBytesIndices
<1>4. Good(c)
  <2> HIDE DEF buf, w
  <2> QED BY <1>1, <1>2, MakeGood, BuffAssumption DEF Good, Buffer, WellFormed
<1>5. readableBytes(c) = readableBytes(b)
  BY ContentType, BuffAssumption DEF readableBytes
<1>6. ASSUME NEW i \in 1..readableBytes(b)
      PROVE  Content(c)[i] = Content(b)[i]
  <2>1. Content(c)[i] = buf[kCheapPrepend + i - 1]
    BY <1>4, <1>5, ContentType
  <2> DEFINE j == kCheapPrepend + i - 1
  <2>2. /\ readableBytes(b) \in Nat /\ Len(Content(b)) = readableBytes(b)
        /\ b.size \in Nat /\ kCheapPrepend \in Nat
    BY ContentType, BuffAssumption DEF Good, Buffer
  <2>3. /\ j \in 0..(b.size - 1)
        /\ j \in kCheapPrepend..(kCheapPrepend + Len(Content(b)) - 1)
        /\ j - kCheapPrepend + 1 = i
    BY <1>2, <2>2
  <2>4. b.buf \in [0..(b.size - 1) -> Byte]
    BY GoodBytes
  <2> HIDE DEF j
  <2>5. Copied(b.buf, Content(b), kCheapPrepend)[j] = Content(b)[i]
    BY <2>3, <2>4 DEF Copied
  <2> QED BY <2>1, <2>5 DEF j
<1>7. Content(c) = Content(b)
  <2> HIDE DEF c
  <2> QED BY <1>4, <1>5, <1>6, ContentType, SameString
<1> QED BY <1>3, <1>4, <1>7, BuffAssumption, ContentType DEF writableBytes, Good, Buffer

\* ensureWritableBytes: the room is there afterwards, and the content stays.
LEMMA EnsureGood ==
  ASSUME NEW b, Good(b), NEW len \in Nat
  PROVE  /\ Good(ensureWritableBytes(b, len))
         /\ Content(ensureWritableBytes(b, len)) = Content(b)
         /\ writableBytes(ensureWritableBytes(b, len)) >= len
<1> DEFINE n == len + b.writerIndex
<1>1. CASE writableBytes(b) >= len
  BY <1>1 DEF ensureWritableBytes, writableBytes, Good, Buffer
<1>2. CASE /\ writableBytes(b) < len
           /\ writableBytes(b) + prependableBytes(b) < len + kCheapPrepend
  <2>1. n \in Nat /\ b.size <= n /\ n - b.writerIndex = len
    BY <1>2 DEF writableBytes, Good, Buffer
  <2>2. ensureWritableBytes(b, len) = resize(b, n)
    BY <1>2 DEF ensureWritableBytes, makeSpace
  <2> QED BY <2>1, <2>2, ResizeGood
<1>3. CASE /\ writableBytes(b) < len
           /\ ~(writableBytes(b) + prependableBytes(b) < len + kCheapPrepend)
  <2>1. /\ kCheapPrepend + readableBytes(b) <= b.size
        /\ b.size - kCheapPrepend - readableBytes(b) >= len
    BY <1>3, BuffAssumption
    DEF writableBytes, prependableBytes, readableBytes, Good, Buffer
  <2>2. ensureWritableBytes(b, len) = moveToFront(b)
    BY <1>3 DEF ensureWritableBytes, makeSpace
  <2> QED BY <2>1, <2>2, MoveGood
<1> QED BY <1>1, <1>2, <1>3 DEF writableBytes, prependableBytes, Good, Buffer

\* append: the bytes are the new end of the content.
LEMMA AppendGood ==
  ASSUME NEW b, Good(b), NEW bytes \in Seq(Byte)
  PROVE  /\ Good(append(b, bytes))
         /\ Content(append(b, bytes)) = Content(b) \o bytes
         /\ append(b, bytes).size = ensureWritableBytes(b, Len(bytes)).size
<1> DEFINE e == ensureWritableBytes(b, Len(bytes))
<1>1. Good(e) /\ Content(e) = Content(b) /\ Len(bytes) <= writableBytes(e)
  <2>1. Len(bytes) \in Nat
    OBVIOUS
  <2>2. Good(e) /\ Content(e) = Content(b) /\ writableBytes(e) >= Len(bytes)
    BY <2>1, EnsureGood
  <2>3. writableBytes(e) \in Int
    BY <2>2 DEF writableBytes, Good, Buffer
  <2> QED BY <2>1, <2>2, <2>3
<1>2. append(b, bytes) = written(e, bytes)
  BY DEF append
<1> HIDE DEF e
<1> QED BY <1>1, <1>2, WrittenGood DEF e

\* A part of a string of bytes.
LEMMA PartOfString ==
  ASSUME NEW s \in Seq(Byte), NEW m \in Nat, NEW n \in Nat, m <= n, n <= Len(s)
  PROVE  /\ SubSeq(s, m + 1, n) \in Seq(Byte)
         /\ Len(SubSeq(s, m + 1, n)) = n - m
         /\ \A i \in 1..(n - m) : SubSeq(s, m + 1, n)[i] = s[m + i]
OBVIOUS

\* A buffer with the same bytes and other indices: its content is a part.
LEMMA NarrowedGood ==
  ASSUME NEW b, Good(b), NEW k \in Nat, NEW n \in Nat,
         k <= n, n <= readableBytes(b),
         NEW d, d = [buf |-> b.buf, size |-> b.size,
                     readerIndex |-> b.readerIndex + k,
                     writerIndex |-> b.readerIndex + n]
  PROVE  Good(d) /\ Content(d) = SubSeq(Content(b), k + 1, n)
<1> DEFINE r == b.readerIndex + k
           w == b.readerIndex + n
           c == [buf |-> b.buf, size |-> b.size, readerIndex |-> r, writerIndex |-> w]
<1>1. /\ r \in Nat /\ w \in Nat /\ r <= w /\ w <= b.size
      /\ b.size \in Nat /\ kCheapPrepend <= b.size
  BY DEF Good, Buffer, WellFormed, readableBytes
<1>2. Good(c)
  <2> HIDE DEF r, w
  <2> QED BY <1>1, GoodBytes, MakeGood
<1>3. readableBytes(c) = n - k
  BY DEF readableBytes, Good, Buffer
<1>4. /\ Content(b) \in Seq(Byte) /\ Len(Content(b)) = readableBytes(b)
      /\ Content(c) \in Seq(Byte) /\ Len(Content(c)) = n - k
  BY <1>2, <1>3, ContentType
<1>5. ASSUME NEW i \in 1..(n - k)
      PROVE  Content(c)[i] = Content(b)[k + i]
  <2>1. Content(c)[i] = b.buf[r + i - 1]
    BY <1>2, <1>3, ContentType
  <2>2. k + i \in 1..readableBytes(b)
    BY ContentType
  <2>3. Content(b)[k + i] = b.buf[b.readerIndex + (k + i) - 1]
    BY <2>2, ContentType
  <2>4. r + i - 1 = b.readerIndex + (k + i) - 1
    BY DEF Good, Buffer
  <2> QED BY <2>1, <2>3, <2>4
<1>6. Content(c) = SubSeq(Content(b), k + 1, n)
  <2>1. /\ SubSeq(Content(b), k + 1, n) \in Seq(Byte)
        /\ Len(SubSeq(Content(b), k + 1, n)) = n - k
        /\ \A i \in 1..(n - k) : SubSeq(Content(b), k + 1, n)[i] = Content(b)[k + i]
    BY <1>4, PartOfString
  <2> HIDE DEF c
  <2> QED BY <1>4, <1>5, <2>1, SameString
<1> QED BY <1>2, <1>6

\* retrieve: some bytes are gone from the front, never more than there were.
LEMMA RetrieveGood ==
  ASSUME NEW b, Good(b), NEW len \in Nat
  PROVE  /\ Good(retrieve(b, len))
         /\ retrieve(b, len).size = b.size
         /\ \E k \in 0..Len(Content(b)) :
              Content(retrieve(b, len)) = SubSeq(Content(b), k + 1, Len(Content(b)))
<1>1. /\ readableBytes(b) \in Nat /\ Len(Content(b)) = readableBytes(b)
      /\ Content(b) \in Seq(Byte)
  BY ContentType
<1>2. CASE len < readableBytes(b)
  <2> DEFINE c == [buf |-> b.buf, size |-> b.size,
                   readerIndex |-> b.readerIndex + len,
                   writerIndex |-> b.readerIndex + readableBytes(b)]
  <2>1. retrieve(b, len) = c
    BY <1>2 DEF retrieve, readableBytes, Good, Buffer
  <2>2. Good(c) /\ Content(c) = SubSeq(Content(b), len + 1, readableBytes(b))
    <3>1. readableBytes(b) \in Nat /\ len <= readableBytes(b)
      BY <1>1, <1>2
    <3> QED BY <3>1, NarrowedGood
  <2> QED BY <1>1, <1>2, <2>1, <2>2
<1>3. CASE ~(len < readableBytes(b))
  <2> DEFINE c == [buf |-> b.buf, size |-> b.size,
                   readerIndex |-> kCheapPrepend, writerIndex |-> kCheapPrepend]
  <2>1. b \in Buffer /\ retrieve(b, len) = [b EXCEPT !.readerIndex = kCheapPrepend,
                                                   !.writerIndex = kCheapPrepend]
    BY <1>3 DEF retrieve, retrieveAll, Good
  <2>2. retrieve(b, len) = c
    BY <2>1, SetIndices
  <2>3. Good(c)
    BY GoodBytes, MakeGood, BuffAssumption DEF Good, Buffer, WellFormed
  <2>4. Content(c) \in Seq(Byte) /\ Len(Content(c)) = 0
    <3>1. readableBytes(c) = 0
      BY BuffAssumption DEF readableBytes
    <3> QED BY <2>3, <3>1, ContentType
  <2>5. /\ SubSeq(Content(b), readableBytes(b) + 1, readableBytes(b)) \in Seq(Byte)
        /\ Len(SubSeq(Content(b), readableBytes(b) + 1, readableBytes(b))) = 0
    BY <1>1, PartOfString
  <2>6. Content(c) = SubSeq(Content(b), readableBytes(b) + 1, readableBytes(b))
    <3> HIDE DEF c
    <3> QED BY <2>4, <2>5, SameString
  <2> QED BY <1>1, <2>2, <2>3, <2>6
<1> QED BY <1>2, <1>3

\* unwrite: the last bytes are gone.
LEMMA UnwriteGood ==
  ASSUME NEW b, Good(b), NEW len \in Nat, len <= readableBytes(b)
  PROVE  /\ Good(unwrite(b, len))
         /\ unwrite(b, len).size = b.size
         /\ Content(unwrite(b, len)) = SubSeq(Content(b), 1, Len(Content(b)) - len)
<1> DEFINE n == readableBytes(b) - len
           c == [buf |-> b.buf, size |-> b.size,
                 readerIndex |-> b.readerIndex + 0, writerIndex |-> b.readerIndex + n]
<1>1. unwrite(b, len) = c
  BY DEF unwrite, readableBytes, Good, Buffer
<1>2. n \in Nat /\ n <= readableBytes(b)
  BY ContentType
<1>3. Good(c) /\ Content(c) = SubSeq(Content(b), 0 + 1, n)
  <2> HIDE DEF n
  <2> QED BY <1>2, NarrowedGood
<1> QED BY <1>1, <1>3, ContentType

\* prepend: the bytes are the new front of the content.
LEMMA PrependGood ==
  ASSUME NEW b, Good(b), NEW bytes \in Seq(Byte), Len(bytes) <= prependableBytes(b)
  PROVE  /\ Good(prepend(b, bytes))
         /\ prepend(b, bytes).size = b.size
         /\ Content(prepend(b, bytes)) = bytes \o Content(b)
<1> DEFINE r == b.readerIndex - Len(bytes)
           buf == Copied(b.buf, bytes, r)
           c == [buf |-> buf, size |-> b.size, readerIndex |-> r,
                 writerIndex |-> b.writerIndex]
<1>1. /\ r \in Nat /\ r <= b.writerIndex /\ b.writerIndex \in Nat
      /\ b.writerIndex <= b.size /\ b.size \in Nat /\ kCheapPrepend <= b.size
      /\ b.readerIndex \in Nat /\ b.readerIndex = r + Len(bytes)
  BY DEF prependableBytes, Good, Buffer, WellFormed
<1>2. buf \in [0..(b.size - 1) -> Byte]
  <2> HIDE DEF r
  <2> QED BY <1>1, GoodBytes, CopiedType
<1>3. prepend(b, bytes) = c
  <2>1. b \in Buffer
    BY DEF Good
  <2>2. prepend(b, bytes) = [b EXCEPT !.readerIndex = r, !.buf = buf]
    BY DEF prepend
  <2> HIDE DEF r, buf
  <2> QED BY <2>1, <2>2, SetStartBytes
<1>4. Good(c)
  <2> HIDE DEF r, buf
  <2> QED BY <1>1, <1>2, MakeGood
<1>5. readableBytes(c) = Len(bytes) + readableBytes(b)
  BY <1>1 DEF readableBytes
<1>6. /\ Content(c) \in Seq(Byte) /\ Len(Content(c)) = readableBytes(c)
      /\ Content(b) \in Seq(Byte) /\ Len(Content(b)) = readableBytes(b)
      /\ readableBytes(b) \in Nat
      /\ b.buf \in [0..(b.size - 1) -> Byte]
  BY <1>4, ContentType, GoodBytes
<1> HIDE DEF c
<1>7. ASSUME NEW i \in 1..readableBytes(c)
      PROVE  Content(c)[i] = (bytes \o Content(b))[i]
  <2> DEFINE j == r + i - 1
  <2>0. /\ i \in Nat /\ 1 <= i /\ i <= Len(bytes) + readableBytes(b)
        /\ Len(bytes) \in Nat
        /\ readableBytes(b) = b.writerIndex - b.readerIndex
    BY <1>5, <1>6 DEF readableBytes
  <2>1. Content(c)[i] = buf[j]
    BY <1>4, ContentType DEF c
  <2>2. j \in 0..(b.size - 1)
    <3> HIDE DEF r
    <3> QED BY <1>1, <2>0
  <2>3. CASE i <= Len(bytes)
    <3>1. j \in r..(r + Len(bytes) - 1) /\ j - r + 1 = i
      <4> HIDE DEF r
      <4> QED BY <1>1, <2>0, <2>3
    <3>2. buf[j] = bytes[i]
      <4> HIDE DEF j, r
      <4> QED BY <1>6, <2>2, <3>1 DEF Copied
    <3>3. (bytes \o Content(b))[i] = bytes[i]
      BY <1>5, <1>6, <2>3
    <3> QED BY <2>1, <3>2, <3>3
  <2>4. CASE i > Len(bytes)
    <3>1. j \notin r..(r + Len(bytes) - 1)
      BY <1>1, <2>0, <2>4
    <3>2. buf[j] = b.buf[j]
      <4> HIDE DEF j, r
      <4> QED BY <1>6, <2>2, <3>1 DEF Copied
    <3>3. i - Len(bytes) \in 1..readableBytes(b)
      BY <1>5, <1>6, <2>4
    <3>4. Content(b)[i - Len(bytes)] = b.buf[b.readerIndex + (i - Len(bytes)) - 1]
      BY <3>3, ContentType
    <3>5. j = b.readerIndex + (i - Len(bytes)) - 1
      BY <1>1, <1>5, <1>6
    <3>6. (bytes \o Content(b))[i] = Content(b)[i - Len(bytes)]
      BY <1>5, <1>6, <2>4
    <3> QED BY <2>1, <3>2, <3>4, <3>5, <3>6
  <2>5. i <= Len(bytes) \/ i > Len(bytes)
    BY <1>5, <1>6
  <2> QED BY <2>3, <2>4, <2>5
<1>8. /\ bytes \o Content(b) \in Seq(Byte)
      /\ Len(bytes \o Content(b)) = readableBytes(c)
  BY <1>5, <1>6
<1>9. Content(c) = bytes \o Content(b)
  BY <1>6, <1>7, <1>8, SameString
<1> QED BY <1>3, <1>4, <1>9 DEF c

\* readFd: the bytes are the new end of the content, wherever readv() put them.
LEMMA ReadFdGood ==
  ASSUME NEW b, Good(b), NEW bytes \in Seq(Byte)
  PROVE  /\ Good(readFd(b, bytes))
         /\ Content(readFd(b, bytes)) = Content(b) \o bytes
         /\ \/ readFd(b, bytes).size = b.size
            \/ \E c : \E len \in 0..Len(bytes) :
                 /\ Good(c) /\ c.size = b.size
                 /\ readableBytes(c) + len = readableBytes(b) + Len(bytes)
                 /\ readFd(b, bytes).size = ensureWritableBytes(c, len).size
<1> DEFINE k == writableBytes(b)
<1>1. k \in Nat
  BY DEF writableBytes, Good, Buffer, WellFormed
<1>2. CASE Len(bytes) <= k
  <2>1. readFd(b, bytes) = written(b, bytes)
    BY <1>2 DEF readFd
  <2> QED BY <1>2, <2>1, WrittenGood
<1>3. CASE ~(Len(bytes) <= k)
  <2> DEFINE front == SubSeq(bytes, 0 + 1, k)
             back == SubSeq(bytes, k + 1, Len(bytes))
             c == written(b, front)
  <2>1. readFd(b, bytes) = append(c, back)
    BY <1>3 DEF readFd
  <2>2. /\ front \in Seq(Byte) /\ Len(front) = k
        /\ \A i \in 1..k : front[i] = bytes[i]
    <3>1. /\ 0 <= k /\ k <= Len(bytes) /\ k - 0 = k
          /\ \A i \in 1..k : 0 + i = i
      BY <1>1, <1>3
    <3> HIDE DEF k
    <3> QED BY <1>1, <3>1, PartOfString
  <2>3. /\ back \in Seq(Byte) /\ Len(back) = Len(bytes) - k
        /\ \A i \in 1..(Len(bytes) - k) : back[i] = bytes[k + i]
    <3>1. k <= Len(bytes) /\ Len(bytes) \in Nat
      BY <1>1, <1>3
    <3> HIDE DEF k
    <3> QED BY <1>1, <3>1, PartOfString
  <2>4. front \o back = bytes
    <3> HIDE DEF k, front, back
    <3>1. Len(bytes) \in Nat /\ k <= Len(bytes)
      BY <1>1, <1>3
    <3>2. /\ front \o back \in Seq(Byte)
          /\ Len(front \o back) = Len(front) + Len(back)
      BY <2>2, <2>3, Together
    <3>3. Len(front \o back) = Len(bytes)
      BY <1>1, <2>2, <2>3, <3>1, <3>2
    <3>4. ASSUME NEW i \in 1..Len(bytes)
          PROVE  (front \o back)[i] = bytes[i]
      <4>1. CASE i <= k
        BY <1>1, <2>2, <2>3, <3>1, <4>1
      <4>2. CASE i > k
        <5>1. /\ i - k \in 1..(Len(bytes) - k) /\ k + (i - k) = i
          BY <1>1, <3>1, <4>2
        <5>2. (front \o back)[i] = back[i - k]
          BY <1>1, <2>2, <2>3, <3>1, <4>2
        <5> QED BY <2>3, <5>1, <5>2
      <4>3. i <= k \/ i > k
        BY <1>1
      <4> QED BY <4>1, <4>2, <4>3
    <3> QED BY <3>2, <3>3, <3>4, SameString
  <2>5. Good(c) /\ Content(c) = Content(b) \o front /\ c.size = b.size
    <3> HIDE DEF front
    <3> QED BY <1>1, <2>2, WrittenGood
  <2>6. /\ Good(append(c, back))
        /\ Content(append(c, back)) = Content(c) \o back
        /\ append(c, back).size = ensureWritableBytes(c, Len(back)).size
    <3> HIDE DEF c, back
    <3> QED BY <2>3, <2>5, AppendGood
  <2>7. Content(b) \in Seq(Byte) /\ Len(Content(b)) = readableBytes(b)
    BY ContentType
  <2>8. Content(append(c, back)) = Content(b) \o bytes
    <3>1. (Content(b) \o front) \o back = Content(b) \o (front \o back)
      <4> HIDE DEF front, back
      <4> QED BY <2>2, <2>3, <2>7
    <3> QED BY <2>4, <2>5, <2>6, <3>1
  <2>9. readableBytes(c) + Len(back) = readableBytes(b) + Len(bytes)
    <3> HIDE DEF c, front, back, k
    <3>1. readableBytes(c) = readableBytes(b) + k
      BY <2>2, <2>5, <2>7, ContentType
    <3>2. readableBytes(b) \in Nat
      BY ContentType
    <3> QED BY <1>1, <2>3, <3>1, <3>2
  <2>10. Len(back) \in 0..Len(bytes)
    BY <1>1, <1>3, <2>3
  <2> HIDE DEF c, back
  <2> QED BY <2>1, <2>5, <2>6, <2>8, <2>9, <2>10
<1> QED BY <1>2, <1>3

-----------------------------------------------------------------------------
(* The size of the vector.                                                 *)

Small(b) ==
  \/ b.size <= kCheapPrepend + initialSize
  \/ b.size < MaxContent + kCheapPrepend + MaxLen

\* The vector grows only when the room in front would not do.
LEMMA EnsureSmall ==
  ASSUME NEW b, Good(b), Small(b), NEW len \in Nat, len <= MaxLen,
         readableBytes(b) + len <= MaxContent
  PROVE  Small(ensureWritableBytes(b, len))
<1> DEFINE n == len + b.writerIndex
<1>1. /\ b.size \in Nat /\ b.readerIndex \in Nat /\ b.writerIndex \in Nat
      /\ b.readerIndex <= b.writerIndex /\ b.writerIndex <= b.size
      /\ kCheapPrepend \in Nat /\ MaxContent \in Nat /\ MaxLen \in Nat
  BY BuffAssumption DEF Good, Buffer, WellFormed
<1>2. CASE writableBytes(b) >= len
  <2>1. ensureWritableBytes(b, len) = b
    BY <1>1, <1>2 DEF ensureWritableBytes, writableBytes
  <2> QED BY <2>1
<1>3. CASE /\ writableBytes(b) < len
           /\ writableBytes(b) + prependableBytes(b) < len + kCheapPrepend
  <2>1. /\ n \in Nat /\ b.size <= n
        /\ n < MaxContent + kCheapPrepend + MaxLen
    BY <1>1, <1>3 DEF writableBytes, prependableBytes, readableBytes
  <2>2. ensureWritableBytes(b, len) = resize(b, n)
    BY <1>3 DEF ensureWritableBytes, makeSpace
  <2>3. resize(b, n).size = n
    BY <2>1, ResizeGood
  <2> QED BY <2>1, <2>2, <2>3 DEF Small
<1>4. CASE /\ writableBytes(b) < len
           /\ ~(writableBytes(b) + prependableBytes(b) < len + kCheapPrepend)
  <2>1. kCheapPrepend + readableBytes(b) <= b.size
    BY <1>1, <1>4 DEF writableBytes, prependableBytes, readableBytes
  <2>2. ensureWritableBytes(b, len) = moveToFront(b)
    BY <1>4 DEF ensureWritableBytes, makeSpace
  <2>3. moveToFront(b).size = b.size
    BY <2>1, MoveGood
  <2> QED BY <2>2, <2>3 DEF Small
<1> QED BY <1>1, <1>2, <1>3, <1>4 DEF writableBytes

-----------------------------------------------------------------------------
(* The buffers.                                                            *)

\* The inductive invariant: every buffer is well formed and small.
IInv ==
  /\ buffs \in [Names -> Buffer]
  /\ \A n \in Names : WellFormed(buffs[n]) /\ Small(buffs[n])

\* A new Buff is well formed, small and empty.
LEMMA NewGood == Good(New) /\ Small(New) /\ Content(New) = <<>>
<1>1. /\ New.size = kCheapPrepend + initialSize /\ New.size \in Nat
      /\ New.readerIndex = kCheapPrepend /\ New.writerIndex = kCheapPrepend
      /\ kCheapPrepend \in Nat /\ kCheapPrepend <= New.size
      /\ New.buf \in [0..(New.size - 1) -> Byte]
  BY BuffAssumption DEF New
<1>2. Good(New)
  <2>1. New = [buf |-> New.buf, size |-> New.size, readerIndex |-> New.readerIndex,
               writerIndex |-> New.writerIndex]
    BY DEF New
  <2> QED BY <1>1, <2>1, MakeGood
<1>3. readableBytes(New) = 0
  BY BuffAssumption DEF New, readableBytes
<1>4. Content(New) = <<>>
  <2>1. Content(New) \in Seq(Byte) /\ Len(Content(New)) = 0
    BY <1>2, <1>3, ContentType
  <2> QED BY <2>1
<1>5. Small(New)
  BY <1>1 DEF Small
<1> QED BY <1>2, <1>4, <1>5

\* Both buffers are new.
LEMMA InitInv == Init => IInv
BY NewGood DEF Init, IInv, Good

\* What an action that changes one buffer has to show.
LEMMA BecomesKeeps ==
  ASSUME IInv, NEW n \in Names, NEW b, Good(b), Small(b), Becomes(n, b)
  PROVE  IInv'
BY DEF IInv, Becomes, Good

\* The invariant, of one buffer.
LEMMA IInvGood ==
  ASSUME IInv, NEW n \in Names
  PROVE  Good(buffs[n]) /\ Small(buffs[n])
BY DEF IInv, Good

\* What callers append is a string.
LEMMA DataString ==
  ASSUME NEW bytes \in Data
  PROVE  bytes \in Seq(Byte) /\ Len(bytes) \in Nat /\ Len(bytes) <= MaxLen
BY BuffAssumption

\* Every action keeps the invariant.
LEMMA NextInv ==
  ASSUME IInv, [Next]_buffs
  PROVE  IInv'
<1> USE BuffAssumption
<1>1. ASSUME NEW n \in Names, NEW len \in 0..(MaxContent + 1), Retrieve(n, len)
      PROVE  IInv'
  <2>1. Good(buffs[n]) /\ Small(buffs[n]) /\ len \in Nat
    BY IInvGood
  <2>2. Good(retrieve(buffs[n], len)) /\ Small(retrieve(buffs[n], len))
    BY <2>1, RetrieveGood DEF Small
  <2> QED BY <1>1, <2>2, BecomesKeeps DEF Retrieve
<1>2. ASSUME NEW n \in Names, NEW len \in 0..MaxLen, Reserve(n, len)
      PROVE  IInv'
  <2>1. /\ Good(buffs[n]) /\ Small(buffs[n]) /\ len \in Nat /\ len <= MaxLen
        /\ readableBytes(buffs[n]) + len <= MaxContent
    BY <1>2, IInvGood DEF Reserve
  <2>2. /\ Good(ensureWritableBytes(buffs[n], len))
        /\ Small(ensureWritableBytes(buffs[n], len))
    BY <2>1, EnsureGood, EnsureSmall
  <2> QED BY <1>2, <2>2, BecomesKeeps DEF Reserve
<1>3. ASSUME NEW n \in Names, NEW len \in 0..MaxLen, Unwrite(n, len)
      PROVE  IInv'
  <2>1. /\ Good(buffs[n]) /\ Small(buffs[n]) /\ len \in Nat
        /\ len <= readableBytes(buffs[n])
    BY <1>3, IInvGood DEF Unwrite
  <2>2. Good(unwrite(buffs[n], len)) /\ Small(unwrite(buffs[n], len))
    BY <2>1, UnwriteGood DEF Small
  <2> QED BY <1>3, <2>2, BecomesKeeps DEF Unwrite
<1>4. ASSUME NEW n \in Names, NEW bytes \in Data, AppendBytes(n, bytes)
      PROVE  IInv'
  <2>1. /\ Good(buffs[n]) /\ Small(buffs[n])
        /\ readableBytes(buffs[n]) + Len(bytes) <= MaxContent
    BY <1>4, IInvGood DEF AppendBytes, HasPlace
  <2>2. Good(append(buffs[n], bytes)) /\ Small(append(buffs[n], bytes))
    BY <2>1, DataString, AppendGood, EnsureSmall DEF Small
  <2> QED BY <1>4, <2>2, BecomesKeeps DEF AppendBytes
<1>5. ASSUME NEW n \in Names, NEW bytes \in Data, WriteInPlace(n, bytes)
      PROVE  IInv'
  <2>1. /\ Good(buffs[n]) /\ Small(buffs[n])
        /\ Len(bytes) <= writableBytes(buffs[n])
    BY <1>5, IInvGood DEF WriteInPlace
  <2>2. Good(written(buffs[n], bytes)) /\ Small(written(buffs[n], bytes))
    BY <2>1, DataString, WrittenGood DEF Small
  <2> QED BY <1>5, <2>2, BecomesKeeps DEF WriteInPlace
<1>6. ASSUME NEW n \in Names, NEW bytes \in Data, Prepend(n, bytes)
      PROVE  IInv'
  <2>1. /\ Good(buffs[n]) /\ Small(buffs[n])
        /\ Len(bytes) <= prependableBytes(buffs[n])
    BY <1>6, IInvGood DEF Prepend
  <2>2. Good(prepend(buffs[n], bytes)) /\ Small(prepend(buffs[n], bytes))
    BY <2>1, DataString, PrependGood DEF Small
  <2> QED BY <1>6, <2>2, BecomesKeeps DEF Prepend
<1>7. ASSUME NEW n \in Names, NEW bytes \in Data, ReadFd(n, bytes)
      PROVE  IInv'
  <2> DEFINE b == buffs[n]
  <2>1. /\ Good(b) /\ Small(b) /\ readableBytes(b) + Len(bytes) <= MaxContent
        /\ bytes \in Seq(Byte) /\ Len(bytes) \in Nat /\ Len(bytes) <= MaxLen
    BY <1>7, IInvGood, DataString DEF ReadFd, HasPlace
  <2>2. Good(readFd(b, bytes))
    BY <2>1, ReadFdGood
  <2>3. Small(readFd(b, bytes))
    <3>1. CASE readFd(b, bytes).size = b.size
      BY <2>1, <3>1 DEF Small
    <3>2. ASSUME NEW c, NEW len \in 0..Len(bytes), Good(c), c.size = b.size,
                 readableBytes(c) + len = readableBytes(b) + Len(bytes),
                 readFd(b, bytes).size = ensureWritableBytes(c, len).size
          PROVE  Small(readFd(b, bytes))
      <4>1. Small(c)
        BY <2>1, <3>2 DEF Small
      <4>2. len \in Nat /\ len <= MaxLen /\ readableBytes(c) + len <= MaxContent
        BY <2>1, <3>2
      <4>3. Small(ensureWritableBytes(c, len))
        BY <3>2, <4>1, <4>2, EnsureSmall
      <4> QED BY <3>2, <4>3 DEF Small
    <3> HIDE DEF b
    <3> QED BY <2>1, <3>1, <3>2, ReadFdGood
  <2> QED BY <1>7, <2>2, <2>3, BecomesKeeps DEF ReadFd
<1>8. ASSUME NEW m \in Names, NEW n \in Names, Swap(m, n)
      PROVE  IInv'
  BY <1>8 DEF Swap, IInv
<1>9. CASE UNCHANGED buffs
  BY <1>9 DEF IInv
<1> QED BY <1>1, <1>2, <1>3, <1>4, <1>5, <1>6, <1>7, <1>8, <1>9 DEF Next

\* The inductive invariant holds in every state.
LEMMA Inductive == Spec => []IInv
<1>1. Init => IInv
  BY InitInv
<1>2. IInv /\ [Next]_buffs => IInv'
  BY NextInv
<1> QED BY <1>1, <1>2, PTL DEF Spec

\* The type invariant: the indices are in order and inside the vector, whatever
\* the sequence of calls (buffer.h:99-252).
THEOREM TypeCorrect == Spec => []TypeOK
<1>1. IInv => TypeOK
  <2> SUFFICES ASSUME IInv PROVE TypeOK
    OBVIOUS
  <2>1. DOMAIN buffs = Names
    BY DEF IInv
  <2>2. ASSUME NEW n \in Names
        PROVE  /\ WellFormed(buffs[n])
               /\ \A i \in DOMAIN buffs[n].buf : buffs[n].buf[i] \in Byte
    BY IInvGood, GoodBytes DEF Good
  <2> QED BY <2>1, <2>2 DEF TypeOK
<1> QED BY <1>1, Inductive, PTL

\* A buffer of any sizes takes no more memory than the most it has held and one
\* more write (buffer.h:237-252).
THEOREM StaysCompact == Spec => []Compact
<1>1. IInv => Compact
  BY DEF IInv, Small, Compact
<1> QED BY <1>1, Inductive, PTL

-----------------------------------------------------------------------------
(* The queue of bytes.                                                     *)

Contents == [n \in Names |-> Content(buffs[n])]

\* A step that changes one buffer changes its content alone.
LEMMA OneChanges ==
  ASSUME IInv, NEW n \in Names, NEW b, Becomes(n, b)
  PROVE  Contents' = [Contents EXCEPT ![n] = Content(b)]
BY DEF IInv, Becomes, Contents

\* Buffers of any size implement the abstract queue of bytes
\* (buffer.h:99-252, buffer.cc:16-45).
THEOREM Refinement == Spec => ImplementsByteQueue
<1>1. Init => Queue!Init
  BY NewGood DEF Init, Queue!Init
<1>2. IInv /\ [Next]_buffs => [Queue!Next]_Contents
  <2> SUFFICES ASSUME IInv, [Next]_buffs PROVE Queue!Next \/ UNCHANGED Contents
    OBVIOUS
  <2> USE BuffAssumption
  <2>0. ASSUME NEW n \in Names
        PROVE  Good(buffs[n]) /\ Contents[n] = Content(buffs[n])
    BY IInvGood DEF Contents
  <2>1. ASSUME NEW n \in Names, NEW len \in 0..(MaxContent + 1), Retrieve(n, len)
        PROVE  Queue!Next
    <3>1. PICK k \in 0..Len(Contents[n]) :
            Content(retrieve(buffs[n], len))
              = SubSeq(Contents[n], k + 1, Len(Contents[n]))
      <4>1. len \in Nat /\ Good(buffs[n])
        BY <2>0
      <4>2. \E k \in 0..Len(Content(buffs[n])) :
              Content(retrieve(buffs[n], len))
                = SubSeq(Content(buffs[n]), k + 1, Len(Content(buffs[n])))
        BY <4>1, RetrieveGood
      <4>3. Contents[n] = Content(buffs[n])
        BY <2>0
      <4> QED BY <4>2, <4>3
    <3>2. Queue!Pop(n, k)
      BY <2>1, <3>1, OneChanges DEF Retrieve, Queue!Pop, Queue!Becomes, Contents
    <3> QED BY <3>1, <3>2 DEF Queue!Next, Contents
  <2>2. ASSUME NEW n \in Names, NEW len \in 0..MaxLen, Reserve(n, len)
        PROVE  UNCHANGED Contents
    <3>1. Content(ensureWritableBytes(buffs[n], len)) = Contents[n]
      BY <2>0, EnsureGood
    <3>2. Contents' = [Contents EXCEPT ![n] = Contents[n]]
      BY <2>2, <3>1, OneChanges DEF Reserve
    <3> QED BY <3>2 DEF Contents
  <2>3. ASSUME NEW n \in Names, NEW len \in 0..MaxLen, Unwrite(n, len)
        PROVE  Queue!Next
    <3>1. len \in 0..Len(Contents[n])
      BY <2>0, <2>3, ContentType DEF Unwrite
    <3>2. Content(unwrite(buffs[n], len))
            = SubSeq(Contents[n], 1, Len(Contents[n]) - len)
      BY <2>0, <2>3, UnwriteGood DEF Unwrite
    <3>3. Queue!PopBack(n, len)
      BY <2>3, <3>2, OneChanges DEF Unwrite, Queue!PopBack, Queue!Becomes, Contents
    <3> QED BY <3>1, <3>3 DEF Queue!Next, Contents
  <2>4. ASSUME NEW n \in Names, NEW bytes \in Data,
               AppendBytes(n, bytes) \/ WriteInPlace(n, bytes) \/ ReadFd(n, bytes)
        PROVE  Queue!Next
    <3>1. PICK b : Becomes(n, b) /\ Content(b) = Contents[n] \o bytes
      <4>1. CASE AppendBytes(n, bytes)
        <5>1. /\ Good(buffs[n]) /\ bytes \in Seq(Byte)
              /\ Becomes(n, append(buffs[n], bytes))
          BY <2>0, <4>1, DataString DEF AppendBytes
        <5>2. Content(append(buffs[n], bytes)) = Contents[n] \o bytes
          BY <2>0, <5>1, AppendGood
        <5> QED BY <5>1, <5>2
      <4>2. CASE WriteInPlace(n, bytes)
        <5>1. /\ Good(buffs[n]) /\ bytes \in Seq(Byte)
              /\ Becomes(n, written(buffs[n], bytes))
              /\ Len(bytes) <= writableBytes(buffs[n])
          BY <2>0, <4>2, DataString DEF WriteInPlace
        <5>2. Content(written(buffs[n], bytes)) = Contents[n] \o bytes
          BY <2>0, <5>1, WrittenGood
        <5> QED BY <5>1, <5>2
      <4>3. CASE ReadFd(n, bytes)
        <5>1. /\ Good(buffs[n]) /\ bytes \in Seq(Byte)
              /\ Becomes(n, readFd(buffs[n], bytes))
          BY <2>0, <4>3, DataString DEF ReadFd
        <5>2. Content(readFd(buffs[n], bytes)) = Contents[n] \o bytes
          BY <2>0, <5>1, ReadFdGood
        <5> QED BY <5>1, <5>2
      <4> QED BY <2>4, <4>1, <4>2, <4>3
    <3>2. Queue!Push(n, bytes)
      BY <3>1, OneChanges DEF Queue!Push, Queue!Becomes, Contents
    <3> QED BY <3>2 DEF Queue!Next
  <2>5. ASSUME NEW n \in Names, NEW bytes \in Data, Prepend(n, bytes)
        PROVE  Queue!Next
    <3>1. Content(prepend(buffs[n], bytes)) = bytes \o Contents[n]
      BY <2>0, <2>5, DataString, PrependGood DEF Prepend
    <3>2. Queue!PushFront(n, bytes)
      BY <2>5, <3>1, OneChanges DEF Prepend, Queue!PushFront, Queue!Becomes, Contents
    <3> QED BY <3>2 DEF Queue!Next
  <2>6. ASSUME NEW m \in Names, NEW n \in Names, Swap(m, n)
        PROVE  Queue!Next
    <3>1. Contents' = [Contents EXCEPT ![m] = Contents[n], ![n] = Contents[m]]
      BY <2>6 DEF Swap, Contents, IInv
    <3>2. Queue!Exchange(m, n)
      BY <3>1 DEF Queue!Exchange, Contents
    <3> QED BY <3>2 DEF Queue!Next
  <2>7. CASE UNCHANGED buffs
    BY <2>7 DEF Contents, Content, readableBytes
  <2> QED BY <2>1, <2>2, <2>3, <2>4, <2>5, <2>6, <2>7 DEF Next
<1> QED
  BY <1>1, <1>2, Inductive, PTL DEF Spec, ImplementsByteQueue, Queue!Spec, Contents
=============================================================================

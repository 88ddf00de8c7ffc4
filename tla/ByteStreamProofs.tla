-------------------------- MODULE ByteStreamProofs ---------------------------
(***************************************************************************)
(* What ByteStream promises, for any messages of any lengths whose bytes   *)
(* can be told apart: no byte goes out twice; each byte goes out directly  *)
(* behind the one before it in its message; and what has gone out stays    *)
(* as it is once the stream is broken.                                     *)
(***************************************************************************)
EXTENDS ByteStream, SequenceTheorems, TLAPS

CONSTANT Byte       \* what messages are made of

\* The bytes of all messages can be told apart.
AllDiffer ==
  /\ \A m \in Messages : Bytes(m) \in Seq(Byte)
  /\ \A m, n \in Messages :
        \A i \in 1..Len(Bytes(m)), j \in 1..Len(Bytes(n)) :
           Bytes(m)[i] = Bytes(n)[j] => m = n /\ i = j

\* No byte goes out twice.
SentOnce == \A i, j \in 1..Len(wire) : wire[i] = wire[j] => i = j

\* On the wire the bytes of a message follow each other, from its first, with
\* nothing left out and nothing of another message in between.
SentWhole ==
  \A i \in 1..Len(wire) : \E m \in Messages : \E j \in 1..Len(Bytes(m)) :
     /\ j <= i
     /\ \A k \in 1..j : wire[(i - j) + k] = Bytes(m)[k]

\* What has gone out is never taken back or changed, and behind a break nothing
\* more goes out.
SilentBehindBreak ==
  [][/\ Len(wire) <= Len(wire')
     /\ \A i \in 1..Len(wire) : wire'[i] = wire[i]
     /\ broken => wire' = wire]_vars

-----------------------------------------------------------------------------

\* All bytes of the messages that have been taken over, in order.
Flow == wire \o queue

Distinct(s) == \A i, j \in 1..Len(s) : s[i] = s[j] => i = j

\* Message m stands in s, behind the first p bytes.
Stands(m, p, s) ==
  /\ p + Len(Bytes(m)) <= Len(s)
  /\ \A k \in 1..Len(Bytes(m)) : s[p + k] = Bytes(m)[k]

\* s is made of whole messages out of M.
Whole(s, M) ==
  \A i \in 1..Len(s) : \E m \in M : \E j \in 1..Len(Bytes(m)) :
     j <= i /\ Stands(m, i - j, s)

IInv ==
  /\ left \subseteq Messages
  /\ wire \in Seq(Byte) /\ queue \in Seq(Byte)
  /\ Distinct(Flow)
  /\ Whole(Flow, Messages \ left)

\* Concatenation is associative.
LEMMA Associative ==
  ASSUME NEW a \in Seq(Byte), NEW b \in Seq(Byte), NEW c \in Seq(Byte)
  PROVE  (a \o b) \o c = a \o (b \o c)
BY ConcatAssociative

\* Sending moves bytes from the queue to the wire, and nothing else.
LEMMA SplitFlow ==
  ASSUME wire \in Seq(Byte), NEW q \in Seq(Byte), NEW k \in 0..Len(q), Split(q, k)
  PROVE  /\ wire' \in Seq(Byte) /\ queue' \in Seq(Byte)
         /\ Flow' = wire \o q
         /\ Len(wire) <= Len(wire') /\ \A i \in 1..Len(wire) : wire'[i] = wire[i]
         /\ k = 0 => wire' = wire
<1> DEFINE front == SubSeq(q, 1, k)
           rest  == SubSeq(q, k + 1, Len(q))
<1>1. Len(q) \in Nat /\ \A i \in 1..Len(q) : q[i] \in Byte
  BY LenProperties, ElementOfSeq
<1>2. front \in Seq(Byte)
  BY <1>1, SubSeqProperties
<1>3. rest \in Seq(Byte)
  BY <1>1, SubSeqProperties
<1>4. front \o rest = q
  <2>1. front \o rest = SubSeq(q, 1, Len(q))
    <3>1. 1 \in 1..(Len(q) + 1) /\ k \in (1 - 1)..Len(q) /\ Len(q) \in k..Len(q)
      BY <1>1
    <3> QED BY <3>1, ConcatAdjacentSubSeq DEF front, rest
  <2> QED BY <2>1, SubSeqFull
<1>5. k = 0 => front = <<>>
  BY <1>1, SubSeqEmpty
<1> HIDE DEF front, rest
<1>6. wire' = wire \o front /\ queue' = rest
  BY DEF Split, front, rest
<1>7. Flow' = wire \o q
  <2>1. Flow' = (wire \o front) \o rest
    BY <1>6 DEF Flow
  <2>2. (wire \o front) \o rest = wire \o (front \o rest)
    BY <1>2, <1>3, Associative
  <2> QED BY <1>4, <2>1, <2>2
<1>8. Len(wire) \in Nat /\ Len(front) \in Nat
  BY <1>2, LenProperties
<1>9. /\ wire \o front \in Seq(Byte)
      /\ Len(wire \o front) = Len(wire) + Len(front)
      /\ \A i \in 1..(Len(wire) + Len(front)) :
           (wire \o front)[i] = IF i <= Len(wire) THEN wire[i] ELSE front[i - Len(wire)]
  BY <1>2, ConcatProperties
<1>10. k = 0 => wire' = wire
  BY <1>5, <1>6, ConcatEmptySeq
<1> QED BY <1>3, <1>6, <1>7, <1>8, <1>9, <1>10

\* Behind whole messages, one more that is not among them.
LEMMA TakeWhole ==
  ASSUME AllDiffer, left \subseteq Messages, NEW m \in left, NEW s \in Seq(Byte),
         Distinct(s), Whole(s, Messages \ left)
  PROVE  /\ s \o Bytes(m) \in Seq(Byte)
         /\ Distinct(s \o Bytes(m))
         /\ Whole(s \o Bytes(m), Messages \ (left \ {m}))
<1> DEFINE n == Len(s)
           l == Len(Bytes(m))
           t == s \o Bytes(m)
<1>1. Bytes(m) \in Seq(Byte) /\ n \in Nat /\ l \in Nat
  BY LenProperties DEF AllDiffer
<1>2. /\ t \in Seq(Byte) /\ Len(t) = n + l
      /\ \A i \in 1..n : t[i] = s[i]
      /\ \A i \in 1..l : t[n + i] = Bytes(m)[i]
  <2>1. /\ t \in Seq(Byte) /\ Len(t) = n + l
        /\ \A i \in 1..(n + l) : t[i] = IF i <= n THEN s[i] ELSE Bytes(m)[i - n]
    BY <1>1, ConcatProperties
  <2> HIDE DEF n, l, t
  <2> QED BY <1>1, <2>1
<1> HIDE DEF t
<1>3. \A i \in 1..(n + l) : i \in 1..n \/ \E k \in 1..l : i = n + k
  <2> HIDE DEF n, l
  <2> TAKE i \in 1..(n + l)
  <2>1. CASE i > n
    <3>1. i - n \in 1..l /\ i = n + (i - n)
      BY <1>1, <2>1
    <3> QED BY <3>1
  <2> QED BY <1>1, <2>1
<1>4. ASSUME NEW i \in 1..n, NEW k \in 1..l
      PROVE  s[i] # Bytes(m)[k]
  BY <1>4 DEF Whole, Stands, AllDiffer
<1>5. Distinct(t)
  <2> SUFFICES ASSUME NEW i \in 1..(n + l), NEW j \in 1..(n + l), t[i] = t[j]
               PROVE  i = j
    BY <1>2 DEF Distinct
  <2>1. CASE i \in 1..n /\ j \in 1..n
    BY <1>2, <2>1 DEF Distinct
  <2>2. ASSUME NEW k \in 1..l, NEW p \in 1..l, i = n + k, j = n + p
        PROVE  i = j
    <3>1. Bytes(m)[k] = Bytes(m)[p]
      BY <1>2, <2>2
    <3> QED BY <2>2, <3>1 DEF AllDiffer
  <2>3. ASSUME NEW a \in 1..n, NEW k \in 1..l
        PROVE  t[a] # t[n + k]
    BY <1>2, <1>4
  <2>4. i \in 1..n \/ \E k \in 1..l : i = n + k
    BY <1>3
  <2>5. j \in 1..n \/ \E k \in 1..l : j = n + k
    BY <1>3
  <2> HIDE DEF n, l
  <2> QED BY <2>1, <2>2, <2>3, <2>4, <2>5
<1>6. ASSUME NEW i \in 1..n
      PROVE  \E a \in Messages \ (left \ {m}) : \E j \in 1..Len(Bytes(a)) :
                j <= i /\ Stands(a, i - j, t)
  <2>1. PICK a \in Messages \ left : \E j \in 1..Len(Bytes(a)) :
               j <= i /\ Stands(a, i - j, s)
    BY DEF Whole
  <2>2. PICK j \in 1..Len(Bytes(a)) : j <= i /\ Stands(a, i - j, s)
    BY <2>1
  <2>3. Len(Bytes(a)) \in Nat
    BY LenProperties DEF AllDiffer
  <2>4. (i - j) + Len(Bytes(a)) <= n /\ \A k \in 1..Len(Bytes(a)) : (i - j) + k \in 1..n
    BY <1>1, <2>2, <2>3 DEF Stands
  <2>5. Stands(a, i - j, t)
    <3>1. \A k \in 1..Len(Bytes(a)) : t[(i - j) + k] = s[(i - j) + k]
      BY <1>2, <2>4
    <3>2. (i - j) + Len(Bytes(a)) <= Len(t)
      BY <1>1, <1>2, <2>3, <2>4
    <3> QED BY <2>2, <3>1, <3>2 DEF Stands
  <2> QED BY <2>2, <2>5
<1>7. ASSUME NEW k \in 1..l
      PROVE  \E a \in Messages \ (left \ {m}) : \E j \in 1..Len(Bytes(a)) :
                j <= n + k /\ Stands(a, (n + k) - j, t)
  <2>1. (n + k) - k = n /\ k <= n + k
    BY <1>1
  <2>2. Stands(m, (n + k) - k, t)
    BY <1>2, <2>1 DEF Stands
  <2>3. m \in Messages \ (left \ {m})
    OBVIOUS
  <2> QED BY <2>1, <2>2, <2>3
<1>8. Whole(t, Messages \ (left \ {m}))
  <2> SUFFICES ASSUME NEW i \in 1..(n + l)
               PROVE  \E a \in Messages \ (left \ {m}) : \E j \in 1..Len(Bytes(a)) :
                         j <= i /\ Stands(a, i - j, t)
    BY <1>2 DEF Whole
  <2>1. i \in 1..n \/ \E k \in 1..l : i = n + k
    BY <1>3
  <2> HIDE DEF n, l
  <2> QED BY <1>6, <1>7, <2>1
<1> QED BY <1>2, <1>5, <1>8 DEF t

\* However the bytes are cut, all messages stand in the flow once and whole.
LEMMA Inductive ==
  ASSUME AllDiffer
  PROVE  Spec => []IInv
<1>1. Init => IInv
  <2> SUFFICES ASSUME Init PROVE IInv
    OBVIOUS
  <2>1. <<>> \in Seq(Byte) /\ Flow = <<>>
    BY EmptySeq, ConcatEmptySeq DEF Init, Flow
  <2> QED BY <2>1, EmptySeq DEF Init, IInv, Distinct, Whole
<1>2. ASSUME IInv, [Next]_vars PROVE IInv'
  <2>1. ASSUME NEW m \in Messages, Take(m) PROVE IInv'
    <3>1. PICK k \in 0..Len(queue \o Bytes(m)) : Split(queue \o Bytes(m), k)
      BY <2>1 DEF Take
    <3>2. queue \in Seq(Byte) /\ Bytes(m) \in Seq(Byte) /\ wire \in Seq(Byte)
      BY <1>2 DEF IInv, AllDiffer
    <3>3. queue \o Bytes(m) \in Seq(Byte) /\ Flow \in Seq(Byte)
      BY <3>2, ConcatProperties DEF Flow
    <3>4. wire' \in Seq(Byte) /\ queue' \in Seq(Byte)
          /\ Flow' = wire \o (queue \o Bytes(m))
      BY <3>1, <3>2, <3>3, SplitFlow
    <3>5. Flow' = Flow \o Bytes(m)
      BY <3>2, <3>4, Associative DEF Flow
    <3>6. m \in left /\ left' = left \ {m}
      BY <2>1 DEF Take
    <3>7. Distinct(Flow \o Bytes(m)) /\ Whole(Flow \o Bytes(m), Messages \ (left \ {m}))
      BY <1>2, <3>3, <3>6, TakeWhole DEF IInv
    <3> QED BY <1>2, <3>4, <3>5, <3>6, <3>7 DEF IInv
  <2>2. CASE Transmit \/ TransmitAndBreak
    <3>1. PICK k \in 1..Len(queue) : Split(queue, k) /\ left' = left
      BY <2>2 DEF Transmit, TransmitAndBreak
    <3>2. wire' \in Seq(Byte) /\ queue' \in Seq(Byte) /\ Flow' = Flow
      BY <1>2, <3>1, SplitFlow DEF IInv, Flow
    <3> QED BY <1>2, <3>1, <3>2 DEF IInv
  <2>3. ASSUME NEW m \in Messages, Drop(m) PROVE IInv'
    <3>1. left' \subseteq left /\ UNCHANGED <<queue, wire, Flow>>
      BY <2>3 DEF Drop, Flow
    <3> QED BY <1>2, <3>1 DEF IInv, Whole
  <2>4. CASE Break \/ UNCHANGED vars
    <3>1. UNCHANGED <<left, queue, wire, Flow>>
      BY <2>4 DEF Break, vars, Flow
    <3> QED BY <1>2, <3>1 DEF IInv
  <2> QED BY <1>2, <2>1, <2>2, <2>3, <2>4 DEF Next
<1> QED BY <1>1, <1>2, PTL DEF Spec

\* What the invariant says of the wire alone.
LEMMA OnTheWire ==
  ASSUME AllDiffer, IInv
  PROVE  SentOnce /\ SentWhole
<1>1. /\ Len(wire) \in Nat /\ Len(queue) \in Nat /\ Len(Flow) = Len(wire) + Len(queue)
      /\ \A i \in 1..Len(wire) : Flow[i] = wire[i]
  BY LenProperties, ConcatProperties DEF IInv, Flow
<1>2. SentOnce
  BY <1>1 DEF SentOnce, IInv, Distinct
<1>3. ASSUME NEW i \in 1..Len(wire)
      PROVE  \E m \in Messages : \E j \in 1..Len(Bytes(m)) :
                /\ j <= i
                /\ \A k \in 1..j : wire[(i - j) + k] = Bytes(m)[k]
  <2>1. i \in 1..Len(Flow)
    BY <1>1
  <2>2. PICK m \in Messages : \E j \in 1..Len(Bytes(m)) : j <= i /\ Stands(m, i - j, Flow)
    BY <2>1 DEF IInv, Whole
  <2>3. PICK j \in 1..Len(Bytes(m)) : j <= i /\ Stands(m, i - j, Flow)
    BY <2>2
  <2>4. Len(Bytes(m)) \in Nat
    BY LenProperties DEF AllDiffer
  <2>5. ASSUME NEW k \in 1..j PROVE wire[(i - j) + k] = Bytes(m)[k]
    <3>1. k \in 1..Len(Bytes(m)) /\ (i - j) + k \in 1..Len(wire)
      BY <1>1, <2>3, <2>4
    <3> QED BY <1>1, <2>3, <3>1 DEF Stands
  <2> QED BY <2>3, <2>5
<1>4. SentWhole
  BY <1>3 DEF SentWhole
<1> QED BY <1>2, <1>4

\* No byte of any message goes out twice.
THEOREM Once ==
  ASSUME AllDiffer
  PROVE  Spec => []SentOnce
<1>1. IInv => SentOnce
  BY OnTheWire
<1> QED BY <1>1, Inductive, PTL

\* Messages go out in one piece, from their first byte.
THEOREM InOnePiece ==
  ASSUME AllDiffer
  PROVE  Spec => []SentWhole
<1>1. IInv => SentWhole
  BY OnTheWire
<1> QED BY <1>1, Inductive, PTL

\* Nothing that has gone out changes, and nothing goes out behind a break.
THEOREM Silent ==
  ASSUME AllDiffer
  PROVE  Spec => SilentBehindBreak
<1> DEFINE Kept == /\ Len(wire) <= Len(wire')
                   /\ \A i \in 1..Len(wire) : wire'[i] = wire[i]
                   /\ broken => wire' = wire
<1>1. ASSUME IInv, Next PROVE Kept
  <2>1. Len(wire) \in Nat /\ wire \in Seq(Byte)
    BY <1>1, LenProperties DEF IInv
  <2>2. ASSUME NEW m \in Messages, Take(m) PROVE Kept
    <3>1. PICK k \in 0..Len(queue \o Bytes(m)) :
                 Split(queue \o Bytes(m), k) /\ (broken => k = 0)
      BY <2>2 DEF Take
    <3>2. queue \o Bytes(m) \in Seq(Byte)
      BY <1>1, ConcatProperties DEF IInv, AllDiffer
    <3> QED BY <2>1, <3>1, <3>2, SplitFlow
  <2>3. CASE Transmit \/ TransmitAndBreak
    <3>1. PICK k \in 1..Len(queue) : Split(queue, k) /\ ~broken
      BY <2>3 DEF Transmit, TransmitAndBreak
    <3> QED BY <1>1, <2>1, <3>1, SplitFlow DEF IInv
  <2>4. CASE wire' = wire
    BY <2>1, <2>4
  <2> QED BY <1>1, <2>2, <2>3, <2>4 DEF Next, Drop, Break
<1>2. IInv /\ [Next]_vars => [Kept]_vars
  BY <1>1
<1> QED BY <1>2, Inductive, PTL DEF Spec, SilentBehindBreak
=============================================================================

------------------------------ MODULE ByteQueue ------------------------------
(***************************************************************************)
(* What a Buff promises: a sequence of bytes that is read at its front and *)
(* written at its end.  Nothing of indices, room or moving is seen here.   *)
(***************************************************************************)
EXTENDS Naturals, Sequences

CONSTANTS
  Names,          \* the buffers
  Data            \* the strings of bytes that one call may write

VARIABLE content  \* of each buffer, the bytes that can be read, in order

Init == content = [n \in Names |-> <<>>]

Becomes(n, bytes) == content' = [content EXCEPT ![n] = bytes]

\* Bytes written at the end.
Push(n, bytes) == Becomes(n, content[n] \o bytes)

\* The first len bytes taken.
Pop(n, len) == Becomes(n, SubSeq(content[n], len + 1, Len(content[n])))

\* Bytes put in front of the others.
PushFront(n, bytes) == Becomes(n, bytes \o content[n])

\* The last len bytes taken back.
PopBack(n, len) == Becomes(n, SubSeq(content[n], 1, Len(content[n]) - len))

Exchange(m, n) ==
  content' = [content EXCEPT ![m] = content[n], ![n] = content[m]]

Next ==
  \/ \E n \in Names :
       \/ \E bytes \in Data : Push(n, bytes) \/ PushFront(n, bytes)
       \/ \E len \in 0..Len(content[n]) : Pop(n, len) \/ PopBack(n, len)
  \/ \E m, n \in Names : Exchange(m, n)

Spec == Init /\ [][Next]_content
=============================================================================

----------------------------- MODULE ByteStream ------------------------------
(***************************************************************************)
(* What a connection promises about the bytes it is given to send: every   *)
(* message is taken over at most once, whole, and the bytes go out in the  *)
(* order in which the messages were taken over, none twice, none skipped.  *)
(* Once the stream is broken (the write end is shut down, or the peer has  *)
(* reset it) no byte goes out any more and messages may be dropped.        *)
(***************************************************************************)
EXTENDS Naturals, Sequences

CONSTANTS
  Messages,       \* each is taken over at most once
  Bytes(_)        \* the bytes of a message, all different

VARIABLES
  left,           \* messages not taken over yet
  queue,          \* bytes taken over that have not gone out
  wire,           \* bytes that have gone out, in order
  broken          \* the stream is broken

vars == <<left, queue, wire, broken>>

Init ==
  /\ left = Messages
  /\ queue = <<>>
  /\ wire = <<>>
  /\ broken = FALSE

\* Of the bytes in q, the first k go out and the others stay.
Split(q, k) ==
  /\ wire' = wire \o SubSeq(q, 1, k)
  /\ queue' = SubSeq(q, k + 1, Len(q))

\* Take a message over; some of the bytes may go out at once.
Take(m) ==
  /\ m \in left
  /\ left' = left \ {m}
  /\ \E k \in 0..Len(queue \o Bytes(m)) :
        /\ broken => k = 0
        /\ Split(queue \o Bytes(m), k)
  /\ UNCHANGED broken

\* Bytes go out.
Transmit ==
  /\ ~broken
  /\ \E k \in 1..Len(queue) : Split(queue, k)
  /\ UNCHANGED <<left, broken>>

\* A message is turned away: nothing of it goes out.
Drop(m) ==
  /\ m \in left
  /\ left' = left \ {m}
  /\ UNCHANGED <<queue, wire, broken>>

Break ==
  /\ broken' = TRUE
  /\ UNCHANGED <<left, queue, wire>>

\* The last bytes go out and the write end is shut down behind them.
TransmitAndBreak ==
  /\ ~broken
  /\ \E k \in 1..Len(queue) : Split(queue, k)
  /\ broken' = TRUE
  /\ UNCHANGED left

Next ==
  \/ \E m \in Messages : Take(m) \/ Drop(m)
  \/ Transmit
  \/ Break
  \/ TransmitAndBreak

Spec == Init /\ [][Next]_vars
=============================================================================

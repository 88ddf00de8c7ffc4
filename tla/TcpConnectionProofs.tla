------------------------- MODULE TcpConnectionProofs -------------------------
(***************************************************************************)
(* Theorems about TcpConnection, for any number of callers, messages and   *)
(* bytes, and any high water mark and send buffer.                         *)
(*                                                                         *)
(* TypeOK is inductive.  That the channel is watched exactly while bytes   *)
(* are buffered, and the write end not shut down meanwhile, needs besides  *)
(* that user code interrupts connectDestroyed only behind the first half   *)
(* of it, and that a socket error comes of a reset (CloseInv); that the    *)
(* messages go out once, in order and whole needs that each is in one      *)
(* place only until sendInLoop has got it (PlacesInv).                     *)
(***************************************************************************)
EXTENDS TcpConnection, SequenceTheorems, TLAPS

USE TcpConnectionAssumption

\* The parts of TypeOK, as the actions leave them alone.
ConnType ==
  /\ state \in {"kDisconnected", "kConnected", "kDisconnecting"}
  /\ reading \in BOOLEAN
  /\ events \subseteq {"read", "write"}
  /\ index \in {"kNew", "kAdded", "kDeleted"}
  /\ out \in Seq(Messages \X (1..MessageLength))

WhereType ==
  /\ pc \in {"poll", "event", "functors", "user"}
  /\ within \in {"event", "functors"}
  /\ after \in {"return", "closeCallback", "remove"}

QueueType == pending \in Seq(Functors) /\ batch \in Seq(Functors)

BaseType == inMap \in BOOLEAN /\ removals \in Nat /\ serverGone \in BOOLEAN

CallType ==
  /\ call \in [Callers -> Functors \cup {Idle, Functor("shutdown")}]
  /\ fresh \subseteq Messages
  /\ calls \in 0..MaxCalls
  /\ owed \subseteq Messages

SockType ==
  /\ sent \in Seq(Messages \X (1..MessageLength))
  /\ unsent \in 0..SendBuffer
  /\ input \in BOOLEAN /\ soError \in BOOLEAN /\ wrShut \in BOOLEAN
  /\ peer \in {"open", "fin", "reset"}

HistType == known \in BOOLEAN /\ closed \in BOOLEAN /\ removed \in BOOLEAN

\* They are TypeOK.
LEMMA TypeParts ==
  /\ TypeOK <=> /\ ConnType /\ WhereType /\ QueueType /\ BaseType /\ CallType
                /\ SockType /\ HistType
                /\ revents \subseteq {"hup", "err", "in", "out"}
  /\ TypeOK' <=> /\ ConnType' /\ WhereType' /\ QueueType' /\ BaseType' /\ CallType'
                 /\ SockType' /\ HistType'
                 /\ revents' \subseteq {"hup", "err", "in", "out"}
BY DEF TypeOK, ConnType, WhereType, QueueType, BaseType, CallType, SockType,
   HistType

-----------------------------------------------------------------------------
(* The operators that the actions are built from.                          *)

\* The functors by name, and a message's sendInLoop.
LEMMA FunctorTypes ==
  /\ \A m \in Messages : Send(m) \in Functors
  /\ \A f \in Functors : f.op = "sendInLoop" => f.msg \in Messages /\ f = Send(f.msg)
  /\ \A f \in Functors : f.op # "sendInLoop" => f.msg = NoMessage
  /\ \A name \in {"connectEstablished", "connectDestroyed", "shutdownInLoop",
                  "forceCloseInLoop", "startReadInLoop", "stopReadInLoop",
                  "writeComplete", "highWaterMark"} : Functor(name) \in Functors
BY DEF Functors, Functor, Send

\* A message has MessageLength bytes, and so any part of it.
LEMMA BytesType ==
  ASSUME NEW m \in Messages
  PROVE  /\ Bytes(m) \in Seq(Messages \X (1..MessageLength))
         /\ Len(Bytes(m)) = MessageLength
BY DEF Bytes

\* What stays of a string when its first k elements are gone.
LEMMA RestType ==
  ASSUME NEW S, NEW s \in Seq(S), NEW k \in 0..Len(s)
  PROVE  /\ SubSeq(s, 1, k) \in Seq(S) /\ Len(SubSeq(s, 1, k)) = k
         /\ SubSeq(s, k + 1, Len(s)) \in Seq(S)
         /\ Len(SubSeq(s, k + 1, Len(s))) = Len(s) - k
<1>1. Len(s) \in Nat /\ k \in Nat /\ \A i \in 1..Len(s) : s[i] \in S
  BY LenProperties
<1>2. /\ SubSeq(s, 1, k) \in Seq(S)
      /\ Len(SubSeq(s, 1, k)) = IF 1 <= k THEN k - 1 + 1 ELSE 0
  BY <1>1, SubSeqProperties
<1> QED BY <1>1, <1>2

\* Channel::update, and what it has of handleClose and the like.
LEMMA UpdateType ==
  ASSUME ConnType, NEW evs \in SUBSET {"read", "write"}, Update(evs)
  PROVE  events' \subseteq {"read", "write"} /\ index' \in {"kAdded", "kDeleted"}
BY DEF ConnType, Update

\* A functor that is queued.
LEMMA QueueAfter ==
  ASSUME QueueType, NEW f \in Functors, pending' = Append(pending, f)
  PROVE  pending' \in Seq(Functors)
BY AppendProperties DEF QueueType

\* What is buffered behind a write of none or some of the bytes.
LEMMA EnqueueType ==
  ASSUME ConnType, QueueType, NEW bs \in Seq(Messages \X (1..MessageLength)),
         Enqueue(bs)
  PROVE  /\ out' \in Seq(Messages \X (1..MessageLength))
         /\ events' \subseteq {"read", "write"}
         /\ index' \in {"kNew", "kAdded", "kDeleted"}
         /\ pending' \in Seq(Functors)
<1>1. out' \in Seq(Messages \X (1..MessageLength))
  BY ConcatProperties DEF Enqueue, ConnType
<1>2. pending' \in Seq(Functors)
  <2>1. Append(pending, Functor("highWaterMark")) \in Seq(Functors)
    BY FunctorTypes, AppendProperties DEF QueueType
  <2> QED BY <2>1 DEF Enqueue, QueueType
<1>3. events' \subseteq {"read", "write"} /\ index' \in {"kNew", "kAdded", "kDeleted"}
  <2>1. CASE IsWriting
    BY <2>1 DEF Enqueue, ConnType
  <2>2. CASE ~IsWriting
    <3>1. Update(events \cup {"write"}) /\ events \cup {"write"} \in SUBSET {"read", "write"}
      BY <2>2 DEF Enqueue, ConnType
    <3> QED BY <3>1, UpdateType
  <2> QED BY <2>1, <2>2
<1> QED BY <1>1, <1>2, <1>3

\* A write of some of the bytes.
LEMMA WriteTakesType ==
  ASSUME SockType, NEW bs \in Seq(Messages \X (1..MessageLength)), NEW k,
         WriteTakes(bs, k)
  PROVE  /\ k \in 1..Len(bs)
         /\ sent' \in Seq(Messages \X (1..MessageLength))
         /\ unsent' \in 0..SendBuffer
         /\ UNCHANGED <<input, soError, peer>>
<1>1. k \in 1..Len(bs) /\ Len(bs) \in Nat
  BY LenProperties DEF WriteTakes
<1>2. SubSeq(bs, 1, k) \in Seq(Messages \X (1..MessageLength))
  BY <1>1, RestType
<1>3. sent' \in Seq(Messages \X (1..MessageLength))
  BY <1>2, ConcatProperties DEF WriteTakes, SockType
<1>4. unsent' \in 0..SendBuffer
  BY <1>1 DEF WriteTakes, SockType, Room
<1> QED BY <1>1, <1>3, <1>4 DEF WriteTakes

\* What sendInLoop may do with a message: drop it, buffer it whole, or write
\* some of it, where nothing is buffered, and buffer the rest.
LEMMA SendCases ==
  ASSUME NEW m \in Messages, SendInLoop(m)
  PROVE  \/ /\ UNCHANGED <<events, index, out, pending>>
            /\ UNCHANGED sockVars \/ (WriteFails /\ ~IsWriting)
         \/ /\ Enqueue(Bytes(m)) /\ soError' \in {soError, FALSE}
            /\ UNCHANGED <<sent, unsent, input, wrShut, peer>>
            /\ IsWriting \/ out # <<>> \/ ~Broken \/ soError
         \/ /\ ~IsWriting /\ out = <<>>
            /\ WriteTakes(Bytes(m), MessageLength)
            /\ pending' = Append(pending, Functor("writeComplete"))
            /\ UNCHANGED <<events, index, out, wrShut>>
         \/ \E k \in 1..(MessageLength - 1) :
               /\ ~IsWriting /\ out = <<>>
               /\ WriteTakes(Bytes(m), k)
               /\ Enqueue(SubSeq(Bytes(m), k + 1, MessageLength))
               /\ UNCHANGED wrShut
BY DEF SendInLoop, WriteDirectly, sockVars

\* sendInLoop keeps the types.
LEMMA SendType ==
  ASSUME ConnType, QueueType, SockType, NEW m \in Messages, SendInLoop(m)
  PROVE  /\ out' \in Seq(Messages \X (1..MessageLength))
         /\ events' \subseteq {"read", "write"}
         /\ index' \in {"kNew", "kAdded", "kDeleted"}
         /\ pending' \in Seq(Functors)
         /\ SockType'
<1>1. CASE /\ UNCHANGED <<events, index, out, pending>>
           /\ UNCHANGED sockVars \/ (WriteFails /\ ~IsWriting)
  BY <1>1 DEF ConnType, QueueType, SockType, sockVars, WriteFails
<1>2. CASE /\ Enqueue(Bytes(m)) /\ soError' \in {soError, FALSE}
           /\ UNCHANGED <<sent, unsent, input, wrShut, peer>>
  <2>1. SockType'
    BY <1>2 DEF SockType
  <2> QED BY <1>2, <2>1, BytesType, EnqueueType
<1>3. CASE /\ WriteTakes(Bytes(m), MessageLength)
           /\ pending' = Append(pending, Functor("writeComplete"))
           /\ UNCHANGED <<events, index, out, wrShut>>
  BY <1>3, BytesType, WriteTakesType, FunctorTypes, QueueAfter DEF ConnType, SockType
<1>4. ASSUME NEW k \in 1..(MessageLength - 1), WriteTakes(Bytes(m), k),
             Enqueue(SubSeq(Bytes(m), k + 1, MessageLength)), UNCHANGED wrShut
      PROVE  /\ out' \in Seq(Messages \X (1..MessageLength))
             /\ events' \subseteq {"read", "write"}
             /\ index' \in {"kNew", "kAdded", "kDeleted"}
             /\ pending' \in Seq(Functors)
             /\ SockType'
  <2>1. SubSeq(Bytes(m), k + 1, MessageLength) \in Seq(Messages \X (1..MessageLength))
    BY BytesType, RestType
  <2>2. SockType'
    BY <1>4, BytesType, WriteTakesType DEF SockType
  <2> QED BY <1>4, <2>1, <2>2, EnqueueType
<1> QED BY <1>1, <1>2, <1>3, <1>4, SendCases

\* handleClose keeps the types.
LEMMA HandleCloseType ==
  ASSUME ConnType, WhereType, HistType, pc \in {"event", "functors"}, HandleClose
  PROVE  ConnType' /\ WhereType' /\ HistType'
BY UpdateType DEF HandleClose, CallUser, ConnType, WhereType, HistType

\* The end of connectDestroyed keeps the types.
LEMMA RemoveChannelType ==
  ASSUME ConnType, HistType, RemoveChannel
  PROVE  ConnType' /\ HistType'
BY DEF RemoveChannel, ConnType, HistType

\* startReadInLoop and stopReadInLoop keep the types.
LEMMA ReadingType ==
  ASSUME ConnType, StartReadInLoop \/ StopReadInLoop, UNCHANGED <<state, out>>
  PROVE  ConnType'
<1>1. CASE StartReadInLoop
  BY <1>1, UpdateType DEF StartReadInLoop, ConnType
<1>2. CASE StopReadInLoop
  BY <1>2, UpdateType DEF StopReadInLoop, ConnType
<1> QED BY <1>1, <1>2

\* doPendingFunctors takes the first functor.
LEMMA RunType ==
  ASSUME QueueType, NEW op, Run(op)
  PROVE  /\ Head(batch) \in Functors /\ Head(batch).op = op
         /\ batch' \in Seq(Functors)
         /\ batch # <<>> /\ pc = "functors"
         /\ UNCHANGED <<revents, baseVars, callVars>>
BY HeadTailProperties DEF Run, QueueType

-----------------------------------------------------------------------------
(* Types.                                                                  *)

\* The initial state is of the type.
LEMMA TypeInit == Init => TypeOK
<1> SUFFICES ASSUME Init PROVE TypeOK
  OBVIOUS
<1>1. pending \in Seq(Functors)
  BY FunctorTypes DEF Init
<1>2. ConnType /\ WhereType /\ QueueType /\ BaseType /\ HistType
  BY <1>1, EmptySeq DEF Init, ConnType, WhereType, QueueType, BaseType, HistType
<1>3. CallType
  BY DEF Init, CallType
<1>4. SockType
  <2>1. sent \in Seq(Messages \X (1..MessageLength)) /\ unsent \in 0..SendBuffer
    BY EmptySeq DEF Init
  <2>2. input \in BOOLEAN /\ soError \in BOOLEAN /\ wrShut \in BOOLEAN
    BY DEF Init
  <2> QED BY <2>1, <2>2 DEF Init, SockType
<1> QED BY <1>2, <1>3, <1>4, TypeParts DEF Init

\* The io loop's own steps keep the types.
LEMMA LoopType ==
  ASSUME TypeOK, LoopStep
  PROVE  TypeOK'
<1> USE TypeParts
<1>1. CASE Poll
  BY <1>1 DEF Poll, Reported, Conditions, connVars, baseVars, callVars, sockVars,
     histVars, ConnType, WhereType, QueueType, BaseType, CallType, SockType,
     HistType
<1>2. CASE EventHup
  <2>1. ConnType' /\ WhereType' /\ HistType'
    BY <1>2, HandleCloseType DEF EventHup, Handling
  <2> QED BY <1>2, <2>1 DEF EventHup, Handling, baseVars, callVars, sockVars,
          QueueType, BaseType, CallType, SockType
<1>3. CASE EventErr
  <2>1. SockType'
    BY <1>3 DEF EventErr, SockType
  <2> QED BY <1>3, <2>1 DEF EventErr, Handling, connVars, baseVars, callVars, histVars,
          ConnType, WhereType, QueueType, BaseType, CallType, HistType
<1>4. CASE ReadData
  BY <1>4 DEF ReadData, Handling, CallUser, connVars, baseVars, callVars, histVars,
     ConnType, WhereType, QueueType, BaseType, CallType, SockType, HistType
<1>5. CASE ReadError
  <2>1. SockType'
    BY <1>5 DEF ReadError, SockType
  <2> QED BY <1>5, <2>1 DEF ReadError, Handling, connVars, baseVars, callVars, histVars,
          ConnType, WhereType, QueueType, BaseType, CallType, HistType
<1>6. CASE ReadEnd
  <2>1. ConnType' /\ WhereType' /\ HistType'
    BY <1>6, HandleCloseType DEF ReadEnd, EndCloses, Handling
  <2> QED BY <1>6, <2>1 DEF ReadEnd, Handling, baseVars, callVars, sockVars,
          QueueType, BaseType, CallType, SockType
<1>7. CASE EventOut
  <2>1. ConnType' /\ QueueType' /\ SockType'
    <3>1. CASE UNCHANGED <<connVars, pending, sockVars>>
      BY <1>7, <3>1 DEF EventOut, connVars, sockVars, ConnType, QueueType, SockType
    <3>2. CASE WriteFails /\ UNCHANGED <<connVars, pending>>
      BY <1>7, <3>2 DEF EventOut, WriteFails, connVars, ConnType, QueueType, SockType
    <3>3. ASSUME NEW k \in 1..Len(out), WriteTakes(out, k),
                 out' = SubSeq(out, k + 1, Len(out)),
                 Drained \/ UNCHANGED <<events, index, pending, wrShut>>,
                 UNCHANGED <<state, reading, batch>>
          PROVE  ConnType' /\ QueueType' /\ SockType'
      <4>1. out' \in Seq(Messages \X (1..MessageLength))
        BY <3>3, RestType DEF ConnType
      <4>2. /\ events' \subseteq {"read", "write"}
            /\ index' \in {"kNew", "kAdded", "kDeleted"}
            /\ pending' \in Seq(Functors)
            /\ wrShut' \in BOOLEAN
        <5>1. CASE Drained
          BY <5>1, UpdateType, FunctorTypes, QueueAfter
          DEF Drained, ConnType, QueueType, SockType
        <5> QED BY <3>3, <5>1 DEF ConnType, QueueType, SockType
      <4> QED BY <3>3, <4>1, <4>2, WriteTakesType DEF ConnType, QueueType, SockType
    <3>4. UNCHANGED batch
      BY <1>7 DEF EventOut
    <3> QED BY <1>7, <3>1, <3>2, <3>3, <3>4 DEF EventOut
  <2> QED BY <1>7, <2>1 DEF EventOut, Handling, baseVars, callVars, histVars,
          WhereType, BaseType, CallType, HistType
<1>8. CASE SwapFunctors
  BY <1>8 DEF SwapFunctors, connVars, baseVars, callVars, sockVars, histVars,
     ConnType, WhereType, QueueType, BaseType, CallType, SockType, HistType
<1>9. CASE EndFunctors
  BY <1>9 DEF EndFunctors, connVars, baseVars, callVars, sockVars, histVars,
     ConnType, WhereType, QueueType, BaseType, CallType, SockType, HistType
<1>10. ASSUME NEW op, Run(op), UNCHANGED pending
       PROVE  QueueType' /\ BaseType' /\ CallType' /\ revents' = revents
  BY <1>10, RunType DEF baseVars, callVars, QueueType, BaseType, CallType
<1>11. CASE ConnectEstablished
  <2>1. ConnType' /\ WhereType'
    BY <1>11, UpdateType, RunType DEF ConnectEstablished, SetConnected, CallUser, ConnType, WhereType
  <2> QED BY <1>10, <1>11, <2>1 DEF ConnectEstablished, sockVars, SockType, HistType
<1>12. CASE ConnectDestroyed
  <2>1. ConnType' /\ WhereType' /\ HistType'
    <3>1. CASE Update({}) /\ CallUser("remove") /\ state' = "kDisconnected"
                 /\ closed' = TRUE /\ UNCHANGED <<reading, out, known, removed>>
      BY <1>12, <3>1, UpdateType, RunType
      DEF ConnectDestroyed, CallUser, ConnType, WhereType, HistType
    <3>2. CASE RemoveChannel /\ UNCHANGED <<pc, within, after>>
      BY <3>2, RemoveChannelType DEF WhereType
    <3> QED BY <1>12, <3>1, <3>2 DEF ConnectDestroyed
  <2> QED BY <1>10, <1>12, <2>1 DEF ConnectDestroyed, sockVars, SockType
<1>13. CASE RunSend
  <2>1. Head(batch).msg \in Messages /\ batch' \in Seq(Functors)
          /\ UNCHANGED <<revents, baseVars, callVars>>
    BY <1>13, RunType, FunctorTypes DEF RunSend
  <2>2. SendInLoop(Head(batch).msg) /\ UNCHANGED <<state, reading, pc, within, after, histVars>>
    BY <1>13 DEF RunSend
  <2>3. /\ out' \in Seq(Messages \X (1..MessageLength))
        /\ events' \subseteq {"read", "write"}
        /\ index' \in {"kNew", "kAdded", "kDeleted"}
        /\ pending' \in Seq(Functors)
        /\ SockType'
    BY <2>1, <2>2, SendType
  <2> QED BY <2>1, <2>2, <2>3 DEF baseVars, callVars, histVars,
     ConnType, WhereType, QueueType, BaseType, CallType, HistType
<1>14. CASE RunShutdown
  BY <1>10, <1>14 DEF RunShutdown, ShutdownInLoop, connVars, histVars,
     ConnType, WhereType, SockType, HistType
<1>15. CASE RunForceClose
  <2>1. ConnType' /\ WhereType' /\ HistType'
    BY <1>15, HandleCloseType, RunType
    DEF RunForceClose, connVars, histVars, ConnType, WhereType, HistType
  <2> QED BY <1>10, <1>15, <2>1 DEF RunForceClose, sockVars, SockType
<1>16. CASE RunStartRead \/ RunStopRead
  <2>1. ConnType'
    BY <1>16, ReadingType DEF RunStartRead, RunStopRead
  <2> QED BY <1>10, <1>16, <2>1 DEF RunStartRead, RunStopRead, sockVars, histVars,
          WhereType, SockType, HistType
<1>17. CASE RunCallback
  <2>1. WhereType'
    BY <1>17, RunType DEF RunCallback, CallUser, WhereType
  <2> QED BY <1>10, <1>17, <2>1 DEF RunCallback, connVars, sockVars, histVars,
          ConnType, SockType, HistType
<1>18. CASE UserReturns
  <2>1. ConnType' /\ HistType'
    BY <1>18, RemoveChannelType DEF UserReturns, connVars, histVars, ConnType, HistType
  <2> QED BY <1>18, <2>1 DEF UserReturns, callVars, sockVars,
          WhereType, QueueType, BaseType, CallType, SockType
<1> QED
  BY <1>1, <1>2, <1>3, <1>4, <1>5, <1>6, <1>7, <1>8, <1>9, <1>11, <1>12, <1>13,
     <1>14, <1>15, <1>16, <1>17, <1>18 DEF LoopStep

\* User code on the io loop's thread keeps the types.
LEMMA UserType ==
  ASSUME TypeOK, UserStep
  PROVE  TypeOK'
<1> USE TypeParts
<1>1. ASSUME NEW m \in Messages, UserSend(m)
      PROVE  TypeOK'
  <2>1. SendInLoop(m)
    BY <1>1 DEF UserSend
  <2>2. /\ out' \in Seq(Messages \X (1..MessageLength))
        /\ events' \subseteq {"read", "write"}
        /\ index' \in {"kNew", "kAdded", "kDeleted"}
        /\ pending' \in Seq(Functors)
        /\ SockType'
    BY <2>1, SendType
  <2> QED BY <1>1, <2>2 DEF UserSend, baseVars, histVars,
     ConnType, WhereType, QueueType, BaseType, CallType, HistType
<1>2. CASE UserShutdown
  BY <1>2 DEF UserShutdown, ShutdownInLoop, loopVars, baseVars, callVars, histVars,
     ConnType, WhereType, QueueType, BaseType, CallType, SockType, HistType
<1>3. CASE UserForceClose
  <2>1. QueueType'
    BY <1>3, FunctorTypes, QueueAfter DEF UserForceClose, QueueType
  <2> QED BY <1>3, <2>1 DEF UserForceClose, CountCall, connVars, baseVars, sockVars,
     histVars, ConnType, WhereType, BaseType, CallType, SockType, HistType
<1>4. CASE UserRead
  <2>1. ConnType'
    BY <1>4, ReadingType DEF UserRead
  <2> QED BY <1>4, <2>1 DEF UserRead, CountCall, loopVars, baseVars, sockVars,
     histVars, WhereType, QueueType, BaseType, CallType, SockType, HistType
<1> QED BY <1>1, <1>2, <1>3, <1>4 DEF UserStep

\* A call of another thread.
LEMMA BeginType ==
  ASSUME CallType, NEW t \in Callers, NEW f \in Functors \cup {Functor("shutdown")},
         Begin(t, f)
  PROVE  call' \in [Callers -> Functors \cup {Idle, Functor("shutdown")}]
BY DEF CallType, Begin

\* The other threads keep the types.
LEMMA CallerType ==
  ASSUME TypeOK, NEW t \in Callers, CallerStep(t)
  PROVE  TypeOK'
<1> USE TypeParts
<1>1. ASSUME CallType', UNCHANGED <<loopVars, baseVars, sockVars, histVars>>, ConnType'
      PROVE  TypeOK'
  BY <1>1 DEF loopVars, baseVars, sockVars, histVars,
     WhereType, QueueType, BaseType, SockType, HistType
<1>2. ASSUME NEW m \in Messages, CallSend(t, m)
      PROVE  TypeOK'
  <2>1. call' \in [Callers -> Functors \cup {Idle, Functor("shutdown")}]
    BY <1>2, FunctorTypes, BeginType DEF CallSend
  <2> QED BY <1>1, <1>2, <2>1 DEF CallSend, connVars, CallType, ConnType
<1>3. CASE CallShutdown(t)
  <2>1. call' \in [Callers -> Functors \cup {Idle, Functor("shutdown")}]
    BY <1>3, BeginType DEF CallShutdown
  <2> QED BY <1>1, <1>3, <2>1 DEF CallShutdown, connVars, CallType, ConnType
<1>4. CASE SetDisconnecting(t)
  BY <1>1, <1>4, FunctorTypes DEF SetDisconnecting, Handed, CallType, ConnType
<1>5. CASE CallForceClose(t)
  <2>1. call' \in [Callers -> Functors \cup {Idle, Functor("shutdown")}]
    BY <1>5, FunctorTypes, BeginType DEF CallForceClose
  <2> QED BY <1>1, <1>5, <2>1 DEF CallForceClose, CountCall, connVars, CallType,
     ConnType
<1>6. CASE CallRead(t)
  <2>1. call' \in [Callers -> Functors \cup {Idle, Functor("shutdown")}]
    BY <1>6, FunctorTypes, BeginType DEF CallRead
  <2> QED BY <1>1, <1>6, <2>1 DEF CallRead, CountCall, connVars, CallType, ConnType
<1>7. CASE Queue(t)
  <2>1. QueueType'
    BY <1>7, QueueAfter DEF Queue, QueueType
  <2> QED BY <1>7, <2>1 DEF Queue, connVars, baseVars, sockVars, histVars,
     ConnType, WhereType, BaseType, CallType, SockType, HistType
<1> QED BY <1>2, <1>3, <1>4, <1>5, <1>6, <1>7 DEF CallerStep

\* The base loop and the peer keep the types.
LEMMA OutsideType ==
  ASSUME TypeOK, RemoveConnectionInLoop \/ DestroyServer \/ PeerStep
  PROVE  TypeOK'
<1> USE TypeParts
<1>1. CASE RemoveConnectionInLoop
  <2>1. QueueType'
    BY <1>1, FunctorTypes, QueueAfter
    DEF RemoveConnectionInLoop, QueueConnectDestroyed, QueueType
  <2>2. BaseType'
    <3>1. removals' \in Nat
      BY <1>1 DEF RemoveConnectionInLoop, BaseType
    <3> QED BY <1>1, <3>1 DEF RemoveConnectionInLoop, BaseType
  <2> QED BY <1>1, <2>1, <2>2 DEF RemoveConnectionInLoop, connVars, callVars, sockVars,
     histVars, ConnType, WhereType, CallType, SockType, HistType
<1>2. CASE PeerStep
  <2>1. SockType'
    <3>1. CASE PeerSends
      BY <3>1 DEF PeerSends, SockType
    <3>2. CASE PeerReads
      BY <3>2 DEF PeerReads, SockType
    <3>3. CASE PeerCloses
      BY <3>3 DEF PeerCloses, SockType
    <3>4. CASE PeerResets
      BY <3>4 DEF PeerResets, SockType
    <3> QED BY <1>2, <3>1, <3>2, <3>3, <3>4 DEF PeerStep
  <2> QED BY <1>2, <2>1 DEF PeerStep, connVars, loopVars, baseVars, callVars,
     histVars, ConnType, WhereType, QueueType, BaseType, CallType, HistType
<1>3. CASE DestroyServer
  <2>1. QueueType'
    BY <1>3, FunctorTypes, QueueAfter DEF DestroyServer, QueueType
  <2>2. BaseType'
    BY <1>3 DEF DestroyServer, BaseType
  <2> QED BY <1>3, <2>1, <2>2 DEF DestroyServer, connVars, callVars, sockVars,
     histVars, ConnType, WhereType, CallType, SockType, HistType
<1> QED BY <1>1, <1>2, <1>3

\* Every step keeps the types.
LEMMA TypeStep == TypeOK /\ [Next]_vars => TypeOK'
<1> SUFFICES ASSUME TypeOK, [Next]_vars PROVE TypeOK'
  OBVIOUS
<1>1. CASE UNCHANGED vars
  BY <1>1, TypeParts DEF vars, connVars, loopVars, baseVars, callVars, sockVars,
     histVars, ConnType, WhereType, QueueType, BaseType, CallType, SockType,
     HistType
<1> QED BY <1>1, LoopType, UserType, CallerType, OutsideType DEF Next

\* Every variable keeps its type: for one, only functors are queued, and the send
\* buffer takes no more than it has room for (tcpConnection.cc:116-171).
THEOREM TypeCorrect == Spec => []TypeOK
BY TypeInit, TypeStep, PTL DEF Spec

-----------------------------------------------------------------------------
(* The line of functors: those of the batch, and those queued behind them. *)

Members(s) == {s[i] : i \in 1..Len(s)}
Line == batch \o pending

\* Appending to the second of two concatenated sequences appends to both.
LEMMA AppendConcat ==
  ASSUME NEW s \in Seq(Functors), NEW t \in Seq(Functors), NEW f \in Functors
  PROVE  s \o Append(t, f) = Append(s \o t, f)
BY SMTT(30), ConcatProperties, AppendProperties

\* The head and the tail of a concatenation are those of its first part.
LEMMA HeadTailConcat ==
  ASSUME NEW s \in Seq(Functors), NEW t \in Seq(Functors), s # <<>>
  PROVE  /\ s \o t # <<>>
         /\ Head(s \o t) = Head(s)
         /\ Tail(s \o t) = Tail(s) \o t
BY SMTT(30), ConcatProperties, HeadTailProperties

\* The line is a sequence of functors; the batch's first is the line's.
LEMMA LineType ==
  ASSUME QueueType
  PROVE  /\ Line \in Seq(Functors)
         /\ \A f \in Functors : batch \o Append(pending, f) = Append(Line, f)
         /\ batch # <<>> => /\ Line # <<>> /\ Head(Line) = Head(batch)
                            /\ Tail(batch) \o pending = Tail(Line)
                            /\ Tail(Line) \in Seq(Functors)
                            /\ \A f \in Functors :
                                 Tail(batch) \o Append(pending, f)
                                   = Append(Tail(Line), f)
         /\ batch = <<>> => Line = pending /\ pending \o <<>> = Line
<1>1. Line \in Seq(Functors)
  BY ConcatProperties DEF QueueType, Line
<1>2. \A f \in Functors : batch \o Append(pending, f) = Append(Line, f)
  BY AppendConcat DEF QueueType, Line
<1>3. ASSUME batch # <<>>
      PROVE  /\ Line # <<>> /\ Head(Line) = Head(batch)
             /\ Tail(batch) \o pending = Tail(Line)
             /\ Tail(Line) \in Seq(Functors)
             /\ \A f \in Functors :
                  Tail(batch) \o Append(pending, f) = Append(Tail(Line), f)
  <2>1. /\ Line # <<>> /\ Head(Line) = Head(batch)
        /\ Tail(batch) \o pending = Tail(Line)
    BY <1>3, HeadTailConcat DEF QueueType, Line
  <2>2. Tail(batch) \in Seq(Functors) /\ Tail(Line) \in Seq(Functors)
    BY <1>1, <1>3, <2>1, HeadTailProperties DEF QueueType
  <2> QED BY <2>1, <2>2, AppendConcat DEF QueueType
<1>4. batch = <<>> => Line = pending /\ pending \o <<>> = Line
  BY ConcatEmptySeq DEF QueueType, Line
<1> QED BY <1>1, <1>2, <1>3, <1>4

\* Appending adds one member.
LEMMA MembersAppend ==
  ASSUME NEW s \in Seq(Functors), NEW f \in Functors
  PROVE  Members(Append(s, f)) = Members(s) \cup {f}
<1>1. Len(Append(s, f)) = Len(s) + 1 /\ Append(s, f)[Len(s) + 1] = f
  BY AppendProperties
<1>2. \A i \in 1..Len(s) : Append(s, f)[i] = s[i]
  BY AppendProperties
<1>3. Len(s) \in Nat
  BY LenProperties
<1>4. 1..(Len(s) + 1) = 1..Len(s) \cup {Len(s) + 1}
  BY <1>3
<1> QED BY <1>1, <1>2, <1>3, <1>4 DEF Members

\* A concatenation has the members of both.
LEMMA MembersConcat ==
  ASSUME NEW s \in Seq(Functors), NEW t \in Seq(Functors)
  PROVE  Members(s \o t) = Members(s) \cup Members(t)
<1>1. Len(s) \in Nat /\ Len(t) \in Nat /\ Len(s \o t) = Len(s) + Len(t)
  BY LenProperties, ConcatProperties
<1>2. \A i \in 1..Len(s) : (s \o t)[i] = s[i]
  BY <1>1, ConcatProperties
<1>3. ASSUME NEW i \in 1..Len(t)
      PROVE  (s \o t)[Len(s) + i] = t[i]
  <2>1. Len(s) + i \in 1..(Len(s) + Len(t)) /\ Len(s) + i > Len(s)
    BY <1>1
  <2>2. (s \o t)[Len(s) + i] = t[(Len(s) + i) - Len(s)]
    BY <1>1, <2>1, ConcatProperties
  <2> QED BY <1>1, <2>2
<1>4. ASSUME NEW i \in 1..Len(s \o t)
      PROVE  (s \o t)[i] \in Members(s) \cup Members(t)
  <2>1. CASE i <= Len(s)
    BY <1>1, <1>2, <2>1 DEF Members
  <2>2. CASE i > Len(s)
    <3>1. i - Len(s) \in 1..Len(t) /\ Len(s) + (i - Len(s)) = i
      BY <1>1, <2>2
    <3> QED BY <1>3, <3>1 DEF Members
  <2> QED BY <1>1, <2>1, <2>2
<1>5. ASSUME NEW i \in 1..Len(s)
      PROVE  s[i] \in Members(s \o t)
  BY <1>1, <1>2 DEF Members
<1>6. ASSUME NEW i \in 1..Len(t)
      PROVE  t[i] \in Members(s \o t)
  <2>1. Len(s) + i \in 1..Len(s \o t)
    BY <1>1
  <2> QED BY <1>3, <2>1 DEF Members
<1> QED BY <1>4, <1>5, <1>6 DEF Members

\* The members are the head and the tail's.
LEMMA MembersTail ==
  ASSUME NEW s \in Seq(Functors), s # <<>>
  PROVE  /\ Members(s) = {Head(s)} \cup Members(Tail(s))
         /\ Head(s) \in Functors /\ Tail(s) \in Seq(Functors)
<1>1. /\ Head(s) = s[1] /\ Len(s) \in Nat \ {0} /\ Len(Tail(s)) = Len(s) - 1
      /\ \A i \in 1..(Len(s) - 1) : Tail(s)[i] = s[i + 1]
      /\ Head(s) \in Functors /\ Tail(s) \in Seq(Functors)
  BY HeadTailProperties, LenProperties, EmptySeq
<1>2. ASSUME NEW i \in 1..Len(s)
      PROVE  s[i] \in {Head(s)} \cup Members(Tail(s))
  <2>1. CASE i = 1
    BY <1>1, <2>1
  <2>2. CASE i # 1
    <3>1. i - 1 \in 1..(Len(s) - 1) /\ (i - 1) + 1 = i
      BY <1>1, <2>2
    <3>2. Tail(s)[i - 1] = s[i]
      BY <1>1, <3>1
    <3> QED BY <1>1, <3>1, <3>2 DEF Members
  <2> QED BY <2>1, <2>2
<1>3. ASSUME NEW i \in 1..(Len(s) - 1)
      PROVE  Tail(s)[i] \in Members(s)
  BY <1>1, <1>3 DEF Members
<1>4. Head(s) \in Members(s)
  BY <1>1 DEF Members
<1> QED BY <1>1, <1>2, <1>3, <1>4 DEF Members

-----------------------------------------------------------------------------
(* How the line moves, and with it the messages.                           *)

\* doPendingFunctors' vector is empty when it swaps.
BatchInv ==
  pc \in {"poll", "event"} \/ (pc = "user" /\ within = "event") => batch = <<>>

\* A functor that is not a message's.
Signal(f) ==
  /\ f \in Functors
  /\ f.op # "sendInLoop"

\* One such functor at most comes behind s.
Grows(s) == Line' = s \/ \E f \in Functors : Signal(f) /\ Line' = Append(s, f)

\* No message begins or ends to be in a thread's call.
CallsStay ==
  \A t \in Callers, m \in Messages : call'[t] = Send(m) <=> call[t] = Send(m)

Moves ==
  \/ UNCHANGED fresh /\ CallsStay /\ Grows(Line)
  \/ /\ UNCHANGED fresh /\ CallsStay
     /\ Line # <<>> /\ Head(Line).op # "sendInLoop" /\ Grows(Tail(Line))
  \/ \E m \in Messages :
        /\ UNCHANGED fresh /\ CallsStay
        /\ Line # <<>> /\ Head(Line) = Send(m) /\ Grows(Tail(Line))
        /\ RunSend
  \/ \E m \in Messages :
        m \in fresh /\ fresh' = fresh \ {m} /\ CallsStay /\ Grows(Line) /\ UserSend(m)
  \/ \E t \in Callers, m \in Messages : CallSend(t, m) /\ Line' = Line
  \/ \E t \in Callers, m \in Messages :
        /\ call[t] = Send(m) /\ call' = [call EXCEPT ![t] = Idle]
        /\ UNCHANGED fresh /\ Line' = Append(Line, Send(m))

\* The functors of handleClose and the rest.
LEMMA Signals ==
  /\ Signal(Functor("writeComplete")) /\ Signal(Functor("highWaterMark"))
  /\ Signal(Functor("forceCloseInLoop")) /\ Signal(Functor("connectDestroyed"))
BY FunctorTypes DEF Signal, Functor

\* Steps that queue nothing, or one signal, and leave the batch alone.
LEMMA GrowsOnly ==
  ASSUME TypeOK, UNCHANGED batch,
         pending' = pending \/ \E f \in Functors : Signal(f) /\ pending' = Append(pending, f)
  PROVE  Grows(Line)
<1>1. QueueType
  BY TypeParts
<1>2. CASE pending' = pending
  BY <1>2 DEF Grows, Line
<1>3. ASSUME NEW f \in Functors, Signal(f), pending' = Append(pending, f)
      PROVE  Grows(Line)
  <2>1. Line' = batch \o Append(pending, f)
    BY <1>3 DEF Line
  <2> QED BY <1>1, <1>3, <2>1, LineType DEF Grows
<1> QED BY <1>2, <1>3

\* The same behind the run of the first functor.
LEMMA GrowsBehind ==
  ASSUME TypeOK, batch # <<>>, batch' = Tail(batch),
         pending' = pending \/ \E f \in Functors : Signal(f) /\ pending' = Append(pending, f)
  PROVE  Line # <<>> /\ Head(Line) = Head(batch) /\ Grows(Tail(Line))
<1>1. QueueType
  BY TypeParts
<1>2. Line # <<>> /\ Head(Line) = Head(batch)
  BY <1>1, LineType
<1>3. CASE pending' = pending
  BY <1>1, <1>3, LineType DEF Grows, Line
<1>4. ASSUME NEW f \in Functors, Signal(f), pending' = Append(pending, f)
      PROVE  Grows(Tail(Line))
  <2>1. Line' = Tail(batch) \o Append(pending, f)
    BY <1>4 DEF Line
  <2> QED BY <1>1, <1>4, <2>1, LineType DEF Grows
<1> QED BY <1>2, <1>3, <1>4

\* What sendInLoop queues.
LEMMA SendQueues ==
  ASSUME NEW m \in Messages, SendInLoop(m)
  PROVE  \/ pending' = pending
         \/ \E f \in Functors : Signal(f) /\ pending' = Append(pending, f)
<1>1. \A f : Signal(f) => f \in Functors
  BY DEF Signal
<1>2. ASSUME NEW bs, Enqueue(bs)
      PROVE  \/ pending' = pending
             \/ \E f \in Functors : Signal(f) /\ pending' = Append(pending, f)
  BY <1>1, <1>2, Signals DEF Enqueue
<1> QED BY <1>1, <1>2, Signals, SendCases

\* sendInLoop, run by the loop ...
LEMMA RunSendMoves ==
  ASSUME TypeOK, RunSend
  PROVE  \E m \in Messages :
            /\ UNCHANGED fresh /\ CallsStay
            /\ Line # <<>> /\ Head(Line) = Send(m) /\ Grows(Tail(Line))
            /\ SendInLoop(m)
<1>1. Head(batch) \in Functors /\ Head(batch).op = "sendInLoop" /\ batch # <<>>
        /\ batch' = Tail(batch) /\ UNCHANGED callVars
  BY TypeParts, RunType DEF RunSend, Run
<1>2. PICK m \in Messages : Head(batch) = Send(m)
  BY <1>1, FunctorTypes
<1>3. SendInLoop(m)
  BY <1>2 DEF RunSend, Send
<1>4. UNCHANGED fresh /\ CallsStay
  BY <1>1 DEF callVars, CallsStay
<1> QED BY <1>1, <1>2, <1>3, <1>4, SendQueues, GrowsBehind

\* ... and at once, by the user on its thread.
LEMMA UserSendMoves ==
  ASSUME TypeOK, NEW m \in Messages, UserSend(m)
  PROVE  m \in fresh /\ fresh' = fresh \ {m} /\ CallsStay /\ Grows(Line)
<1>1. SendInLoop(m) /\ UNCHANGED <<batch, call>> /\ m \in fresh /\ fresh' = fresh \ {m}
  BY DEF UserSend
<1>2. CallsStay
  BY <1>1 DEF CallsStay
<1> QED BY <1>1, <1>2, SendQueues, GrowsOnly

\* The io loop's own steps.
LEMMA LoopMoves ==
  ASSUME TypeOK, BatchInv, LoopStep
  PROVE  Moves
<1>0. QueueType
  BY TypeParts
<1>1. UNCHANGED callVars => UNCHANGED fresh /\ CallsStay
  BY DEF callVars, CallsStay
<1>2. CASE Poll \/ EventHup \/ EventErr \/ ReadData \/ ReadError \/ ReadEnd
             \/ EndFunctors \/ UserReturns
  <2>1. UNCHANGED <<batch, pending, callVars>>
    BY <1>2 DEF Poll, EventHup, EventErr, ReadData, ReadError, ReadEnd,
       EndFunctors, UserReturns
  <2> QED BY <1>1, <2>1, GrowsOnly DEF Moves
<1>3. CASE EventOut
  <2>1. \/ pending' = pending
        \/ \E f \in Functors : Signal(f) /\ pending' = Append(pending, f)
    BY <1>3, Signals, FunctorTypes DEF EventOut, Drained
  <2>2. UNCHANGED <<batch, callVars>>
    BY <1>3 DEF EventOut
  <2> QED BY <1>1, <2>1, <2>2, GrowsOnly DEF Moves
<1>4. CASE SwapFunctors
  <2>1. batch = <<>> /\ batch' = pending /\ pending' = <<>> /\ UNCHANGED callVars
    BY <1>4 DEF SwapFunctors, BatchInv
  <2>2. Line' = Line
    BY <1>0, <2>1, LineType DEF Line
  <2> QED BY <1>1, <2>1, <2>2 DEF Moves, Grows
<1>5. ASSUME NEW op, op # "sendInLoop", Run(op), UNCHANGED pending
      PROVE  Moves
  <2>1. Head(batch).op # "sendInLoop" /\ batch # <<>> /\ batch' = Tail(batch)
          /\ UNCHANGED callVars
    BY <1>5 DEF Run
  <2> QED BY <1>1, <1>5, <2>1, GrowsBehind DEF Moves
<1>6. CASE ConnectEstablished \/ ConnectDestroyed \/ RunShutdown \/ RunForceClose
             \/ RunStartRead \/ RunStopRead \/ RunCallback
  BY <1>5, <1>6 DEF ConnectEstablished, ConnectDestroyed, RunShutdown,
     RunForceClose, RunStartRead, RunStopRead, RunCallback
<1>7. CASE RunSend
  BY <1>7, RunSendMoves DEF Moves
<1> QED BY <1>2, <1>3, <1>4, <1>6, <1>7 DEF LoopStep

\* A thread's call that is not a message's, begun, changed or ended.
LEMMA OtherCall ==
  ASSUME TypeOK, NEW t \in Callers, NEW f \in Functors \cup {Idle, Functor("shutdown")},
         call' = [call EXCEPT ![t] = f],
         \A m \in Messages : call[t] # Send(m) /\ f # Send(m)
  PROVE  CallsStay
BY DEF TypeOK, CallsStay

\* What is neither a message nor a functor's name.
LEMMA NoSend ==
  /\ \A m \in Messages : Idle # Send(m)
  /\ \A name \in {"shutdown", "shutdownInLoop", "forceCloseInLoop",
                  "startReadInLoop", "stopReadInLoop"}, m \in Messages :
        Functor(name) # Send(m)
<1>1. \A m \in Messages : Idle # Send(m)
  BY FunctorTypes, IdleIsNoFunctor
<1>2. \A name, m : Functor(name).msg = NoMessage /\ Send(m).msg = m
  BY DEF Functor, Send
<1>3. \A name, m : m \in Messages => Functor(name) # Send(m)
  BY <1>2
<1> QED BY <1>1, <1>3

\* The other threads, the user, the base loop and the peer.
LEMMA OutsideMoves ==
  ASSUME TypeOK,
         \/ UserStep \/ RemoveConnectionInLoop \/ DestroyServer \/ PeerStep
         \/ \E t \in Callers : CallerStep(t)
  PROVE  Moves
<1>0. QueueType
  BY TypeParts
<1>1. ASSUME UNCHANGED <<fresh, call>> PROVE UNCHANGED fresh /\ CallsStay
  BY <1>1 DEF CallsStay
<1>2. ASSUME NEW m \in Messages, UserSend(m)
      PROVE  Moves
  BY <1>2, UserSendMoves DEF Moves
<1>3. CASE UserShutdown \/ UserForceClose \/ UserRead
  <2>1. /\ UNCHANGED <<batch, fresh, call>>
        /\ pending' = pending \/ pending' = Append(pending, Functor("forceCloseInLoop"))
    BY <1>3 DEF UserShutdown, UserForceClose, UserRead, loopVars, callVars
  <2> QED BY <1>1, <2>1, Signals, FunctorTypes, GrowsOnly DEF Moves
<1>4. CASE RemoveConnectionInLoop \/ DestroyServer
  <2>1. /\ UNCHANGED <<batch, fresh, call>>
        /\ pending' = pending \/ pending' = Append(pending, Functor("connectDestroyed"))
    BY <1>4 DEF RemoveConnectionInLoop, DestroyServer, QueueConnectDestroyed, callVars
  <2> QED BY <1>1, <2>1, Signals, FunctorTypes, GrowsOnly DEF Moves
<1>5. CASE PeerStep
  <2>1. UNCHANGED <<batch, pending, fresh, call>>
    BY <1>5 DEF PeerStep, loopVars, callVars
  <2> QED BY <1>1, <2>1, GrowsOnly DEF Moves
<1>6. ASSUME NEW t \in Callers, NEW m \in Messages, CallSend(t, m)
      PROVE  Moves
  <2>1. Line' = Line
    BY <1>6 DEF CallSend, loopVars, Line
  <2> QED BY <1>6, <2>1 DEF Moves
<1>7. ASSUME NEW t \in Callers,
             CallShutdown(t) \/ SetDisconnecting(t) \/ CallForceClose(t) \/ CallRead(t)
      PROVE  Moves
  <2>1. UNCHANGED <<batch, pending, fresh>>
    BY <1>7 DEF CallShutdown, SetDisconnecting, CallForceClose, CallRead, loopVars
  <2>2. PICK f \in {Functor("shutdown"), Functor("shutdownInLoop"),
                    Functor("forceCloseInLoop"), Functor("startReadInLoop"),
                    Functor("stopReadInLoop")} :
               call' = [call EXCEPT ![t] = f]
    BY <1>7 DEF CallShutdown, SetDisconnecting, CallForceClose, CallRead, Begin
  <2>3. call[t] = Idle \/ call[t] = Functor("shutdown")
    BY <1>7 DEF CallShutdown, SetDisconnecting, CallForceClose, CallRead, Begin
  <2>4. CallsStay
    <3>1. f \in Functors \cup {Idle, Functor("shutdown")}
      BY FunctorTypes
    <3>2. \A m \in Messages : call[t] # Send(m) /\ f # Send(m)
      BY <2>3, NoSend
    <3> QED BY <2>2, <3>1, <3>2, OtherCall
  <2> QED BY <2>1, <2>4, GrowsOnly DEF Moves
<1>8. ASSUME NEW t \in Callers, Queue(t)
      PROVE  Moves
  <2>1. /\ UNCHANGED <<batch, fresh>> /\ call[t] \in Functors
        /\ pending' = Append(pending, call[t]) /\ call' = [call EXCEPT ![t] = Idle]
    BY <1>8 DEF Queue
  <2>2. CASE call[t].op = "sendInLoop"
    <3>1. PICK m \in Messages : call[t] = Send(m)
      BY <2>1, <2>2, FunctorTypes
    <3>2. Line' = Append(Line, Send(m))
      BY <1>0, <2>1, <3>1, LineType DEF Line
    <3> QED BY <2>1, <3>1, <3>2 DEF Moves
  <2>3. CASE call[t].op # "sendInLoop"
    <3>1. Signal(call[t])
      BY <2>1, <2>3 DEF Signal
    <3>2. \A m \in Messages : call[t] # Send(m) /\ Idle # Send(m)
      BY <2>3, NoSend DEF Send
    <3>3. CallsStay
      BY <2>1, <3>2, OtherCall
    <3> QED BY <2>1, <3>1, <3>3, GrowsOnly DEF Moves
  <2> QED BY <2>2, <2>3
<1> QED BY <1>2, <1>3, <1>4, <1>5, <1>6, <1>7, <1>8 DEF UserStep, CallerStep

\* The line moves so in every step.
LEMMA MovesStep ==
  ASSUME TypeOK, BatchInv, [Next]_vars
  PROVE  Moves
<1>1. CASE UNCHANGED vars
  BY <1>1 DEF vars, loopVars, callVars, Moves, CallsStay, Grows, Line
<1> QED BY <1>1, LoopMoves, OutsideMoves DEF Next

-----------------------------------------------------------------------------
(* The batch, and what a close leaves behind.                              *)

CloseInv ==
  /\ pc = "user" /\ after # "return" => closed
  /\ soError => peer = "reset"

\* The loop swaps its queue when it has run what it had.
LEMMA BatchStep ==
  ASSUME TypeOK, BatchInv, [Next]_vars
  PROVE  BatchInv'
<1>1. CASE UNCHANGED <<pc, within, batch>>
  BY <1>1 DEF BatchInv
<1>2. CASE \/ UNCHANGED vars \/ UserStep \/ RemoveConnectionInLoop \/ DestroyServer
           \/ PeerStep \/ \E t \in Callers : CallerStep(t)
  <2>1. UNCHANGED <<pc, within, batch>>
    BY <1>2 DEF vars, loopVars, UserStep, UserSend, UserShutdown, UserForceClose,
       UserRead, RemoveConnectionInLoop, DestroyServer, PeerStep, CallerStep, CallSend,
       CallShutdown, SetDisconnecting, CallForceClose, CallRead, Queue
  <2> QED BY <1>1, <2>1
<1>3. CASE Poll \/ EventErr \/ ReadError \/ EventOut
  BY <1>3 DEF Poll, EventErr, ReadError, EventOut, BatchInv, Handling
<1>4. CASE EventHup \/ ReadEnd \/ ReadData
  BY <1>4 DEF EventHup, ReadEnd, ReadData, EndCloses, HandleClose, CallUser,
     Handling, BatchInv
<1>5. CASE SwapFunctors \/ EndFunctors
  BY <1>5 DEF SwapFunctors, EndFunctors, BatchInv
<1>6. CASE UserReturns
  BY <1>6 DEF UserReturns, BatchInv, TypeOK
<1>7. CASE \/ ConnectEstablished \/ ConnectDestroyed \/ RunSend \/ RunShutdown
           \/ RunForceClose \/ RunStartRead \/ RunStopRead \/ RunCallback
  <2>1. pc = "functors"
    BY <1>7 DEF ConnectEstablished, ConnectDestroyed, RunSend, RunShutdown,
       RunForceClose, RunStartRead, RunStopRead, RunCallback, Run
  <2>2. pc' = pc \/ (pc' = "user" /\ within' = pc)
    BY <1>7 DEF ConnectEstablished, ConnectDestroyed, RunSend, RunShutdown,
       RunForceClose, RunStartRead, RunStopRead, RunCallback, HandleClose, CallUser
  <2> QED BY <2>1, <2>2 DEF BatchInv
<1> QED BY <1>2, <1>3, <1>4, <1>5, <1>6, <1>7 DEF Next, LoopStep

\* Only handleClose and connectDestroyed have something left to do behind user
\* code, and both close the connection first.
LEMMA CloseStep ==
  ASSUME TypeOK, CloseInv, [Next]_vars
  PROVE  (pc = "user" /\ after # "return" => closed)'
<1>1. CASE \/ UNCHANGED vars \/ UserStep \/ RemoveConnectionInLoop \/ DestroyServer
           \/ PeerStep \/ \E t \in Callers : CallerStep(t)
  <2>1. UNCHANGED <<pc, after, closed>>
    BY <1>1 DEF vars, loopVars, histVars, UserStep, UserSend, UserShutdown,
       UserForceClose, UserRead, RemoveConnectionInLoop, DestroyServer, PeerStep,
       CallerStep, CallSend, CallShutdown, SetDisconnecting, CallForceClose,
       CallRead, Queue
  <2> QED BY <2>1 DEF CloseInv
<1>2. CASE Poll \/ EventErr \/ ReadData \/ ReadError \/ EventOut \/ SwapFunctors
             \/ EndFunctors \/ ConnectEstablished \/ RunSend \/ RunShutdown
             \/ RunStartRead \/ RunStopRead \/ RunCallback \/ UserReturns
  <2>1. pc' # "user" \/ after' = "return"
    BY <1>2, TypeParts DEF WhereType, Poll, EventErr, ReadData, ReadError, EventOut,
       SwapFunctors, EndFunctors, ConnectEstablished, RunSend, RunShutdown,
       RunStartRead, RunStopRead, RunCallback, UserReturns, CallUser, Handling, Run
  <2> QED BY <2>1
<1>3. CASE EventHup \/ ReadEnd \/ ConnectDestroyed
  BY <1>3 DEF EventHup, ReadEnd, EndCloses, ConnectDestroyed, HandleClose,
     RemoveChannel
<1>4. CASE RunForceClose
  <2>1. closed' \/ UNCHANGED <<pc, after, closed>>
    BY <1>4 DEF RunForceClose, HandleClose, histVars
  <2> QED BY <2>1 DEF CloseInv
<1> QED BY <1>1, <1>2, <1>3, <1>4 DEF Next, LoopStep

\* A socket has an error only once the peer has reset it, for good.
LEMMA ErrorStep ==
  ASSUME TypeOK, CloseInv, [Next]_vars
  PROVE  (soError => peer = "reset")'
<1>1. CASE PeerStep
  BY <1>1 DEF PeerStep, PeerSends, PeerReads, PeerCloses, PeerResets, CloseInv
<1>2. ASSUME ~PeerStep
      PROVE  soError' \in {soError, FALSE} /\ UNCHANGED peer
  <2>1. ASSUME NEW m \in Messages, SendInLoop(m)
        PROVE  soError' \in {soError, FALSE} /\ UNCHANGED peer
    BY <2>1, SendCases DEF WriteFails, WriteTakes, sockVars
  <2>2. CASE RunSend \/ \E m \in Messages : UserSend(m)
    BY <2>1, <2>2, RunType, FunctorTypes, TypeParts DEF RunSend, UserSend
  <2>3. CASE EventErr \/ ReadError \/ EventOut
    BY <2>3 DEF EventErr, ReadError, EventOut, WriteFails, WriteTakes, sockVars
  <2>4. CASE \/ UNCHANGED vars \/ RemoveConnectionInLoop \/ DestroyServer
             \/ \E t \in Callers : CallerStep(t)
             \/ Poll \/ EventHup \/ ReadData \/ ReadEnd
             \/ SwapFunctors \/ EndFunctors \/ ConnectEstablished
             \/ ConnectDestroyed \/ RunShutdown \/ RunForceClose \/ RunStartRead
             \/ RunStopRead \/ RunCallback \/ UserReturns \/ UserShutdown
             \/ UserForceClose \/ UserRead
    BY <2>4 DEF vars, sockVars, RemoveConnectionInLoop, DestroyServer, CallerStep,
       CallSend, CallShutdown, SetDisconnecting, CallForceClose, CallRead, Queue,
       Poll, EventHup, ReadData, ReadEnd, SwapFunctors, EndFunctors,
       ConnectEstablished, ConnectDestroyed, RunShutdown, RunForceClose,
       RunStartRead, RunStopRead, RunCallback, UserReturns, UserShutdown,
       ShutdownInLoop, UserForceClose, UserRead
  <2> QED BY <1>2, <2>2, <2>3, <2>4 DEF Next, LoopStep, UserStep
<1> QED BY <1>1, <1>2 DEF CloseInv

\* The loop has run nothing at first, and the socket is new.
LEMMA CloseInit == Init => BatchInv /\ CloseInv
BY DEF Init, BatchInv, CloseInv

\* All of it together.
LEMMA Inductive == Spec => [](TypeOK /\ BatchInv /\ CloseInv)
<1>1. Init => TypeOK /\ BatchInv /\ CloseInv
  BY TypeInit, CloseInit
<1>2. TypeOK /\ BatchInv /\ CloseInv /\ [Next]_vars
        => (TypeOK /\ BatchInv /\ CloseInv)'
  BY TypeStep, BatchStep, CloseStep, ErrorStep DEF CloseInv
<1> QED BY <1>1, <1>2, PTL DEF Spec

-----------------------------------------------------------------------------
(* The channel is watched, and the write end is open, while bytes are      *)
(* buffered.                                                               *)

\* What is buffered is watched.
LEMMA EnqueueWatch ==
  ASSUME TypeOK, WatchedIffBuffered, UNCHANGED closed,
         NEW bs \in Seq(Messages \X (1..MessageLength)), bs # <<>>, Enqueue(bs)
  PROVE  out' # <<>> /\ WatchedIffBuffered'
<1>1. out' # <<>>
  BY ConcatEqualIffEmpty DEF Enqueue, TypeOK
<1>2. CASE IsWriting
  <2>1. UNCHANGED <<events, index>>
    BY <1>2 DEF Enqueue
  <2> QED BY <1>1, <1>2, <2>1 DEF WatchedIffBuffered, IsWriting
<1>3. CASE ~IsWriting
  <2>1. events' = events \cup {"write"} /\ index' = "kAdded"
    BY <1>3 DEF Enqueue, Update
  <2> QED BY <1>1, <2>1 DEF WatchedIffBuffered, IsWriting
<1> QED BY <1>1, <1>2, <1>3

\* sendInLoop, which writes past the buffer only if that is empty, and finds a
\* stream whose write end is shut down broken.
LEMMA SendWatch ==
  ASSUME TypeOK, CloseInv, WatchedIffBuffered, ShutdownAfterFlush, UNCHANGED closed,
         NEW m \in Messages, SendInLoop(m)
  PROVE  WatchedIffBuffered' /\ ShutdownAfterFlush'
<1>1. CASE UNCHANGED <<events, index, out, wrShut, peer>>
  BY <1>1 DEF WatchedIffBuffered, ShutdownAfterFlush, IsWriting
<1>2. CASE /\ Enqueue(Bytes(m)) /\ UNCHANGED <<wrShut, peer>>
           /\ IsWriting \/ out # <<>> \/ ~Broken \/ soError
  <2>1. Bytes(m) \in Seq(Messages \X (1..MessageLength)) /\ Bytes(m) # <<>>
    BY BytesType, EmptySeq
  <2>2. WatchedIffBuffered'
    BY <1>2, <2>1, EnqueueWatch
  <2>3. wrShut => closed \/ peer = "reset"
    BY <1>2 DEF WatchedIffBuffered, ShutdownAfterFlush, CloseInv, Broken
  <2> QED BY <1>2, <2>2, <2>3 DEF ShutdownAfterFlush
<1>3. ASSUME NEW k \in 1..(MessageLength - 1),
             WriteTakes(Bytes(m), k), UNCHANGED wrShut,
             Enqueue(SubSeq(Bytes(m), k + 1, MessageLength))
      PROVE  WatchedIffBuffered' /\ ShutdownAfterFlush'
  <2> DEFINE rest == SubSeq(Bytes(m), k + 1, MessageLength)
  <2>1. /\ rest \in Seq(Messages \X (1..MessageLength))
        /\ Len(rest) = MessageLength - k
    BY BytesType, RestType
  <2> HIDE DEF rest
  <2>2. rest # <<>>
    BY <2>1, EmptySeq
  <2> USE DEF rest
  <2>3. WatchedIffBuffered'
    BY <1>3, <2>1, <2>2, EnqueueWatch
  <2>4. ~wrShut'
    BY <1>3 DEF WriteTakes, Broken
  <2> QED BY <2>3, <2>4 DEF ShutdownAfterFlush
<1> QED BY <1>1, <1>2, <1>3, SendCases DEF WriteFails, WriteTakes, sockVars

\* handleWrite.
LEMMA EventOutWatch ==
  ASSUME TypeOK, WatchedIffBuffered, ShutdownAfterFlush, EventOut
  PROVE  WatchedIffBuffered' /\ ShutdownAfterFlush'
<1>0. UNCHANGED closed
  BY DEF EventOut, histVars
<1>1. CASE UNCHANGED <<events, index, out, wrShut, peer>>
  BY <1>0, <1>1 DEF WatchedIffBuffered, ShutdownAfterFlush, IsWriting
<1>2. ASSUME NEW k \in 1..Len(out), IsWriting, WriteTakes(out, k),
             out' = SubSeq(out, k + 1, Len(out)),
             IF k = Len(out) THEN Drained
                             ELSE UNCHANGED <<events, index, pending, wrShut>>
      PROVE  WatchedIffBuffered' /\ ShutdownAfterFlush'
  <2>0. out \in Seq(Messages \X (1..MessageLength)) /\ Len(out) \in Nat
    BY LenProperties DEF TypeOK
  <2>1. /\ out' \in Seq(Messages \X (1..MessageLength))
        /\ Len(out') = Len(out) - k
    BY <1>2, <2>0, RestType
  <2>2. CASE k = Len(out)
    <3>1. out' = <<>>
      BY <2>0, <2>1, <2>2, EmptySeq
    <3>2. events' = events \ {"write"}
      BY <1>2, <2>2 DEF Drained, Update
    <3> QED BY <3>1, <3>2 DEF WatchedIffBuffered, ShutdownAfterFlush, IsWriting
  <2>3. CASE k # Len(out)
    <3>1. out' # <<>>
      BY <2>0, <2>1, <2>3, EmptySeq
    <3>2. UNCHANGED <<events, index, wrShut>> /\ ~wrShut
      BY <1>2, <2>3 DEF WriteTakes, Broken
    <3> QED BY <1>0, <1>2, <3>1, <3>2
            DEF WatchedIffBuffered, ShutdownAfterFlush, IsWriting
  <2> QED BY <2>2, <2>3
<1> QED BY <1>1, <1>2 DEF EventOut, connVars, sockVars, WriteFails

\* startReadInLoop and stopReadInLoop, which update the channel but leave its
\* watching for room alone.
LEMMA ReadingWatch ==
  ASSUME TypeOK, WatchedIffBuffered, ShutdownAfterFlush,
         StartReadInLoop \/ StopReadInLoop, UNCHANGED <<out, closed, wrShut, peer>>
  PROVE  WatchedIffBuffered' /\ ShutdownAfterFlush'
<1>1. CASE UNCHANGED <<events, index>>
  BY <1>1 DEF WatchedIffBuffered, ShutdownAfterFlush, IsWriting
<1>2. CASE Update(events \cup {"read"}) \/ Update(events \ {"read"})
  <2>1. IsWriting' = IsWriting
    BY <1>2 DEF Update, IsWriting
  <2>2. IsWriting => index' = "kAdded"
    BY <1>2 DEF Update, IsWriting
  <2>3. WatchedIffBuffered'
    BY <2>1, <2>2 DEF WatchedIffBuffered
  <2> QED BY <2>3 DEF ShutdownAfterFlush
<1> QED BY <1>1, <1>2 DEF StartReadInLoop, StopReadInLoop

\* Each step that fills or empties the buffer switches write interest with it.
LEMMA WatchStep ==
  ASSUME TypeOK, CloseInv, WatchedIffBuffered, ShutdownAfterFlush, [Next]_vars
  PROVE  WatchedIffBuffered' /\ ShutdownAfterFlush'
<1> DEFINE Goal == WatchedIffBuffered' /\ ShutdownAfterFlush'
<1>1. ASSUME UNCHANGED <<events, index, out, wrShut>>, closed => closed',
             peer = "reset" => peer' = "reset"
      PROVE  Goal
  BY <1>1 DEF WatchedIffBuffered, ShutdownAfterFlush, IsWriting
<1>2. ASSUME events' = {} \/ (UNCHANGED <<events, out>>), UNCHANGED out, closed'
      PROVE  Goal
  BY <1>2 DEF WatchedIffBuffered, ShutdownAfterFlush, IsWriting
<1>3. CASE UNCHANGED vars \/ RemoveConnectionInLoop \/ DestroyServer \/ PeerStep
             \/ \E t \in Callers : CallerStep(t)
  <2>1. /\ UNCHANGED <<events, index, out, closed, wrShut>>
        /\ peer = "reset" => peer' = "reset"
    BY <1>3 DEF vars, connVars, sockVars, histVars, RemoveConnectionInLoop,
       DestroyServer, PeerStep, PeerSends, PeerReads, PeerCloses, PeerResets, CallerStep, CallSend,
       CallShutdown, SetDisconnecting, CallForceClose, CallRead, Queue
  <2> QED BY <1>1, <2>1
<1>4. CASE Poll \/ EventErr \/ ReadData \/ ReadError \/ SwapFunctors \/ EndFunctors
             \/ RunCallback \/ UserForceClose
  <2>1. UNCHANGED <<events, index, out, closed, wrShut, peer>>
    BY <1>4 DEF Poll, EventErr, ReadData, ReadError, SwapFunctors, EndFunctors,
       RunCallback, UserForceClose, connVars, sockVars, histVars
  <2> QED BY <1>1, <2>1
<1>5. CASE EventHup \/ ReadEnd \/ RunForceClose
  <2>1. \/ events' = {} /\ UNCHANGED out /\ closed'
        \/ UNCHANGED <<events, index, out, closed, wrShut, peer>>
    BY <1>5 DEF EventHup, ReadEnd, EndCloses, RunForceClose, HandleClose, Update,
       connVars, sockVars, histVars
  <2> QED BY <1>1, <1>2, <2>1
<1>6. CASE EventOut
  BY <1>6, EventOutWatch
<1>7. CASE ConnectEstablished
  <2>1. /\ Update(events \cup {"read"}) /\ UNCHANGED <<out, closed, wrShut, peer>>
    BY <1>7 DEF ConnectEstablished, sockVars
  <2>2. IsWriting' = IsWriting /\ index' = "kAdded"
    BY <2>1 DEF Update, IsWriting
  <2>3. WatchedIffBuffered'
    BY <2>1, <2>2 DEF WatchedIffBuffered
  <2> QED BY <2>1, <2>3 DEF ShutdownAfterFlush
<1>8. CASE ConnectDestroyed
  <2>1. UNCHANGED out /\ closed' /\ (events' = {} \/ UNCHANGED events)
    BY <1>8 DEF ConnectDestroyed, RemoveChannel, Update
  <2> QED BY <1>2, <2>1
<1>9. CASE RunSend \/ \E m \in Messages : UserSend(m)
  <2>1. PICK m \in Messages : SendInLoop(m)
    BY <1>9, RunType, FunctorTypes, TypeParts DEF RunSend, UserSend
  <2>2. UNCHANGED closed
    BY <1>9 DEF RunSend, UserSend, histVars
  <2> QED BY <2>1, <2>2, SendWatch
<1>10. CASE RunShutdown \/ UserShutdown
  <2>1. /\ UNCHANGED <<events, index, out, closed, peer>>
        /\ wrShut' = (wrShut \/ ~IsWriting)
    BY <1>10 DEF RunShutdown, UserShutdown, ShutdownInLoop, connVars, histVars
  <2> QED BY <2>1 DEF WatchedIffBuffered, ShutdownAfterFlush, IsWriting
<1>11. CASE RunStartRead \/ RunStopRead \/ UserRead
  BY <1>11, ReadingWatch DEF RunStartRead, RunStopRead, UserRead, sockVars, histVars
<1>12. CASE UserReturns
  <2>1. CASE after = "remove"
    BY <1>2, <1>12, <2>1 DEF UserReturns, RemoveChannel
  <2>2. CASE after # "remove"
    BY <1>1, <1>12, <2>2 DEF UserReturns, connVars, sockVars, histVars
  <2> QED BY <2>1, <2>2
<1> QED
  BY <1>3, <1>4, <1>5, <1>6, <1>7, <1>8, <1>9, <1>10, <1>11, <1>12
  DEF Next, LoopStep, UserStep

\* Nothing is buffered at first.
LEMMA WatchInit == Init => WatchedIffBuffered /\ ShutdownAfterFlush
BY DEF Init, WatchedIffBuffered, ShutdownAfterFlush, IsWriting

\* Both properties of the output buffer hold together.
LEMMA WatchInvariant == Spec => [](WatchedIffBuffered /\ ShutdownAfterFlush)
<1>1. TypeOK /\ CloseInv /\ WatchedIffBuffered /\ ShutdownAfterFlush /\ [Next]_vars
        => WatchedIffBuffered' /\ ShutdownAfterFlush'
  BY WatchStep
<1> QED BY <1>1, WatchInit, Inductive, PTL DEF Spec

\* As long as the connection is not being closed, by handleClose or by the
\* server's destructor, epoll watches for room in the send buffer exactly while
\* bytes are buffered (tcpConnection.cc:154-169, 311-320).
THEOREM Watched == Spec => []WatchedIffBuffered
BY WatchInvariant, PTL

\* The write end is not shut down before the output buffer is empty
\* (tcpConnection.cc:184-190, 326-329), unless the connection is being closed or
\* has been lost.
THEOREM Flushed == Spec => []ShutdownAfterFlush
BY WatchInvariant, PTL

-----------------------------------------------------------------------------
(* A message is in one place only until sendInLoop has got it.             *)

InCall(m) == \E t \in Callers : call[t] = Send(m)
InLine(m) == Send(m) \in Members(Line)

NoRepeat(s) ==
  \A i, j \in 1..Len(s) : s[i].op = "sendInLoop" /\ s[i] = s[j] => i = j

PlacesInv ==
  /\ NoRepeat(Line)
  /\ \A m \in Messages :
        /\ ~(m \in fresh /\ InCall(m))
        /\ ~(m \in fresh /\ InLine(m))
        /\ ~(InCall(m) /\ InLine(m))
  /\ \A t, u \in Callers, m \in Messages :
        call[t] = Send(m) /\ call[u] = Send(m) => t = u

\* What waits for sendInLoop, place by place.
LEMMA WaitingPlaces ==
  ASSUME TypeOK
  PROVE  Waiting = fresh \cup {m \in Messages : InCall(m) \/ InLine(m)}
<1>1. ASSUME NEW f \in Functors \cup {Functor("shutdown")}, NEW m \in Messages
      PROVE  f.msg = m <=> f = Send(m)
  BY FunctorTypes DEF Functor, Send, Functors
<1>2. ASSUME NEW m \in Messages
      PROVE  (\E t \in Callers : call[t] # Idle /\ call[t].msg = m) <=> InCall(m)
  <2>1. \A t \in Callers : call[t] # Idle => call[t] \in Functors \cup {Functor("shutdown")}
    BY DEF TypeOK
  <2> QED BY <1>1, <2>1, NoSend DEF InCall
<1>3. ASSUME NEW m \in Messages
      PROVE  (\/ \E i \in 1..Len(pending) : pending[i].msg = m
              \/ \E i \in 1..Len(batch) : batch[i].msg = m) <=> InLine(m)
  <2>1. pending \in Seq(Functors) /\ batch \in Seq(Functors)
    BY DEF TypeOK
  <2>2. (\E i \in 1..Len(pending) : pending[i].msg = m) <=> Send(m) \in Members(pending)
    BY <1>1, <2>1, ElementOfSeq DEF Members
  <2>3. (\E i \in 1..Len(batch) : batch[i].msg = m) <=> Send(m) \in Members(batch)
    BY <1>1, <2>1, ElementOfSeq DEF Members
  <2>4. Members(Line) = Members(batch) \cup Members(pending)
    BY <2>1, MembersConcat DEF Line
  <2> QED BY <2>2, <2>3, <2>4 DEF InLine
<1> QED BY <1>2, <1>3 DEF Waiting

\* The same in the next state.
LEMMA WaitingPlacesAfter ==
  ASSUME TypeOK'
  PROVE  Waiting' = fresh' \cup {m \in Messages : InCall(m)' \/ InLine(m)'}
<1>1. (TypeOK => Waiting = fresh \cup {m \in Messages : InCall(m) \/ InLine(m)})'
  BY WaitingPlaces, PTL
<1> QED BY <1>1

\* A line that grows keeps its messages, and none twice.
LEMMA GrowsPlaces ==
  ASSUME NEW s \in Seq(Functors), NoRepeat(s), Grows(s)
  PROVE  /\ NoRepeat(Line')
         /\ \A m \in Messages : Send(m) \in Members(Line') <=> Send(m) \in Members(s)
<1>1. CASE Line' = s
  BY <1>1
<1>2. ASSUME NEW f \in Functors, Signal(f), Line' = Append(s, f)
      PROVE  /\ NoRepeat(Line')
             /\ \A m \in Messages : Send(m) \in Members(Line') <=> Send(m) \in Members(s)
  <2>1. Members(Line') = Members(s) \cup {f} /\ \A m \in Messages : f # Send(m)
    BY <1>2, MembersAppend DEF Signal, Send
  <2>2. /\ Len(s) \in Nat /\ Len(Line') = Len(s) + 1
        /\ Line'[Len(s) + 1] = f
        /\ \A i \in 1..Len(s) : Line'[i] = s[i]
    BY <1>2, AppendProperties, LenProperties
  <2>3. f.op # "sendInLoop"
    BY <1>2 DEF Signal
  <2>4. NoRepeat(Line')
    <3> SUFFICES ASSUME NEW i \in 1..Len(Line'), NEW j \in 1..Len(Line'),
                        Line'[i].op = "sendInLoop", Line'[i] = Line'[j]
                 PROVE  i = j
      BY DEF NoRepeat
    <3>1. i # Len(s) + 1 /\ j # Len(s) + 1
      BY <2>2, <2>3
    <3>2. i \in 1..Len(s) /\ j \in 1..Len(s)
      BY <2>2, <3>1
    <3> QED BY <2>2, <3>2 DEF NoRepeat
  <2> QED BY <2>1, <2>4
<1> QED BY <1>1, <1>2 DEF Grows

\* Behind the first functor there is neither a repetition, nor the first one.
LEMMA TailPlaces ==
  ASSUME NEW s \in Seq(Functors), s # <<>>, NoRepeat(s)
  PROVE  /\ NoRepeat(Tail(s))
         /\ Head(s).op = "sendInLoop" => Head(s) \notin Members(Tail(s))
<1>1. /\ Head(s) = s[1] /\ Len(s) \in Nat \ {0} /\ Len(Tail(s)) = Len(s) - 1
      /\ \A i \in 1..(Len(s) - 1) : Tail(s)[i] = s[i + 1]
  BY HeadTailProperties, LenProperties, EmptySeq
<1>2. NoRepeat(Tail(s))
  <2> SUFFICES ASSUME NEW i \in 1..(Len(s) - 1), NEW j \in 1..(Len(s) - 1),
                      Tail(s)[i].op = "sendInLoop", Tail(s)[i] = Tail(s)[j]
               PROVE  i = j
    BY <1>1 DEF NoRepeat
  <2>1. i + 1 \in 1..Len(s) /\ j + 1 \in 1..Len(s)
    BY <1>1
  <2>2. i + 1 = j + 1
    BY <1>1, <2>1 DEF NoRepeat
  <2> QED BY <2>2
<1>3. ASSUME Head(s).op = "sendInLoop", Head(s) \in Members(Tail(s))
      PROVE  FALSE
  <2>1. PICK i \in 1..(Len(s) - 1) : Tail(s)[i] = Head(s)
    BY <1>1, <1>3 DEF Members
  <2>2. 1 \in 1..Len(s) /\ i + 1 \in 1..Len(s) /\ s[i + 1] = s[1]
    BY <1>1, <2>1
  <2>3. 1 = i + 1
    BY <1>1, <1>3, <2>2 DEF NoRepeat
  <2> QED BY <2>3
<1> QED BY <1>2, <1>3

\* Calls that stay hold the messages they held.
LEMMA CallsStayPlaces ==
  ASSUME PlacesInv, CallsStay
  PROVE  /\ \A m \in Messages : InCall(m)' <=> InCall(m)
         /\ \A t, u \in Callers, m \in Messages :
               call'[t] = Send(m) /\ call'[u] = Send(m) => t = u
BY DEF PlacesInv, CallsStay, InCall

\* sendInLoop gets the message that is first in the line, and it is nowhere else.
LEMMA RunPlaces ==
  ASSUME TypeOK, PlacesInv, UNCHANGED fresh, CallsStay, Line # <<>>,
         Grows(Tail(Line))
  PROVE  /\ PlacesInv'
         /\ \A m \in Messages : InCall(m)' <=> InCall(m)
         /\ \A m \in Messages :
               InLine(m)' <=> InLine(m) /\ Head(Line) # Send(m)
         /\ \A m \in Messages :
               Head(Line) = Send(m) => InLine(m) /\ ~InCall(m) /\ m \notin fresh
<1>1. Line \in Seq(Functors) /\ NoRepeat(Line)
  BY TypeParts, LineType DEF PlacesInv
<1>2. /\ Tail(Line) \in Seq(Functors) /\ NoRepeat(Tail(Line))
      /\ Members(Line) = {Head(Line)} \cup Members(Tail(Line))
      /\ Head(Line).op = "sendInLoop" => Head(Line) \notin Members(Tail(Line))
  BY <1>1, MembersTail, TailPlaces
<1>3. /\ NoRepeat(Line')
      /\ \A m \in Messages : InLine(m)' <=> Send(m) \in Members(Tail(Line))
  BY <1>2, GrowsPlaces DEF InLine
<1>4. ASSUME NEW m \in Messages
      PROVE  InLine(m)' <=> InLine(m) /\ Head(Line) # Send(m)
  <2>1. Send(m).op = "sendInLoop"
    BY DEF Send
  <2> QED BY <1>2, <1>3, <2>1 DEF InLine
<1>5. \A m \in Messages : InCall(m)' <=> InCall(m)
  BY CallsStayPlaces
<1>6. PlacesInv'
  BY <1>3, <1>4, <1>5, CallsStayPlaces DEF PlacesInv
<1>7. ASSUME NEW m \in Messages, Head(Line) = Send(m)
      PROVE  InLine(m) /\ ~InCall(m) /\ m \notin fresh
  BY <1>2, <1>7 DEF InLine, PlacesInv
<1> QED BY <1>4, <1>5, <1>6, <1>7

\* Where a message goes that a caller hands over: from `fresh' to its call ...
LEMMA CallSendPlaces ==
  ASSUME TypeOK, PlacesInv, NEW t \in Callers, NEW m \in Messages, CallSend(t, m),
         Line' = Line
  PROVE  /\ PlacesInv'
         /\ \A d \in Messages : d \in fresh' \/ InCall(d)' <=> d \in fresh \/ InCall(d)
         /\ \A d \in Messages : InLine(d)' <=> InLine(d)
<1>1. /\ m \in fresh /\ fresh' = fresh \ {m} /\ call[t] = Idle
      /\ call' = [call EXCEPT ![t] = Send(m)]
  BY DEF CallSend, Begin
<1>2. call \in [Callers -> Functors \cup {Idle, Functor("shutdown")}]
  BY DEF TypeOK
<1>3. ASSUME NEW d \in Messages, d # m
      PROVE  Send(d) # Send(m)
  BY <1>3 DEF Send
<1>4. \A d \in Messages, u \in Callers :
         call'[u] = Send(d) <=> (call[u] = Send(d) \/ (u = t /\ d = m))
  BY <1>1, <1>2, <1>3, NoSend
<1>5. \A d \in Messages : InCall(d)' <=> (InCall(d) \/ d = m)
  BY <1>4 DEF InCall
<1>6. \A d \in Messages : InLine(d)' <=> InLine(d)
  BY DEF InLine
<1>7. ~InCall(m) /\ ~InLine(m)
  BY <1>1 DEF PlacesInv
<1>8. \A u, v \in Callers, d \in Messages :
         call'[u] = Send(d) /\ call'[v] = Send(d) => u = v
  BY <1>4, <1>7 DEF PlacesInv, InCall
<1>9. PlacesInv'
  BY <1>1, <1>5, <1>6, <1>7, <1>8 DEF PlacesInv
<1> QED BY <1>1, <1>5, <1>6, <1>9

\* ... and from there to the line.
LEMMA QueuePlaces ==
  ASSUME TypeOK, PlacesInv, NEW t \in Callers, NEW m \in Messages,
         call[t] = Send(m), call' = [call EXCEPT ![t] = Idle],
         UNCHANGED fresh, Line' = Append(Line, Send(m))
  PROVE  /\ PlacesInv'
         /\ \A d \in Messages : InCall(d)' \/ InLine(d)' <=> InCall(d) \/ InLine(d)
<1>0. Line \in Seq(Functors) /\ NoRepeat(Line)
  BY TypeParts, LineType DEF PlacesInv
<1>1. call \in [Callers -> Functors \cup {Idle, Functor("shutdown")}]
  BY DEF TypeOK
<1>2. ASSUME NEW d \in Messages, d # m
      PROVE  Send(d) # Send(m)
  BY <1>2 DEF Send
<1>3. \A d \in Messages, u \in Callers :
         call'[u] = Send(d) <=> (call[u] = Send(d) /\ u # t)
  BY <1>1, NoSend
<1>4. \A d \in Messages : InCall(d)' <=> (InCall(d) /\ d # m)
  <2> TAKE d \in Messages
  <2>1. CASE d = m
    BY <1>3, <2>1 DEF InCall, PlacesInv
  <2>2. CASE d # m
    BY <1>2, <1>3, <2>2 DEF InCall
  <2> QED BY <2>1, <2>2
<1>5. Members(Line') = Members(Line) \cup {Send(m)}
  BY <1>0, MembersAppend, FunctorTypes
<1>6. \A d \in Messages : InLine(d)' <=> (InLine(d) \/ d = m)
  BY <1>2, <1>5 DEF InLine
<1>7. InCall(m) /\ ~InLine(m) /\ m \notin fresh
  BY DEF PlacesInv, InCall
<1>8. NoRepeat(Line')
  <2>1. /\ Len(Line) \in Nat /\ Len(Line') = Len(Line) + 1
        /\ Line'[Len(Line) + 1] = Send(m)
        /\ \A i \in 1..Len(Line) : Line'[i] = Line[i]
    BY <1>0, AppendProperties, LenProperties, FunctorTypes
  <2>2. \A i \in 1..Len(Line) : Line[i] # Send(m)
    BY <1>7 DEF InLine, Members
  <2> SUFFICES ASSUME NEW i \in 1..Len(Line'), NEW j \in 1..Len(Line'),
                      Line'[i].op = "sendInLoop", Line'[i] = Line'[j]
               PROVE  i = j
    BY DEF NoRepeat
  <2>3. CASE i \in 1..Len(Line) /\ j \in 1..Len(Line)
    BY <1>0, <2>1, <2>3 DEF NoRepeat
  <2>4. i \in 1..Len(Line) \/ i = Len(Line) + 1
    BY <2>1
  <2>5. j \in 1..Len(Line) \/ j = Len(Line) + 1
    BY <2>1
  <2> QED BY <2>1, <2>2, <2>3, <2>4, <2>5
<1>9. PlacesInv'
  BY <1>3, <1>4, <1>6, <1>7, <1>8 DEF PlacesInv
<1> QED BY <1>4, <1>6, <1>7, <1>9

\* A step that queues at most a signal leaves the messages where they are.
LEMMA GrowsOnlyPlaces ==
  ASSUME TypeOK, PlacesInv, fresh' \subseteq fresh, CallsStay, Grows(Line)
  PROVE  /\ PlacesInv'
         /\ \A m \in Messages : InCall(m)' <=> InCall(m)
         /\ \A m \in Messages : InLine(m)' <=> InLine(m)
<1>1. Line \in Seq(Functors) /\ NoRepeat(Line)
  BY TypeParts, LineType DEF PlacesInv
<1>2. NoRepeat(Line') /\ \A m \in Messages : InLine(m)' <=> InLine(m)
  BY <1>1, GrowsPlaces DEF InLine
<1>3. \A m \in Messages : InCall(m)' <=> InCall(m)
  BY CallsStayPlaces
<1>4. PlacesInv'
  BY <1>2, <1>3, CallsStayPlaces DEF PlacesInv
<1> QED BY <1>2, <1>3, <1>4

\* However the line moves, each message stays in one place.
LEMMA PlacesStep ==
  ASSUME TypeOK, BatchInv, PlacesInv, [Next]_vars
  PROVE  PlacesInv'
<1>1. Moves
  BY MovesStep
<1> QED
  BY <1>1, GrowsOnlyPlaces, RunPlaces, CallSendPlaces, QueuePlaces DEF Moves

\* No message has been handed over at first.
LEMMA PlacesInit == Init => PlacesInv
<1> SUFFICES ASSUME Init PROVE PlacesInv
  OBVIOUS
<1>1. Line = <<Functor("connectEstablished")>>
  BY TypeInit, TypeParts, LineType DEF Init
<1>2. \A m \in Messages : Functor("connectEstablished") # Send(m)
  BY DEF Functor, Send
<1>3. \A m \in Messages : ~InLine(m) /\ ~InCall(m)
  BY <1>1, <1>2, NoSend DEF Init, InLine, Members, InCall
<1>4. NoRepeat(Line)
  BY <1>1 DEF NoRepeat
<1> QED BY <1>3, <1>4 DEF PlacesInv, InCall

\* What waits for sendInLoop loses a message only to sendInLoop.
LEMMA WaitingKept ==
  ASSUME TypeOK, TypeOK', BatchInv, PlacesInv, [Next]_vars,
         ~RunSend, \A m \in Messages : ~UserSend(m)
  PROVE  Waiting' = Waiting
<1>1. Moves
  BY MovesStep
<1>2. CASE UNCHANGED fresh /\ CallsStay /\ Grows(Line)
  BY <1>2, GrowsOnlyPlaces, WaitingPlaces, WaitingPlacesAfter
<1>3. CASE /\ UNCHANGED fresh /\ CallsStay
           /\ Line # <<>> /\ Head(Line).op # "sendInLoop" /\ Grows(Tail(Line))
  <2>1. \A m \in Messages : Head(Line) # Send(m)
    BY <1>3 DEF Send
  <2> QED BY <1>3, <2>1, RunPlaces, WaitingPlaces, WaitingPlacesAfter
<1>4. ASSUME NEW t \in Callers, NEW m \in Messages, CallSend(t, m), Line' = Line
      PROVE  Waiting' = Waiting
  <2>1. fresh' \subseteq Messages /\ fresh \subseteq Messages
    BY DEF TypeOK
  <2> QED BY <1>4, <2>1, CallSendPlaces, WaitingPlaces, WaitingPlacesAfter
<1>5. ASSUME NEW t \in Callers, NEW m \in Messages,
             call[t] = Send(m), call' = [call EXCEPT ![t] = Idle],
             UNCHANGED fresh, Line' = Append(Line, Send(m))
      PROVE  Waiting' = Waiting
  BY <1>5, QueuePlaces, WaitingPlaces, WaitingPlacesAfter
<1> QED BY <1>1, <1>2, <1>3, <1>4, <1>5 DEF Moves

\* ... and that one message.
LEMMA WaitingSent ==
  ASSUME TypeOK, TypeOK', PlacesInv, RunSend \/ \E m \in Messages : UserSend(m)
  PROVE  \E m \in Messages :
            m \in Waiting /\ Waiting' = Waiting \ {m} /\ SendInLoop(m)
<1>1. CASE RunSend
  <2>1. PICK m \in Messages :
            /\ UNCHANGED fresh /\ CallsStay
            /\ Line # <<>> /\ Head(Line) = Send(m) /\ Grows(Tail(Line))
            /\ SendInLoop(m)
    BY <1>1, RunSendMoves
  <2>2. \A d \in Messages : Send(d) = Send(m) <=> d = m
    BY DEF Send
  <2>3. m \in Waiting /\ Waiting' = Waiting \ {m}
    BY <2>1, <2>2, RunPlaces, WaitingPlaces, WaitingPlacesAfter
  <2> QED BY <2>1, <2>3
<1>2. ASSUME NEW m \in Messages, UserSend(m)
      PROVE  m \in Waiting /\ Waiting' = Waiting \ {m} /\ SendInLoop(m)
  <2>1. m \in fresh /\ fresh' = fresh \ {m} /\ CallsStay /\ Grows(Line)
    BY <1>2, UserSendMoves
  <2>2. ~InCall(m) /\ ~InLine(m)
    BY <2>1 DEF PlacesInv
  <2>3. m \in Waiting /\ Waiting' = Waiting \ {m}
    BY <2>1, <2>2, GrowsOnlyPlaces, WaitingPlaces, WaitingPlacesAfter
  <2> QED BY <1>2, <2>3 DEF UserSend
<1> QED BY <1>1, <1>2

-----------------------------------------------------------------------------
(* The byte stream.                                                        *)

\* Nothing goes out: what is taken over comes behind what is buffered.
LEMMA TakeNone ==
  ASSUME NEW q \in Seq(Messages \X (1..MessageLength)),
         NEW w \in Seq(Messages \X (1..MessageLength))
  PROVE  /\ w \o SubSeq(q, 1, 0) = w
         /\ SubSeq(q, 1, Len(q)) = q
<1>1. SubSeq(q, 1, 0) = <<>>
  BY SubSeqEmpty
<1> QED BY <1>1, ConcatEmptySeq, SubSeqFull

\* A message that is dropped, buffered, or written as far as it goes.
LEMMA SendStreams ==
  ASSUME TypeOK, NEW m \in Messages, m \in Waiting, Waiting' = Waiting \ {m},
         SendInLoop(m)
  PROVE  Stream!Take(m) \/ Stream!Drop(m)
<1> DEFINE q == out \o Bytes(m)
           S == Messages \X (1..MessageLength)
<1>0. /\ out \in Seq(S) /\ sent \in Seq(S) /\ Bytes(m) \in Seq(S)
      /\ Len(Bytes(m)) = MessageLength
      /\ q \in Seq(S) /\ Len(q) \in Nat
  BY BytesType, ConcatProperties, LenProperties DEF TypeOK
<1>1. CASE /\ UNCHANGED <<events, index, out, pending>>
           /\ UNCHANGED sockVars \/ (WriteFails /\ ~IsWriting)
  <2>1. UNCHANGED <<out, sent, Broken>>
    BY <1>1 DEF WriteFails, sockVars, Broken
  <2> QED BY <2>1 DEF Stream!Drop
<1>2. CASE Enqueue(Bytes(m)) /\ UNCHANGED <<sent, wrShut, peer>>
  <2>1. out' = q /\ UNCHANGED <<sent, Broken>>
    BY <1>2 DEF Enqueue, Broken
  <2>2. sent' = sent \o SubSeq(q, 1, 0) /\ out' = SubSeq(q, 0 + 1, Len(q))
    BY <1>0, <2>1, TakeNone
  <2>3. 0 \in 0..Len(q)
    BY <1>0
  <2> HIDE DEF q, S
  <2>4. \E k \in 0..Len(q) : (Broken => k = 0) /\ Stream!Split(q, k)
    BY <2>2, <2>3 DEF Stream!Split
  <2> QED BY <2>1, <2>4 DEF Stream!Take, q
<1>3. ASSUME NEW k \in 1..MessageLength, out = <<>>, UNCHANGED wrShut,
             WriteTakes(Bytes(m), k),
             out' = SubSeq(Bytes(m), k + 1, MessageLength)
      PROVE  Stream!Take(m)
  <2>1. q = Bytes(m)
    BY <1>0, <1>3, ConcatEmptySeq
  <2>2. /\ sent' = sent \o SubSeq(q, 1, k) /\ out' = SubSeq(q, k + 1, Len(q))
        /\ k \in 0..Len(q) /\ ~Broken /\ UNCHANGED Broken
    <3>1. sent' = sent \o SubSeq(q, 1, k) /\ out' = SubSeq(q, k + 1, Len(q))
      BY <1>0, <1>3, <2>1 DEF WriteTakes
    <3>2. k \in 0..Len(q)
      BY <1>0, <2>1
    <3>3. ~Broken /\ UNCHANGED peer
      BY <1>3 DEF WriteTakes
    <3> QED BY <1>3, <3>1, <3>2, <3>3 DEF Broken
  <2> HIDE DEF q, S
  <2>3. \E j \in 0..Len(q) : (Broken => j = 0) /\ Stream!Split(q, j)
    BY <2>2 DEF Stream!Split
  <2> QED BY <2>2, <2>3 DEF Stream!Take, q
<1>4. CASE /\ out = <<>> /\ WriteTakes(Bytes(m), MessageLength)
           /\ UNCHANGED <<out, wrShut>>
  <2>1. SubSeq(Bytes(m), MessageLength + 1, MessageLength) = <<>>
    BY SubSeqEmpty
  <2> QED BY <1>3, <1>4, <2>1
<1>5. ASSUME NEW k \in 1..(MessageLength - 1), out = <<>>, UNCHANGED wrShut,
             WriteTakes(Bytes(m), k),
             Enqueue(SubSeq(Bytes(m), k + 1, MessageLength))
      PROVE  Stream!Take(m)
  <2>1. SubSeq(Bytes(m), k + 1, MessageLength) \in Seq(S)
    BY <1>0, RestType
  <2>2. out' = SubSeq(Bytes(m), k + 1, MessageLength)
    BY <1>5, <2>1, ConcatEmptySeq DEF Enqueue
  <2> QED BY <1>3, <1>5, <2>2
<1> QED BY <1>1, <1>2, <1>4, <1>5, SendCases

\* handleWrite sends some of what is buffered, and shuts the write end down
\* behind the last of it.
LEMMA EventOutStreams ==
  ASSUME TypeOK, EventOut, UNCHANGED Waiting
  PROVE  Stream!Transmit \/ Stream!TransmitAndBreak \/ UNCHANGED <<out, sent, Broken>>
<1>1. CASE UNCHANGED <<connVars, pending, sockVars>>
  BY <1>1 DEF connVars, sockVars, Broken
<1>2. CASE WriteFails /\ UNCHANGED <<connVars, pending>>
  BY <1>2 DEF connVars, WriteFails, Broken
<1>3. ASSUME NEW k \in 1..Len(out), WriteTakes(out, k),
             out' = SubSeq(out, k + 1, Len(out)),
             wrShut' \/ UNCHANGED wrShut
      PROVE  Stream!Transmit \/ Stream!TransmitAndBreak
  <2>1. ~Broken /\ Stream!Split(out, k)
    BY <1>3 DEF WriteTakes, Stream!Split
  <2>2. CASE wrShut'
    BY <2>1, <2>2 DEF Broken, Stream!TransmitAndBreak
  <2>3. CASE UNCHANGED wrShut
    <3>1. UNCHANGED Broken
      BY <1>3, <2>3 DEF WriteTakes, Broken
    <3> QED BY <2>1, <3>1 DEF Stream!Transmit
  <2> QED BY <1>3, <2>2, <2>3
<1>4. Drained => wrShut' \/ UNCHANGED wrShut
  BY DEF Drained, TypeOK
<1> QED BY <1>1, <1>2, <1>3, <1>4 DEF EventOut

\* Every step is a step of the byte stream, or none of its.
LEMMA StreamStep ==
  ASSUME TypeOK, TypeOK', BatchInv, PlacesInv, [Next]_vars
  PROVE  [Stream!Next]_(Stream!vars)
<1>1. CASE RunSend \/ \E m \in Messages : UserSend(m)
  BY <1>1, WaitingSent, SendStreams DEF Stream!Next
<1>2. ASSUME ~RunSend, \A m \in Messages : ~UserSend(m)
      PROVE  [Stream!Next]_(Stream!vars)
  <2>1. UNCHANGED Waiting
    BY <1>2, WaitingKept
  <2>2. CASE EventOut
    BY <2>1, <2>2, EventOutStreams DEF Stream!Next, Stream!vars
  <2>3. ASSUME UNCHANGED <<out, sent, wrShut, peer>>
        PROVE  UNCHANGED Stream!vars
    BY <2>1, <2>3 DEF Stream!vars, Broken
  <2>4. ASSUME UNCHANGED <<out, sent>>, Broken' \/ UNCHANGED Broken
        PROVE  [Stream!Next]_(Stream!vars)
    <3>1. CASE Broken'
      BY <2>1, <2>4, <3>1 DEF Stream!Next, Stream!Break, Broken
    <3>2. CASE UNCHANGED Broken
      BY <2>1, <2>4, <3>2 DEF Stream!vars
    <3> QED BY <2>4, <3>1, <3>2
  <2>5. CASE RunShutdown \/ UserShutdown
    <3>1. UNCHANGED <<out, sent, peer>> /\ wrShut' = (wrShut \/ ~IsWriting)
      BY <2>5 DEF RunShutdown, UserShutdown, ShutdownInLoop, connVars
    <3>2. Broken' \/ UNCHANGED Broken
      BY <3>1 DEF Broken, TypeOK
    <3> QED BY <2>4, <3>1, <3>2
  <2>6. CASE PeerStep
    <3>1. UNCHANGED <<out, sent, wrShut>>
      BY <2>6 DEF PeerStep, PeerSends, PeerReads, PeerCloses, PeerResets, connVars
    <3>2. peer' = "reset" \/ (peer # "reset" /\ peer' # "reset") \/ UNCHANGED peer
      BY <2>6 DEF PeerStep, PeerSends, PeerReads, PeerCloses, PeerResets
    <3>3. Broken' \/ UNCHANGED Broken
      BY <3>1, <3>2 DEF Broken
    <3> QED BY <2>4, <3>1, <3>3
  <2>7. CASE \/ UNCHANGED vars \/ RemoveConnectionInLoop \/ DestroyServer
             \/ \E t \in Callers : CallerStep(t)
             \/ Poll \/ EventHup \/ EventErr \/ ReadData \/ ReadError \/ ReadEnd
             \/ SwapFunctors \/ EndFunctors \/ ConnectEstablished
             \/ ConnectDestroyed \/ RunForceClose \/ RunStartRead \/ RunStopRead
             \/ RunCallback \/ UserReturns \/ UserForceClose \/ UserRead
    <3>1. UNCHANGED <<out, sent, wrShut, peer>>
      BY <2>7 DEF vars, connVars, sockVars, RemoveConnectionInLoop, DestroyServer,
         CallerStep, CallSend, CallShutdown, SetDisconnecting, CallForceClose, CallRead, Queue,
         Poll, EventHup, EventErr, ReadData, ReadError, ReadEnd, EndCloses,
         HandleClose, SwapFunctors, EndFunctors, ConnectEstablished,
         ConnectDestroyed, RemoveChannel, RunForceClose, RunStartRead, RunStopRead,
         RunCallback, UserReturns, UserForceClose, UserRead
    <3> QED BY <2>3, <3>1
  <2> QED BY <1>2, <2>2, <2>5, <2>6, <2>7 DEF Next, LoopStep, UserStep
<1> QED BY <1>1, <1>2

\* A connection sends the bytes of the messages that sendInLoop gets once, whole
\* and in order, through whichever write() and whatever buffering, until the
\* stream breaks (tcpConnection.cc:116-171, 309-337).
THEOREM Refinement == Spec => ImplementsByteStream
<1>1. Init => Stream!Init
  <2> SUFFICES ASSUME Init PROVE Stream!Init
    OBVIOUS
  <2>1. Waiting = Messages
    BY TypeInit, WaitingPlaces DEF Init
  <2> QED BY <2>1 DEF Init, Stream!Init, Broken
<1>2. Init => PlacesInv
  BY PlacesInit
<1>3. TypeOK /\ BatchInv /\ PlacesInv /\ [Next]_vars => PlacesInv'
  BY PlacesStep
<1>4. TypeOK /\ TypeOK' /\ BatchInv /\ PlacesInv /\ [Next]_vars
        => [Stream!Next]_(Stream!vars)
  BY StreamStep
<1> QED
  BY <1>1, <1>2, <1>3, <1>4, Inductive, PTL DEF Spec, ImplementsByteStream, Stream!Spec

-----------------------------------------------------------------------------
(* What ByteStream promises, of the bytes that write() has taken.          *)

Promises == INSTANCE ByteStreamProofs WITH
  left <- Waiting, queue <- out, wire <- sent, broken <- Broken,
  Byte <- Messages \X (1..MessageLength)

\* The bytes of messages can be told apart.
LEMMA BytesDiffer == Promises!AllDiffer
<1>1. \A m \in Messages : /\ Bytes(m) \in Seq(Messages \X (1..MessageLength))
                           /\ Len(Bytes(m)) = MessageLength
                           /\ \A i \in 1..MessageLength : Bytes(m)[i] = <<m, i>>
  BY BytesType DEF Bytes
<1> QED BY <1>1 DEF Promises!AllDiffer

\* The refinement once more, with the promises behind it.
LEMMA KeepsPromises == Spec => Promises!Spec
BY Refinement, PTL
DEF ImplementsByteStream, Stream!Spec, Stream!Init, Stream!Next, Stream!vars,
    Stream!Take, Stream!Drop, Stream!Transmit, Stream!Break,
    Stream!TransmitAndBreak, Stream!Split,
    Promises!Spec, Promises!Init, Promises!Next, Promises!vars,
    Promises!Take, Promises!Drop, Promises!Transmit, Promises!Break,
    Promises!TransmitAndBreak, Promises!Split

\* No byte of a message is written twice, whether sendInLoop wrote it directly,
\* handleWrite out of the buffer, or both a part (tcpConnection.cc:133-169).
THEOREM SentOnce == Spec => []Promises!SentOnce
BY BytesDiffer, KeepsPromises, Promises!Once, PTL

\* Messages are written in one piece each, from the first byte, whatever other
\* threads send meanwhile (tcpConnection.cc:116-171, 309-337).
THEOREM SentWhole == Spec => []Promises!SentWhole
BY BytesDiffer, KeepsPromises, Promises!InOnePiece, PTL

\* Nothing is written behind a shutdown of the write end or a reset
\* (tcpConnection.cc:184-190, 326-329).
THEOREM SilentBehindShutdown == Spec => Promises!SilentBehindBreak
BY BytesDiffer, KeepsPromises, Promises!Silent, PTL
=============================================================================

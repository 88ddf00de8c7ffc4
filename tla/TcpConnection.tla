---------------------------- MODULE TcpConnection ----------------------------
(***************************************************************************)
(* One accepted TcpConnection (src/src/tcpConnection.cc): its io loop's    *)
(* thread, the threads that hold a TcpConnectionPtr and call it, the       *)
(* TcpServer that owns it (tcpServer.cc:87-106), its socket and its peer.  *)
(*                                                                         *)
(* All that happens to the connection happens on the io loop's thread,     *)
(* except that other threads read and write the atomic state_ and queue    *)
(* functors.  The io loop is seen from this connection: epoll_wait, then   *)
(* handleEvent of its channel, then the functors, in the order in which    *)
(* they were queued; a queued functor ends epoll_wait.  That this is what  *)
(* an EventLoop does is the subject of EventLoop.tla, and that index_ and  *)
(* events_ alone tell what epoll watches, that of Epoller.tla.  The io     *)
(* loop goes on running here: what becomes of a connection whose loop      *)
(* stops is the subject of TcpServer.tla.                                  *)
(*                                                                         *)
(* A byte of a message is a pair: the message and the byte's place in it.  *)
(***************************************************************************)
EXTENDS Integers, Sequences, FiniteSets

CONSTANTS
  Callers,          \* threads, other than the loop's, that use the connection
  Messages,         \* each is sent by at most one call of send() (a bound)
  MessageLength,    \* bytes in a message
  HighWaterMark,    \* highWaterMark_
  SendBuffer,       \* bytes the kernel's send buffer has room for
  MaxCalls,         \* calls of forceClose, startRead and stopRead (a bound)
  NoMessage, Idle   \* values that are not a message or a functor

ASSUME TcpConnectionAssumption ==
  /\ NoMessage \notin Messages
  /\ MessageLength \in Nat \ {0}
  /\ HighWaterMark \in Nat \ {0}
  /\ SendBuffer \in Nat \ {0}
  /\ MaxCalls \in Nat

VARIABLES
  \* TcpConnection, and its Channel's events_ and index_
  state, reading, events, index, out,
  \* the io loop: where its thread is; in user code, what it interrupts and
  \* what is left to do when it returns; revents_ still to be handled;
  \* pendingFunctors_; doPendingFunctors' local vector
  pc, within, after, revents, pending, batch,
  \* the base loop: is the connection in connections_; queued
  \* removeConnectionInLoop functors; it has stopped, and ~TcpServer has run
  inMap, removals, serverGone,
  \* each caller's call in progress; the messages and the calls not used yet
  call, fresh, calls,
  \* the socket: bytes written to it in order, those of them that are still in
  \* the send buffer, unread input, SO_ERROR, shutdown(SHUT_WR) done; the peer
  sent, unsent, input, soError, wrShut, peer,
  \* history: the connection callback has given the user the TcpConnectionPtr;
  \* handleClose has been called or connectDestroyed has begun; connectDestroyed
  \* has run, behind the last call of handleClose; and the messages whose send()
  \* had returned when another thread set kDisconnecting
  known, closed, removed, owed

connVars == <<state, reading, events, index, out>>
loopVars == <<pc, within, after, revents, pending, batch>>
baseVars == <<inMap, removals, serverGone>>
callVars == <<call, fresh, calls, owed>>
sockVars == <<sent, unsent, input, soError, wrShut, peer>>
histVars == <<known, closed, removed>>
vars == <<connVars, loopVars, baseVars, callVars, sockVars, histVars>>

Bytes(m) == [i \in 1..MessageLength |-> <<m, i>>]

\* The functors.  sendInLoop is bound to the caller's memory, which is taken to
\* hold the message until the functor has run.
Send(m) == [op |-> "sendInLoop", msg |-> m]
Functor(name) == [op |-> name, msg |-> NoMessage]
Functors ==
  {Send(m) : m \in Messages}
  \cup {Functor(name) : name \in {"connectEstablished", "connectDestroyed",
          "shutdownInLoop", "forceCloseInLoop", "startReadInLoop",
          "stopReadInLoop", "writeComplete", "highWaterMark"}}

ASSUME IdleIsNoFunctor == Idle \notin Functors \cup {Functor("shutdown")}

TypeOK ==
  /\ state \in {"kDisconnected", "kConnected", "kDisconnecting"}
  /\ reading \in BOOLEAN
  /\ events \subseteq {"read", "write"}
  /\ index \in {"kNew", "kAdded", "kDeleted"}
  /\ out \in Seq(Messages \X (1..MessageLength))
  /\ pc \in {"poll", "event", "functors", "user"}
  /\ within \in {"event", "functors"}
  /\ after \in {"return", "closeCallback", "remove"}
  /\ revents \subseteq {"hup", "err", "in", "out"}
  /\ pending \in Seq(Functors)
  /\ batch \in Seq(Functors)
  /\ inMap \in BOOLEAN
  /\ removals \in Nat
  /\ serverGone \in BOOLEAN
  /\ call \in [Callers -> Functors \cup {Idle, Functor("shutdown")}]
  /\ fresh \subseteq Messages
  /\ calls \in 0..MaxCalls
  /\ sent \in Seq(Messages \X (1..MessageLength))
  /\ unsent \in 0..SendBuffer
  /\ input \in BOOLEAN /\ soError \in BOOLEAN /\ wrShut \in BOOLEAN
  /\ peer \in {"open", "fin", "reset"}
  /\ known \in BOOLEAN
  /\ closed \in BOOLEAN
  /\ removed \in BOOLEAN
  /\ owed \subseteq Messages

\* TcpServer::newConnection has built the connection, put it in connections_
\* and queued connectEstablished.
Init ==
  /\ state = "kDisconnected" /\ reading = FALSE
  /\ events = {} /\ index = "kNew" /\ out = <<>>
  /\ pc = "poll" /\ within = "event" /\ after = "return" /\ revents = {}
  /\ pending = <<Functor("connectEstablished")>> /\ batch = <<>>
  /\ inMap = TRUE /\ removals = 0 /\ serverGone = FALSE
  /\ call = [t \in Callers |-> Idle]
  /\ fresh = Messages /\ calls = 0 /\ owed = {}
  /\ sent = <<>> /\ unsent = 0 /\ input = FALSE /\ soError = FALSE
  /\ wrShut = FALSE /\ peer = "open"
  /\ known = FALSE /\ closed = FALSE /\ removed = FALSE

-----------------------------------------------------------------------------
(* The channel and the socket.                                             *)

IsWriting == "write" \in events

\* Channel::update and Eepoller::updateChannel.
Update(evs) ==
  /\ events' = evs
  /\ index' = IF index = "kAdded" /\ evs = {} THEN "kDeleted" ELSE "kAdded"

Broken == wrShut \/ peer = "reset"
Room == SendBuffer - unsent

\* What epoll_wait reports of the socket: the conditions asked for that hold,
\* and EPOLLHUP and EPOLLERR in any case.
Conditions ==
  {c \in {"hup", "err", "in", "out"} :
     \/ c = "hup" /\ (peer = "reset" \/ (wrShut /\ peer = "fin"))
     \/ c = "err" /\ soError
     \/ c = "in" /\ "read" \in events /\ (input \/ peer # "open")
     \/ c = "out" /\ IsWriting /\ (Room > 0 \/ Broken)}
Reported == IF index = "kAdded" THEN Conditions ELSE {}

\* write() of bs takes the first k bytes.
WriteTakes(bs, k) ==
  /\ k \in 1..Len(bs)
  /\ k <= Room
  /\ ~Broken
  /\ sent' = sent \o SubSeq(bs, 1, k)
  /\ unsent' = unsent + k
  /\ UNCHANGED <<input, soError, peer>>

\* write() fails with ECONNRESET, once, or with EPIPE; SIGPIPE is ignored, which
\* the library leaves to the host program.
WriteFails ==
  /\ Broken
  /\ soError' = FALSE
  /\ UNCHANGED <<sent, unsent, input, wrShut, peer>>

\* A callback, user code, is called; `next' is what the library does behind it.
CallUser(next) ==
  /\ pc' = "user"
  /\ within' = pc
  /\ after' = next

-----------------------------------------------------------------------------
(* The member functions that run on the io loop's thread.                  *)

\* The end of sendInLoop: bs is appended to outputBuffer_.
Enqueue(bs) ==
  /\ pending' = IF /\ Len(out) + Len(bs) >= HighWaterMark
                   /\ Len(out) < HighWaterMark
                THEN Append(pending, Functor("highWaterMark")) ELSE pending
  /\ out' = out \o bs
  /\ IF IsWriting THEN UNCHANGED <<events, index>>
                  ELSE Update(events \cup {"write"})

\* The part of sendInLoop that tries to write the message itself.  Behind any
\* error but EPIPE and ECONNRESET the whole message is buffered: the send buffer
\* is full (EAGAIN), or the connection was lost in another way (ETIMEDOUT), an
\* error that the socket reports once.
WriteDirectly(m) ==
  \/ /\ WriteFails
     /\ UNCHANGED <<events, index, out, pending>>
  \/ /\ soError \/ (~Broken /\ Room = 0)
     /\ soError' = FALSE
     /\ Enqueue(Bytes(m))
     /\ UNCHANGED <<sent, unsent, input, wrShut, peer>>
  \/ /\ WriteTakes(Bytes(m), MessageLength)
     /\ pending' = Append(pending, Functor("writeComplete"))
     /\ UNCHANGED <<events, index, out, wrShut>>
  \/ \E k \in 1..(MessageLength - 1) :
        /\ WriteTakes(Bytes(m), k)
        /\ Enqueue(SubSeq(Bytes(m), k + 1, MessageLength))
        /\ UNCHANGED wrShut

\* Seeded fault: the message is written past what is buffered already.
SendPastBuffer(m) ==
  IF state = "kDisconnected"
  THEN UNCHANGED <<events, index, out, pending, sockVars>>
  ELSE WriteDirectly(m)

SendInLoop(m) ==
  \/ /\ state = "kDisconnected"
     /\ UNCHANGED <<events, index, out, pending, sockVars>>
  \/ /\ state # "kDisconnected"
     /\ IsWriting \/ out # <<>>
     /\ Enqueue(Bytes(m))
     /\ UNCHANGED sockVars
  \/ /\ state # "kDisconnected"
     /\ ~IsWriting /\ out = <<>>
     /\ WriteDirectly(m)

\* Seeded fault: the write end is shut down whatever is still buffered.
ShutdownAnyway ==
  /\ wrShut' = TRUE
  /\ UNCHANGED <<sent, unsent, input, soError, peer>>

ShutdownInLoop ==
  /\ wrShut' = (wrShut \/ ~IsWriting)
  /\ UNCHANGED <<sent, unsent, input, soError, peer>>

StartReadInLoop ==
  IF ~reading \/ "read" \notin events
  THEN Update(events \cup {"read"}) /\ reading' = TRUE
  ELSE UNCHANGED <<events, index, reading>>

StopReadInLoop ==
  IF reading \/ "read" \in events
  THEN Update(events \ {"read"}) /\ reading' = FALSE
  ELSE UNCHANGED <<events, index, reading>>

\* handleClose, as far as the connection callback; closeCallback_ follows when
\* that returns.  state_ is not changed.
HandleClose ==
  /\ Update({})
  /\ CallUser("closeCallback")
  /\ closed' = TRUE
  /\ removed' = FALSE
  /\ UNCHANGED <<state, reading, out, known>>

\* The end of connectDestroyed.
RemoveChannel ==
  /\ index' = "kNew"
  /\ closed' = TRUE
  /\ removed' = TRUE
  /\ UNCHANGED <<state, reading, events, out, known>>

-----------------------------------------------------------------------------
(* The io loop's thread.                                                   *)

\* epoll_wait returns, because of the socket, a queued functor or its timeout.
\* handleEvent calls closeCallback_ on EPOLLHUP only if there is no EPOLLIN.
Poll ==
  /\ pc = "poll"
  /\ revents' = Reported \ IF "in" \in Reported THEN {"hup"} ELSE {}
  /\ pc' = "event"
  /\ UNCHANGED <<connVars, within, after, pending, batch, baseVars, callVars,
                 sockVars, histVars>>

\* Channel::handleEventWithGuard goes through revents_ in this order.
Handling(c) ==
  /\ pc = "event"
  /\ c \in revents
  /\ \A d \in revents : d = c \/ <<c, d>> \in
        {<<"hup", "err">>, <<"hup", "in">>, <<"hup", "out">>,
         <<"err", "in">>, <<"err", "out">>, <<"in", "out">>}
  /\ revents' = revents \ {c}

EventHup ==
  /\ Handling("hup")
  /\ HandleClose
  /\ UNCHANGED <<pending, batch, baseVars, callVars, sockVars>>

\* handleError: getsockopt(SO_ERROR) also clears the error.
EventErr ==
  /\ Handling("err")
  /\ soError' = FALSE
  /\ UNCHANGED <<connVars, pc, within, after, pending, batch, baseVars, callVars,
                 sent, unsent, input, wrShut, peer, histVars>>

\* handleRead when readv() returns data: the message callback runs.
ReadData ==
  /\ Handling("in")
  /\ input
  /\ input' \in BOOLEAN
  /\ CallUser("return")
  /\ UNCHANGED <<connVars, pending, batch, baseVars, callVars,
                 sent, unsent, soError, wrShut, peer, histVars>>

\* ... when it fails: the error is reported once.
ReadError ==
  /\ Handling("in")
  /\ ~input /\ soError
  /\ soError' = FALSE
  /\ UNCHANGED <<connVars, pc, within, after, pending, batch, baseVars, callVars,
                 sent, unsent, input, wrShut, peer, histVars>>

\* Seeded fault: the end of the input is taken for an error.
EndReported == UNCHANGED <<connVars, pc, within, after, histVars>>

EndCloses == HandleClose

\* ... and when it returns 0: the peer has closed or reset the connection.
ReadEnd ==
  /\ Handling("in")
  /\ ~input /\ ~soError
  /\ EndCloses
  /\ UNCHANGED <<pending, batch, baseVars, callVars, sockVars>>

\* Seeded fault: shutdownInLoop is called before disableWriting, and finds the
\* channel still writing.
DrainedTooLate ==
  /\ Update(events \ {"write"})
  /\ pending' = Append(pending, Functor("writeComplete"))
  /\ UNCHANGED wrShut

\* Seeded fault: disableWriting is forgotten.
DrainedStillWriting ==
  /\ pending' = Append(pending, Functor("writeComplete"))
  /\ wrShut' = (wrShut \/ state = "kDisconnecting")
  /\ UNCHANGED <<events, index>>

\* handleWrite has written all that was buffered.
Drained ==
  /\ Update(events \ {"write"})
  /\ pending' = Append(pending, Functor("writeComplete"))
  /\ wrShut' = (wrShut \/ state = "kDisconnecting")

\* handleWrite.
EventOut ==
  /\ Handling("out")
  /\ \/ /\ ~IsWriting \/ (~Broken /\ Room = 0)
        /\ UNCHANGED <<connVars, pending, sockVars>>
     \/ /\ IsWriting
        /\ WriteFails
        /\ UNCHANGED <<connVars, pending>>
     \/ /\ IsWriting
        /\ \E k \in 1..Len(out) :
             /\ WriteTakes(out, k)
             /\ out' = SubSeq(out, k + 1, Len(out))
             /\ IF k = Len(out) THEN Drained
                                ELSE UNCHANGED <<events, index, pending, wrShut>>
        /\ UNCHANGED <<state, reading>>
  /\ UNCHANGED <<pc, within, after, batch, baseVars, callVars, histVars>>

\* All of revents_ is handled; doPendingFunctors takes the queued functors.
SwapFunctors ==
  /\ pc = "event"
  /\ revents = {}
  /\ batch' = pending
  /\ pending' = <<>>
  /\ pc' = "functors"
  /\ UNCHANGED <<connVars, within, after, revents, baseVars, callVars, sockVars,
                 histVars>>

EndFunctors ==
  /\ pc = "functors"
  /\ batch = <<>>
  /\ pc' = "poll"
  /\ UNCHANGED <<connVars, within, after, revents, pending, batch, baseVars,
                 callVars, sockVars, histVars>>

\* doPendingFunctors runs the next functor, whose name is op.
Run(op) ==
  /\ pc = "functors"
  /\ batch # <<>>
  /\ Head(batch).op = op
  /\ batch' = Tail(batch)
  /\ UNCHANGED <<revents, baseVars, callVars>>

\* Seeded fault: the state is not set to kConnected.
SetConnecting == state' = "kConnecting"

SetConnected == state' = "kConnected"

ConnectEstablished ==
  /\ Run("connectEstablished")
  /\ SetConnected
  /\ Update(events \cup {"read"})
  /\ known' = TRUE
  /\ CallUser("return")
  /\ UNCHANGED <<reading, out, pending, sockVars, closed, removed>>

\* connectDestroyed, up to the connection callback if that is called ...
ConnectDestroyed ==
  /\ Run("connectDestroyed")
  /\ \/ /\ state = "kConnected"
        /\ state' = "kDisconnected"
        /\ Update({})
        /\ CallUser("remove")
        /\ closed' = TRUE
        /\ UNCHANGED <<reading, out, known, removed>>
     \/ /\ state # "kConnected"
        /\ RemoveChannel
        /\ UNCHANGED <<pc, within, after>>
  /\ UNCHANGED <<pending, sockVars>>

RunSend ==
  /\ Run("sendInLoop")
  /\ SendInLoop(Head(batch).msg)
  /\ UNCHANGED <<state, reading, pc, within, after, histVars>>

RunShutdown ==
  /\ Run("shutdownInLoop")
  /\ ShutdownInLoop
  /\ UNCHANGED <<connVars, pc, within, after, pending, histVars>>

RunForceClose ==
  /\ Run("forceCloseInLoop")
  /\ IF state = "kDisconnected"
     THEN UNCHANGED <<connVars, pc, within, after, histVars>>
     ELSE HandleClose
  /\ UNCHANGED <<pending, sockVars>>

RunStartRead ==
  /\ Run("startReadInLoop")
  /\ StartReadInLoop
  /\ UNCHANGED <<state, out, pc, within, after, pending, sockVars, histVars>>

RunStopRead ==
  /\ Run("stopReadInLoop")
  /\ StopReadInLoop
  /\ UNCHANGED <<state, out, pc, within, after, pending, sockVars, histVars>>

\* writeCompleteCallback_ and highWaterCallback_ are user code.
RunCallback ==
  /\ Run("writeComplete") \/ Run("highWaterMark")
  /\ CallUser("return")
  /\ UNCHANGED <<connVars, pending, sockVars, histVars>>

\* User code returns; handleClose goes on to closeCallback_, which queues
\* removeConnectionInLoop on the base loop (where it stays for good if that has
\* been stopped), and connectDestroyed to remove().
UserReturns ==
  /\ pc = "user"
  /\ pc' = within
  /\ within' = "event" /\ after' = "return"
  /\ IF after = "remove" THEN RemoveChannel ELSE UNCHANGED <<connVars, histVars>>
  /\ removals' = IF after = "closeCallback" /\ ~serverGone
                 THEN removals + 1 ELSE removals
  /\ UNCHANGED <<revents, pending, batch, inMap, serverGone, callVars, sockVars>>

-----------------------------------------------------------------------------
(* User code on the io loop's thread calls the connection.                 *)

UserSend(m) ==
  /\ pc = "user"
  /\ m \in fresh
  /\ state = "kConnected"
  /\ fresh' = fresh \ {m}
  /\ SendInLoop(m)
  /\ UNCHANGED <<state, reading, pc, within, after, revents, batch, baseVars,
                 call, calls, owed, histVars>>

UserShutdown ==
  /\ pc = "user"
  /\ state = "kConnected"
  /\ state' = "kDisconnecting"
  /\ ShutdownInLoop
  /\ UNCHANGED <<reading, events, index, out, loopVars, baseVars, callVars,
                 histVars>>

CountCall ==
  /\ calls < MaxCalls
  /\ calls' = calls + 1

UserForceClose ==
  /\ pc = "user"
  /\ state # "kDisconnected"
  /\ CountCall
  /\ pending' = Append(pending, Functor("forceCloseInLoop"))
  /\ UNCHANGED <<connVars, pc, within, after, revents, batch, baseVars,
                 call, fresh, owed, sockVars, histVars>>

UserRead ==
  /\ pc = "user"
  /\ CountCall
  /\ StartReadInLoop \/ StopReadInLoop
  /\ UNCHANGED <<state, out, loopVars, baseVars, call, fresh, owed,
                 sockVars, histVars>>

-----------------------------------------------------------------------------
(* Other threads call it, once the connection callback has given them the  *)
(* TcpConnectionPtr, which they keep.                                      *)

Begin(t, functor) ==
  /\ known
  /\ call[t] = Idle
  /\ call' = [call EXCEPT ![t] = functor]

\* send(): state_ is tested ...
CallSend(t, m) ==
  /\ m \in fresh
  /\ state = "kConnected"
  /\ Begin(t, Send(m))
  /\ fresh' = fresh \ {m}
  /\ UNCHANGED <<connVars, loopVars, baseVars, calls, owed, sockVars, histVars>>

\* shutdown(): state_ is tested, then set ...
CallShutdown(t) ==
  /\ state = "kConnected"
  /\ Begin(t, Functor("shutdown"))
  /\ UNCHANGED <<connVars, loopVars, baseVars, fresh, calls, owed,
                 sockVars, histVars>>

\* Messages whose send() has returned.
Handed == Messages \ (fresh \cup {call[t].msg : t \in {u \in Callers : call[u] # Idle}})

SetDisconnecting(t) ==
  /\ call[t] = Functor("shutdown")
  /\ state' = "kDisconnecting"
  /\ owed' = IF state = "kConnected" THEN Handed ELSE owed
  /\ call' = [call EXCEPT ![t] = Functor("shutdownInLoop")]
  /\ UNCHANGED <<reading, events, index, out, loopVars, baseVars, fresh,
                 calls, sockVars, histVars>>

CallForceClose(t) ==
  /\ state # "kDisconnected"
  /\ CountCall
  /\ Begin(t, Functor("forceCloseInLoop"))
  /\ UNCHANGED <<connVars, loopVars, baseVars, fresh, owed, sockVars,
                 histVars>>

\* startRead(), stopRead(): state_ is not tested.
CallRead(t) ==
  /\ CountCall
  /\ \E op \in {"startReadInLoop", "stopReadInLoop"} : Begin(t, Functor(op))
  /\ UNCHANGED <<connVars, loopVars, baseVars, fresh, owed, sockVars,
                 histVars>>

\* ... and then the functor is queued.
Queue(t) ==
  /\ call[t] \in Functors
  /\ pending' = Append(pending, call[t])
  /\ call' = [call EXCEPT ![t] = Idle]
  /\ UNCHANGED <<connVars, pc, within, after, revents, batch, baseVars,
                 fresh, calls, owed, sockVars, histVars>>

\* Seeded fault: the connection leaves connections_, and that is all.
QueueNothing == UNCHANGED pending

QueueConnectDestroyed == pending' = Append(pending, Functor("connectDestroyed"))

\* TcpServer::removeConnectionInLoop, on the base loop's thread.
RemoveConnectionInLoop ==
  /\ ~serverGone
  /\ removals > 0
  /\ removals' = removals - 1
  /\ inMap' = FALSE
  /\ QueueConnectDestroyed
  /\ UNCHANGED <<connVars, pc, within, after, revents, batch, serverGone, callVars,
                 sockVars, histVars>>

\* The base loop returns, with whatever functors it has queued, which it will not
\* run; then ~TcpServer has the connections left in connections_ destroyed, with
\* no handleClose before.
DestroyServer ==
  /\ ~serverGone
  /\ serverGone' = TRUE
  /\ inMap' = FALSE
  /\ pending' = IF inMap THEN Append(pending, Functor("connectDestroyed"))
                         ELSE pending
  /\ removals' = 0
  /\ UNCHANGED <<connVars, pc, within, after, revents, batch, callVars, sockVars,
                 histVars>>

-----------------------------------------------------------------------------
(* The peer.                                                               *)

PeerSends ==
  /\ peer = "open"
  /\ input' = TRUE
  /\ UNCHANGED <<sent, unsent, soError, wrShut, peer>>

PeerReads ==
  /\ peer # "reset"
  /\ \E n \in 0..(unsent - 1) : unsent' = n
  /\ UNCHANGED <<sent, input, soError, wrShut, peer>>

PeerCloses ==
  /\ peer = "open"
  /\ peer' = "fin"
  /\ UNCHANGED <<sent, unsent, input, soError, wrShut>>

PeerResets ==
  /\ peer # "reset"
  /\ peer' = "reset"
  /\ soError' = TRUE
  /\ unsent' = 0
  /\ UNCHANGED <<sent, input, wrShut>>

PeerStep ==
  /\ PeerSends \/ PeerReads \/ PeerCloses \/ PeerResets
  /\ UNCHANGED <<connVars, loopVars, baseVars, callVars, histVars>>

-----------------------------------------------------------------------------
\* What the loop thread does of itself.
LoopStep ==
  \/ Poll \/ EventHup \/ EventErr \/ ReadData \/ ReadError \/ ReadEnd
  \/ EventOut \/ SwapFunctors \/ EndFunctors
  \/ ConnectEstablished \/ ConnectDestroyed \/ RunSend \/ RunShutdown
  \/ RunForceClose \/ RunStartRead \/ RunStopRead \/ RunCallback
  \/ UserReturns

UserStep ==
  \/ \E m \in Messages : UserSend(m)
  \/ UserShutdown \/ UserForceClose \/ UserRead

CallerStep(t) ==
  \/ \E m \in Messages : CallSend(t, m)
  \/ CallShutdown(t) \/ SetDisconnecting(t)
  \/ CallForceClose(t) \/ CallRead(t)
  \/ Queue(t)

Next ==
  \/ LoopStep
  \/ UserStep
  \/ \E t \in Callers : CallerStep(t)
  \/ RemoveConnectionInLoop
  \/ DestroyServer
  \/ PeerStep

Spec == Init /\ [][Next]_vars

(***************************************************************************)
(* Fairness: the io loop runs, and the base loop until it is stopped,      *)
(* which may happen or not; user code returns, a call that has been begun  *)
(* is finished, and the peer, as long as it has not reset the connection,  *)
(* reads what it was sent.  Nothing obliges anyone to begin a call, or the *)
(* peer to send or to close.  Input is finite: who reads again and again   *)
(* has read it all in the end.                                             *)
(***************************************************************************)
FairSpec ==
  /\ Spec
  /\ WF_vars(LoopStep)
  /\ \A t \in Callers : WF_vars(SetDisconnecting(t) \/ Queue(t))
  /\ WF_vars(RemoveConnectionInLoop)
  /\ SF_vars(ReadData /\ ~input')
  /\ WF_vars(PeerReads
               /\ UNCHANGED <<connVars, loopVars, baseVars, callVars, histVars>>)

-----------------------------------------------------------------------------
(* Properties.                                                             *)

\* The messages that sendInLoop has not got yet.
Waiting ==
  fresh \cup {m \in Messages :
    \/ \E t \in Callers : call[t] # Idle /\ call[t].msg = m
    \/ \E i \in 1..Len(pending) : pending[i].msg = m
    \/ \E i \in 1..Len(batch) : batch[i].msg = m}

\* The bytes written to the socket, whoever writes them (sendInLoop itself or
\* handleWrite), are the messages in the order in which sendInLoop got them,
\* none twice and none cut short, until the stream breaks
\* (tcpConnection.cc:116-171, 309-337).
Stream == INSTANCE ByteStream WITH
  left <- Waiting, queue <- out, wire <- sent, broken <- Broken
ImplementsByteStream == Stream!Spec

\* As long as the connection is not being closed, by handleClose or by the
\* server's destructor, epoll watches for room in the send buffer exactly while
\* something is buffered: else the bytes would stay for good, or the loop would
\* spin (tcpConnection.cc:154-169, 311-320).
WatchedIffBuffered ==
  /\ ~closed => (IsWriting /\ index = "kAdded" <=> out # <<>>)
  /\ IsWriting => out # <<>>

\* The write end is not shut down before the output buffer is empty
\* (tcpConnection.cc:184-190, 326-329), unless the connection is being closed or
\* has been lost.
ShutdownAfterFlush == wrShut /\ ~closed /\ peer # "reset" => out = <<>>

\* The data not sent yet is put in the output buffer (tcpConnection.h:53): what
\* was given to send() before shutdown() was called has been written when the
\* write end is shut down.
OwedIsSent ==
  wrShut /\ peer = "open" /\ ~closed
     => \A m \in owed : \E i \in 1..Len(sent) : sent[i] = <<m, MessageLength>>

\* shutdown() does shut the write end down, once the peer has made room for
\* what is buffered, on whichever side of handleWrite it comes.
ShutdownCompletes ==
  state = "kDisconnecting" ~> wrShut \/ closed \/ peer = "reset"

\* A connection that reads notices that the peer has closed or reset it, although
\* an error of read() is only reported, by handleError, and the error it fetches
\* with SO_ERROR is gone from the socket (tcpConnection.cc:298-306, 348-361).
EndIsNoticed ==
  peer # "open" /\ "read" \in events ~> closed \/ "read" \notin events

\* Whenever handleClose has been called, for whatever reason and however often,
\* the connection leaves connections_ and connectDestroyed takes its channel out
\* of the poller; a second call may come behind the first removal and register
\* the channel anew (tcpServer.cc:93-106).  The base loop, once stopped, does not
\* pass it on any more.
CloseCompletes == closed ~> ~inMap /\ (removed \/ serverGone)
=============================================================================

------------------------------ MODULE TcpServer ------------------------------
(***************************************************************************)
(* TcpServer (src/src/tcpServer.cc) with its Acceptor, its                 *)
(* EventLoopThreadPool and its connections: how a connection gets to its   *)
(* loop, how it is taken out again, and how the server is torn down.       *)
(*                                                                         *)
(* Loop 0 is the base loop, on the thread that owns the server; the others *)
(* are the pool's.  A loop handles events ("poll"), then runs the functors *)
(* it found queued ("run"), and tests quit_; what it leaves queued when it *)
(* stops is destroyed with it.  That an EventLoop behaves so, that it is    *)
(* woken up, and that an EventLoopThread joins its thread, is the subject  *)
(* of those modules.  All loops are taken to have entered loop(): what a   *)
(* destructor before that does is shown by EventLoopThread_quit_lost.      *)
(*                                                                         *)
(* A connection is seen as its registration with the poller and as the     *)
(* references that keep it, and its descriptor, in existence: connections_,*)
(* the queued functors that bind a TcpConnectionPtr, and the user's own.   *)
(***************************************************************************)
EXTENDS Acceptor, Integers, Sequences, FiniteSets

CONSTANTS
  MaxThreads,    \* most threads in the pool
  MaxPeers,      \* peers that ever connect (a bound)
  MaxHangups,    \* most calls of handleClose (a bound)
  Descriptors,   \* descriptors that the process may have open, the spare and
                 \* those of connections and other threads counted
  MaxOthers,     \* most descriptors that other threads open (a bound)
  NameRoom,      \* digits of the number that newConnection's buf[64] has room
                 \* for behind the server's name
  UserOps,       \* what the user calls on connections it has kept
  MaxUses        \* pointers the user keeps and calls it makes (a bound)

ASSUME TcpServerAssumption ==
  /\ MaxThreads \in Nat /\ MaxPeers \in Nat /\ MaxHangups \in Nat
  /\ Descriptors \in Nat \ {0} /\ MaxOthers \in Nat
  /\ NameRoom \in Nat
  /\ UserOps \subseteq {"forceCloseInLoop", "startReadInLoop"}
  /\ MaxUses \in Nat

VARIABLES
  serverPc,     \* before start, in use, in the destructor's loop over
                \* connections_ ("erasing"), in the pool's ("joining"), "gone"
  numThreads,   \* numThreads_
  next,         \* next_ of the pool
  joined,       \* threads that the pool's destructor has joined
  inMap,        \* connections_
  nextConnId,   \* nextConnId_
  loopOf,       \* the loop of each connection
  stage,        \* how far each connection is; "again": it has been destroyed,
                \* and its channel registered once more
  shutting,     \* connections whose state_ is kDisconnecting
  closed,       \* history: connections with a call of handleClose
  hangups,      \* history: such calls
  phase,        \* where the thread of each loop is
  quit,         \* quit_ of each loop
  pending,      \* pendingFunctors_ of each loop
  batch,        \* doPendingFunctors' local vector
  kept,         \* connections to which the user keeps a TcpConnectionPtr
  uses,         \* pointers kept and calls made
  arrived,      \* peers that have connected
  others,       \* descriptors of other threads
  stolen        \* history: one was opened while the spare was being used

poolVars == <<numThreads, next, joined>>
connVars == <<inMap, nextConnId, loopOf, stage, shutting, closed, hangups>>
loopVars == <<phase, quit, pending, batch>>
otherVars == <<kept, uses, arrived, others, stolen>>
vars == <<acceptorVars, serverPc, poolVars, connVars, loopVars, otherVars>>

Conns == 1..MaxPeers
Loops == 0..MaxThreads
Base == 0

Functor(op, c) == [op |-> op, conn |-> c]
Functors == {Functor(op, c) :
  op \in {"connectEstablished", "connectDestroyed", "removeConnectionInLoop"}
            \cup UserOps,
  c \in Conns}

TypeOK ==
  /\ waiting \in Nat /\ idleFd \in BOOLEAN /\ acceptorPc \in AcceptorPoints
  /\ serverPc \in {"new", "running", "erasing", "joining", "gone"}
  /\ numThreads \in 0..MaxThreads
  /\ next = 0 \/ next \in 0..(numThreads - 1)
  /\ joined \in 0..numThreads
  /\ inMap \subseteq Conns
  /\ nextConnId \in 1..(MaxPeers + 1)
  /\ loopOf \in [Conns -> Loops]
  /\ stage \in [Conns -> {"unused", "made", "up", "down", "again"}]
  /\ shutting \subseteq Conns
  /\ closed \subseteq Conns /\ hangups \in 0..MaxHangups
  /\ phase \in [Loops -> {"none", "poll", "run", "stopped", "destroyed"}]
  /\ quit \in [Loops -> BOOLEAN]
  /\ pending \in [Loops -> Seq(Functors)]
  /\ batch \in [Loops -> Seq(Functors)]
  /\ kept \subseteq Conns /\ uses \in 0..MaxUses
  /\ arrived \in 0..MaxPeers
  /\ others \in 0..MaxOthers
  /\ stolen \in BOOLEAN

Init ==
  /\ AcceptorInit
  /\ serverPc = "new" /\ numThreads = 0 /\ next = 0 /\ joined = 0
  /\ inMap = {} /\ nextConnId = 1
  /\ loopOf = [c \in Conns |-> Base]
  /\ stage = [c \in Conns |-> "unused"]
  /\ shutting = {} /\ closed = {} /\ hangups = 0
  /\ phase = [l \in Loops |-> IF l = Base THEN "poll" ELSE "none"]
  /\ quit = [l \in Loops |-> FALSE]
  /\ pending = [l \in Loops |-> <<>>]
  /\ batch = [l \in Loops |-> <<>>]
  /\ kept = {} /\ uses = 0
  /\ arrived = 0 /\ others = 0 /\ stolen = FALSE

\* The functors that a loop holds, and the connections in existence: all but
\* startRead bind a TcpConnectionPtr, that binds the raw `this'.
Held(l) == {batch[l][i] : i \in 1..Len(batch[l])}
             \cup {pending[l][i] : i \in 1..Len(pending[l])}
HoldsPointer(op) == op # "startReadInLoop"

Referenced(c) ==
  \/ c \in inMap \cup kept
  \/ \E l \in Loops : \E f \in Held(l) : f.conn = c /\ HoldsPointer(f.op)

\* Seeded fault: every connection is called by the server's name.
ServerName(c) == 0

\* The number in a connection's name, cut off at the end of buf[64].
Name(c) ==
  LET cut == CHOOSE k \in 0..c : /\ c \div 10^k < 10^NameRoom
                                 /\ \A j \in 0..(k - 1) : c \div 10^j >= 10^NameRoom
  IN  c \div 10^cut

SameName(c) == {d \in inMap : Name(d) = Name(c)}

Registered(c) == stage[c] \in {"up", "again"}

\* state_ is kConnected or kDisconnecting: connectDestroyed leaves the latter.
StillOpen(c) == stage[c] = "up" \/ c \in shutting

Free == Descriptors - Cardinality({c \in Conns : Referenced(c)})
          - others - (IF idleFd THEN 1 ELSE 0)

Enqueue(l, op, c) ==
  pending' = [pending EXCEPT ![l] = Append(@, Functor(op, c))]

\* The thread of loop l can call back into user code and the library.
InLoop(l) ==
  /\ phase[l] \in {"poll", "run"}
  /\ l = Base => acceptorPc = "idle"

-----------------------------------------------------------------------------
(* The server, on the base loop's thread.                                  *)

\* setThreadNum and start: the pool's threads, and Acceptor::listen.
Start ==
  /\ serverPc = "new"
  /\ serverPc' = "running"
  /\ numThreads' \in 0..MaxThreads
  /\ phase' = [l \in Loops |-> IF l \in 1..numThreads' THEN "poll" ELSE phase[l]]
  /\ UNCHANGED <<acceptorVars, next, joined, connVars, quit, pending, batch,
                 otherVars>>

\* EventLoopThreadPool::getNextLoop.
NextLoop == IF numThreads = 0 THEN Base ELSE next + 1

\* Seeded faults: the last loop is skipped; next_ is not set back.
AdvanceShort ==
  next' = IF next + 2 >= numThreads THEN 0 ELSE next + 1

AdvanceOn == next' = next + 1

AdvanceNext ==
  next' = IF next + 1 >= numThreads THEN 0 ELSE next + 1

\* Acceptor::handleRead with a descriptor, and newConnection: connections_ gets
\* the connection under its name, in the place of what it has there.
NewConnection ==
  LET c == nextConnId
      l == NextLoop
  IN  /\ serverPc = "running"
      /\ phase[Base] = "poll"
      /\ Accept(Free)
      /\ AdvanceNext
      /\ nextConnId' = nextConnId + 1
      /\ inMap' = (inMap \ SameName(c)) \cup {c}
      /\ loopOf' = [loopOf EXCEPT ![c] = l]
      /\ IF l = Base
         THEN stage' = [stage EXCEPT ![c] = "up"] /\ UNCHANGED pending
         ELSE /\ stage' = [stage EXCEPT ![c] = "made"]
              /\ Enqueue(l, "connectEstablished", c)
      /\ UNCHANGED <<serverPc, numThreads, joined, shutting, closed, hangups,
                     phase, quit, batch, otherVars>>

\* Acceptor::handleRead without.
TurnPeerAway ==
  /\ serverPc = "running"
  /\ phase[Base] = "poll"
  /\ Refuse(Free)
  /\ UNCHANGED <<serverPc, poolVars, connVars, loopVars, otherVars>>

\* Seeded faults: connections_ does not find the name it is to erase;
\* connectDestroyed is not queued.
RemoveNothing(c) ==
  /\ UNCHANGED inMap
  /\ Enqueue(loopOf[c], "connectDestroyed", c)

RemoveOnly(c) ==
  /\ inMap' = inMap \ SameName(c)
  /\ UNCHANGED pending

\* removeConnectionInLoop.
RemoveInLoop(c) ==
  /\ inMap' = inMap \ SameName(c)
  /\ Enqueue(loopOf[c], "connectDestroyed", c)

\* handleClose: disableAll, which registers a channel that has been removed
\* once more, and removeConnection.
HandleClose(c) ==
  /\ stage' = [stage EXCEPT ![c] = IF @ = "down" THEN "again" ELSE @]
  /\ closed' = closed \cup {c}
  /\ IF loopOf[c] = Base
     THEN RemoveInLoop(c)
     ELSE Enqueue(Base, "removeConnectionInLoop", c) /\ UNCHANGED inMap

\* The peer hangs up: an event of the connection's loop.
Hangup(c) ==
  /\ Registered(c)
  /\ InLoop(loopOf[c])
  /\ phase[loopOf[c]] = "poll"
  /\ hangups < MaxHangups
  /\ hangups' = hangups + 1
  /\ HandleClose(c)
  /\ UNCHANGED <<acceptorVars, serverPc, poolVars, nextConnId, loopOf, shutting,
                 phase, quit, batch, otherVars>>

-----------------------------------------------------------------------------
(* The user, who is given a TcpConnectionPtr by the callbacks.             *)

CountUse == uses < MaxUses /\ uses' = uses + 1

\* In a callback, on the connection's loop: the user keeps the pointer, and may
\* have called shutdown(), which does its work at once there.
UserKeeps(c) ==
  /\ stage[c] = "up"
  /\ InLoop(loopOf[c])
  /\ c \notin kept
  /\ CountUse
  /\ kept' = kept \cup {c}
  /\ shutting' \in {shutting, shutting \cup {c}}
  /\ UNCHANGED <<acceptorVars, serverPc, poolVars, inMap, nextConnId, loopOf,
                 stage, closed, hangups, loopVars, arrived, others, stolen>>

\* On any thread, as long as the loop exists: forceClose(), startRead().
UserCalls(c, op) ==
  /\ c \in kept
  /\ phase[loopOf[c]] # "destroyed"
  /\ op = "forceCloseInLoop" => StillOpen(c)
  /\ CountUse
  /\ Enqueue(loopOf[c], op, c)
  /\ UNCHANGED <<acceptorVars, serverPc, poolVars, connVars, phase, quit, batch,
                 kept, arrived, others, stolen>>

UserDrops(c) ==
  /\ c \in kept
  /\ kept' = kept \ {c}
  /\ UNCHANGED <<acceptorVars, serverPc, poolVars, connVars, loopVars, uses,
                 arrived, others, stolen>>

-----------------------------------------------------------------------------
(* The loops.                                                              *)

\* The events are handled; doPendingFunctors swaps.
Swap(l) ==
  /\ phase[l] = "poll"
  /\ InLoop(l)
  /\ phase' = [phase EXCEPT ![l] = "run"]
  /\ batch' = [batch EXCEPT ![l] = pending[l]]
  /\ pending' = [pending EXCEPT ![l] = <<>>]
  /\ UNCHANGED <<acceptorVars, serverPc, poolVars, connVars, quit, otherVars>>

Becomes(c, s) ==
  /\ stage' = [stage EXCEPT ![c] = s]
  /\ UNCHANGED <<inMap, closed, pending>>

\* What the functor op of c does.
Effect(op, c) ==
  \/ op = "connectEstablished" /\ Becomes(c, "up")
  \/ op = "connectDestroyed" /\ Becomes(c, "down")
  \/ /\ op = "removeConnectionInLoop"
     /\ RemoveInLoop(c)
     /\ UNCHANGED <<stage, closed>>
  \/ op = "forceCloseInLoop" /\ StillOpen(c) /\ HandleClose(c)
  \/ op = "startReadInLoop" /\ stage[c] = "down" /\ Becomes(c, "again")
  \/ /\ \/ op = "forceCloseInLoop" /\ ~StillOpen(c)
        \/ op = "startReadInLoop" /\ stage[c] # "down"
     /\ UNCHANGED <<stage, inMap, closed, pending>>

\* One functor of the batch.  Of a connection that is gone only startRead's can
\* be left, which binds the raw `this'; that one is undefined, and not followed.
RunFunctor(l) ==
  /\ phase[l] = "run"
  /\ batch[l] # <<>>
  /\ Referenced(Head(batch[l]).conn)
  /\ batch' = [batch EXCEPT ![l] = Tail(@)]
  /\ Effect(Head(batch[l]).op, Head(batch[l]).conn)
  /\ UNCHANGED <<acceptorVars, serverPc, poolVars, nextConnId, loopOf, shutting,
                 hangups, phase, quit, otherVars>>

\* while(!quit_), behind the last functor.
EndTurn(l) ==
  /\ phase[l] = "run"
  /\ batch[l] = <<>>
  /\ phase' = [phase EXCEPT ![l] = IF quit[l] THEN "stopped" ELSE "poll"]
  /\ UNCHANGED <<acceptorVars, serverPc, poolVars, connVars, quit, pending, batch,
                 otherVars>>

\* The loop's object goes, and its functors with it: a pool thread's when the
\* thread ends, the base loop's behind the server.
DestroyLoop(l) ==
  /\ phase[l] = "stopped"
  /\ l = Base => serverPc = "gone"
  /\ phase' = [phase EXCEPT ![l] = "destroyed"]
  /\ pending' = [pending EXCEPT ![l] = <<>>]
  /\ UNCHANGED <<acceptorVars, serverPc, poolVars, connVars, quit, batch, otherVars>>

\* The user quits the base loop.
QuitBase ==
  /\ serverPc = "running"
  /\ ~quit[Base]
  /\ quit' = [quit EXCEPT ![Base] = TRUE]
  /\ UNCHANGED <<acceptorVars, serverPc, poolVars, connVars, phase, pending, batch,
                 otherVars>>

-----------------------------------------------------------------------------
(* The destructor, behind the base loop's return.                          *)

BeginDestroy ==
  /\ serverPc = "running"
  /\ phase[Base] = "stopped"
  /\ serverPc' = "erasing"
  /\ UNCHANGED <<acceptorVars, poolVars, connVars, loopVars, otherVars>>

\* Seeded fault: connectDestroyed is not left to the connection's loop.
DestroyHere(c) == stage' = [stage EXCEPT ![c] = "down"] /\ UNCHANGED pending

\* connectDestroyed by the connection's loop, at once if that is this thread's.
DestroyInLoop(c) ==
  IF loopOf[c] = Base
  THEN stage' = [stage EXCEPT ![c] = "down"] /\ UNCHANGED pending
  ELSE Enqueue(loopOf[c], "connectDestroyed", c) /\ UNCHANGED stage

EraseConnection(c) ==
  /\ serverPc = "erasing"
  /\ c \in inMap
  /\ inMap' = inMap \ {c}
  /\ DestroyInLoop(c)
  /\ UNCHANGED <<acceptorVars, serverPc, poolVars, nextConnId, loopOf, shutting,
                 closed, hangups, phase, quit, batch, otherVars>>

\* Seeded fault: the thread is joined without being told to stop.
TellNone(l) == quit' = quit

TellToQuit(l) == quit' = [quit EXCEPT ![l] = TRUE]

\* The pool goes with the members: each EventLoopThread quits its loop ...
QuitThread ==
  /\ serverPc \in {"erasing", "joining"}
  /\ serverPc = "erasing" => inMap = {}
  /\ joined < numThreads
  /\ ~quit[joined + 1]
  /\ TellToQuit(joined + 1)
  /\ serverPc' = "joining"
  /\ UNCHANGED <<acceptorVars, poolVars, connVars, phase, pending, batch, otherVars>>

\* Seeded fault: the thread is not waited for.
HasBeenTold(l) == quit[l]

HasEnded(l) == phase[l] = "destroyed"

\* ... and joins its thread.
JoinThread ==
  /\ serverPc = "joining"
  /\ joined < numThreads
  /\ HasEnded(joined + 1)
  /\ joined' = joined + 1
  /\ UNCHANGED <<acceptorVars, serverPc, numThreads, next, connVars, loopVars,
                 otherVars>>

\* The acceptor goes last, and with it the server.
EndDestroy ==
  /\ serverPc \in {"erasing", "joining"}
  /\ inMap = {}
  /\ joined = numThreads
  /\ serverPc' = "gone"
  /\ CloseAcceptor
  /\ UNCHANGED <<poolVars, connVars, loopVars, otherVars>>

-----------------------------------------------------------------------------
(* The peers, and the rest of the process.                                 *)

PeerConnects ==
  /\ serverPc = "running"
  /\ arrived < MaxPeers
  /\ arrived' = arrived + 1
  /\ waiting' = waiting + 1
  /\ UNCHANGED <<idleFd, acceptorPc, serverPc, poolVars, connVars, loopVars,
                 kept, uses, others, stolen>>

OtherOpens ==
  /\ others < MaxOthers
  /\ Free > 0
  /\ others' = others + 1
  /\ stolen' = (stolen \/ acceptorPc # "idle")
  /\ UNCHANGED <<acceptorVars, serverPc, poolVars, connVars, loopVars, kept,
                 uses, arrived>>

OtherCloses ==
  /\ others > 0
  /\ others' = others - 1
  /\ UNCHANGED <<acceptorVars, serverPc, poolVars, connVars, loopVars, kept,
                 uses, arrived, stolen>>

Over ==
  /\ phase[Base] = "destroyed"
  /\ UNCHANGED vars

LoopStep(l) == Swap(l) \/ RunFunctor(l) \/ EndTurn(l) \/ DestroyLoop(l)

UserStep(c) ==
  \/ UserKeeps(c) \/ UserDrops(c)
  \/ \E op \in UserOps : UserCalls(c, op)

DestructorStep ==
  \/ \E c \in Conns : EraseConnection(c)
  \/ QuitThread \/ JoinThread \/ EndDestroy

Next ==
  \/ Start \/ NewConnection \/ TurnPeerAway
  \/ \E c \in Conns : Hangup(c) \/ UserStep(c)
  \/ \E l \in Loops : LoopStep(l)
  \/ QuitBase \/ BeginDestroy \/ DestructorStep
  \/ PeerConnects \/ OtherOpens \/ OtherCloses
  \/ Over

Spec == Init /\ [][Next]_vars

(***************************************************************************)
(* Fairness: the threads run.  A turn of the base loop has one call of     *)
(* Acceptor::handleRead at most, and ends; on each turn epoll_wait reports *)
(* a listening socket on which a peer waits.  Hence the strong fairness of *)
(* the loops against the acceptor, and of the acceptor against the loops.  *)
(* (That it is not a stutter says that errno is EMFILE in the end.)        *)
(***************************************************************************)
FairSpec ==
  /\ Spec
  /\ \A l \in Loops : SF_vars(LoopStep(l))
  /\ SF_vars(NewConnection \/ TurnPeerAway)
  /\ WF_vars(DestructorStep)

-----------------------------------------------------------------------------
(* Properties.                                                             *)

\* A connection is established once, by its own loop, before it is destroyed,
\* although establishing, removing and destroying it are queued by different
\* threads (tcpServer.cc:61-106).
LifeInOrder ==
  [][\A c \in Conns :
       /\ stage[c] = "made" => stage'[c] \in {"made", "up"}
       /\ stage[c] \in {"down", "again"} => stage'[c] \in {"down", "again"}]_vars

\* As long as its loop runs, a connection that is registered with the poller is
\* in connections_ or its loop has its connectDestroyed queued: the kernel and
\* the poller know only its raw pointer.  A forceClose behind a shutdown and a
\* close registers the removed channel once more; then the base loop has it
\* taken out again, unless that has been told to quit
\* (tcpServer.cc:93-106, tcpConnection.cc:203-209, 280).
RegisteredIsHeld ==
  \A c \in Conns :
     Registered(c) /\ phase[loopOf[c]] \in {"poll", "run"}
       => \/ c \in inMap
          \/ Functor("connectDestroyed", c) \in Held(loopOf[c])
          \/ /\ stage[c] = "again"
             /\ ~quit[Base] => Functor("removeConnectionInLoop", c) \in Held(Base)

\* connections_ holds all connections that have been made (tcpServer.h:108) and
\* that have not been closed, until the server goes.
MapIsComplete ==
  serverPc = "running" => (1..(nextConnId - 1)) \ closed \subseteq inMap

\* ~Channel asserts that the poller does not know the channel any more
\* (channel.cc:28-34), also when the loop has stopped and its functors go with
\* it, the last references to a connection among them.
GoneIsUnregistered ==
  \A c \in Conns : stage[c] = "up" => Referenced(c)

\* The loops of the pool get connections in turn: none has two more than
\* another (eventLoopThreadPool.cc:42-55).
Balanced ==
  \A l, m \in 1..numThreads :
     Cardinality({c \in 1..(nextConnId - 1) : loopOf[c] = l})
       <= Cardinality({c \in 1..(nextConnId - 1) : loopOf[c] = m}) + 1

\* The close callback's raw `this' is good: no thread of the pool, and no
\* functor of the base loop, runs once the server is gone (tcpServer.cc:84, 96).
ServerOutlivesItsLoops ==
  serverPc = "gone" => \A l \in Loops : phase[l] \notin {"poll", "run"}

\* The acceptor has its spare descriptor back after it was used, unless another
\* thread took the last one in between (acceptor.cc:60-66).
SpareIsKept ==
  acceptorPc = "idle" /\ serverPc # "gone" => idleFd \/ stolen

\* A peer that waits is accepted or turned away, although the process may be out
\* of descriptors (acceptor.cc:41-68).
PeersAreAnswered == []<>(waiting = 0 \/ stolen \/ quit[Base])

\* Again and again, whatever has been closed has been destroyed by its own loop
\* and, once the user has dropped it, its descriptor been given back, unless the
\* base loop quits (tcpServer.cc:93-106).
ClosedIsReleased ==
  []<>(quit[Base] \/ \A c \in closed : stage[c] = "down"
                                        /\ (Referenced(c) => c \in kept))

\* The destructor returns: it waits for threads whose loops see the quit
\* (tcpServer.cc:30-40, eventLoopThread.cc:18-26).
DestructorReturns == serverPc = "erasing" ~> serverPc = "gone"
=============================================================================

--------------------------- MODULE TcpServerProofs ---------------------------
(***************************************************************************)
(* Theorems about TcpServer, for any number of loops, peers, hangups and   *)
(* descriptors.                                                            *)
(*                                                                         *)
(* The inductive invariant comes in layers, each of which uses those       *)
(* before it: the types and the acceptor's queue; the loops that run at    *)
(* each point of the destructor; the turns of the pool; the functors that  *)
(* a loop may hold, and their order; the path on which each connection     *)
(* will be taken out; and the descriptors that are left.                   *)
(***************************************************************************)
EXTENDS TcpServer, SequenceTheorems, FiniteSetTheorems, TLAPS

\* nextConnId stays in its type because no more peers wait than have connected,
\* and because handleRead, where it takes a peer, has seen that one waits.
TypeInv ==
  /\ TypeOK
  /\ nextConnId + waiting <= arrived + 1
  /\ acceptorPc \in {"full", "closed"} => waiting > 0
  /\ acceptorPc # "idle" => serverPc = "running" /\ phase[Base] = "poll"
  /\ serverPc = "new" => numThreads = 0 /\ nextConnId = 1

-----------------------------------------------------------------------------
(* Types.                                                                  *)

\* A functor of the operations that are queued.
LEMMA FunctorType ==
  ASSUME NEW c \in Conns,
         NEW op \in {"connectEstablished", "connectDestroyed",
                     "removeConnectionInLoop"} \cup UserOps
  PROVE  Functor(op, c) \in Functors
BY DEF Functors

\* The parts of a functor.
LEMMA FunctorParts ==
  ASSUME NEW f \in Functors
  PROVE  /\ f.conn \in Conns
         /\ f.op \in {"connectEstablished", "connectDestroyed",
                      "removeConnectionInLoop"} \cup UserOps
         /\ f = Functor(f.op, f.conn)
BY DEF Functors, Functor

\* Queuing a functor keeps the type of the queues.
LEMMA EnqueueType ==
  ASSUME pending \in [Loops -> Seq(Functors)],
         NEW l \in Loops, NEW c \in Conns,
         NEW op \in {"connectEstablished", "connectDestroyed",
                     "removeConnectionInLoop"} \cup UserOps,
         Enqueue(l, op, c)
  PROVE  pending' \in [Loops -> Seq(Functors)]
<1>1. Append(pending[l], Functor(op, c)) \in Seq(Functors)
  BY FunctorType, AppendProperties
<1> QED BY <1>1 DEF Enqueue

\* handleClose keeps the types of what it changes.
LEMMA HandleCloseType ==
  ASSUME TypeOK, NEW c \in Conns, HandleClose(c)
  PROVE  /\ inMap' \subseteq Conns
         /\ stage' \in [Conns -> {"unused", "made", "up", "down", "again"}]
         /\ closed' \subseteq Conns
         /\ pending' \in [Loops -> Seq(Functors)]
<1>1. pending' \in [Loops -> Seq(Functors)]
  <2>1. Base \in Loops /\ loopOf[c] \in Loops
    BY TcpServerAssumption DEF TypeOK, Loops, Base
  <2>2. CASE loopOf[c] = Base
    BY <2>1, <2>2, EnqueueType DEF HandleClose, RemoveInLoop, TypeOK
  <2>3. CASE loopOf[c] # Base
    BY <2>1, <2>3, EnqueueType DEF HandleClose, TypeOK
  <2> QED BY <2>2, <2>3
<1>2. inMap' \subseteq Conns
  BY DEF HandleClose, RemoveInLoop, TypeOK
<1>3. closed' \subseteq Conns
  BY DEF HandleClose, TypeOK
<1>4. stage' \in [Conns -> {"unused", "made", "up", "down", "again"}]
  BY DEF HandleClose, TypeOK
<1> QED BY <1>1, <1>2, <1>3, <1>4

\* The pool gives out one of its loops, or the base loop when it has none.
LEMMA NextLoopType ==
  ASSUME TypeOK
  PROVE  /\ NextLoop \in Loops
         /\ numThreads # 0 => NextLoop \in 1..numThreads
<1>1. MaxThreads \in Nat
  BY TcpServerAssumption
<1>2. numThreads \in 0..MaxThreads
  BY DEF TypeOK
<1>3. next = 0 \/ next \in 0..(numThreads - 1)
  BY DEF TypeOK
<1>4. CASE numThreads = 0
  BY <1>1, <1>4 DEF NextLoop, Loops, Base
<1>5. CASE numThreads # 0
  <2>1. next + 1 \in 1..numThreads
    BY <1>1, <1>2, <1>3, <1>5
  <2> QED BY <2>1, <1>1, <1>2, <1>5 DEF NextLoop, Loops
<1> QED BY <1>4, <1>5

\* The initial state is of the type.
LEMMA TypeInit == Init => TypeInv
<1> SUFFICES ASSUME Init PROVE TypeInv
  OBVIOUS
<1>1. pending \in [Loops -> Seq(Functors)] /\ batch \in [Loops -> Seq(Functors)]
  BY EmptySeq DEF Init
<1> QED
  BY <1>1, TcpServerAssumption
  DEF Init, AcceptorInit, TypeInv, TypeOK, AcceptorPoints, Conns, Loops, Base

\* Every step keeps the types.
LEMMA TypeStep ==
  ASSUME TypeInv, [Next]_vars
  PROVE  TypeInv'
<1> USE TcpServerAssumption DEF TypeInv, TypeOK, AcceptorPoints
<1>0. Base \in Loops
  BY DEF Loops, Base
<1>1. CASE Start
  BY <1>1 DEF Start, acceptorVars, connVars, otherVars, Loops, Base
<1>2. CASE NewConnection
  <2>1. nextConnId \in Conns
    BY <1>2 DEF NewConnection, Accept, Conns
  <2>2. NextLoop \in Loops
    BY NextLoopType
  <2>3. pending' \in [Loops -> Seq(Functors)]
    <3>1. CASE UNCHANGED pending
      BY <3>1
    <3>2. CASE Enqueue(NextLoop, "connectEstablished", nextConnId)
      BY <2>1, <2>2, <3>2, EnqueueType
    <3> QED BY <1>2, <3>1, <3>2 DEF NewConnection
  <2>4. inMap' \subseteq Conns /\ loopOf' \in [Conns -> Loops]
          /\ stage' \in [Conns -> {"unused", "made", "up", "down", "again"}]
    BY <1>2, <2>1, <2>2 DEF NewConnection
  <2>5. next' = 0 \/ next' \in 0..(numThreads - 1)
    BY <1>2 DEF NewConnection, AdvanceNext
  <2>6. /\ nextConnId' \in 1..(MaxPeers + 1)
        /\ waiting' \in Nat
        /\ nextConnId' + waiting' <= arrived + 1
    BY <1>2 DEF NewConnection, Accept
  <2>7. /\ acceptorPc' = "idle" /\ serverPc' = "running" /\ idleFd' = idleFd
        /\ UNCHANGED <<numThreads, joined, shutting, closed, hangups, phase, quit,
                       batch, kept, uses, arrived, others, stolen>>
    BY <1>2 DEF NewConnection, Accept, otherVars
  <2> HIDE DEF TypeInv
  <2>8. TypeOK'
    BY <2>3, <2>4, <2>5, <2>6, <2>7 DEF Conns, TypeInv
  <2> QED
    BY <2>6, <2>7, <2>8 DEF TypeInv
<1>3. CASE TurnPeerAway
  <2> USE DEF TurnPeerAway, poolVars, connVars, loopVars, otherVars
  <2>1. CASE AcceptFails(Free)
    BY <1>3, <2>1 DEF AcceptFails
  <2>2. CASE CloseSpare
    BY <1>3, <2>2 DEF CloseSpare
  <2>3. CASE TurnAway(Free)
    <3>1. waiting' \in Nat /\ waiting' <= waiting
      BY <2>3 DEF TurnAway
    <3> QED BY <1>3, <2>3, <3>1 DEF TurnAway
  <2>4. CASE OpenSpare(Free)
    BY <1>3, <2>4 DEF OpenSpare
  <2> QED BY <1>3, <2>1, <2>2, <2>3, <2>4 DEF Refuse
<1>4. ASSUME NEW c \in Conns, Hangup(c)
      PROVE  TypeInv'
  BY <1>4, HandleCloseType DEF Hangup, acceptorVars, poolVars, otherVars
<1>5. ASSUME NEW c \in Conns, UserStep(c)
      PROVE  TypeInv'
  <2>1. CASE UserKeeps(c)
    BY <2>1 DEF UserKeeps, CountUse, acceptorVars, poolVars, loopVars
  <2>2. CASE UserDrops(c)
    BY <2>2 DEF UserDrops, acceptorVars, poolVars, connVars, loopVars
  <2>3. ASSUME NEW op \in UserOps, UserCalls(c, op)
        PROVE  TypeInv'
    BY <2>3, EnqueueType
    DEF UserCalls, CountUse, acceptorVars, poolVars, connVars
  <2> QED BY <1>5, <2>1, <2>2, <2>3 DEF UserStep
<1>6. ASSUME NEW l \in Loops, LoopStep(l)
      PROVE  TypeInv'
  <2>1. CASE Swap(l)
    BY <2>1, EmptySeq
    DEF Swap, InLoop, acceptorVars, poolVars, connVars, otherVars
  <2>2. CASE RunFunctor(l)
    <3> DEFINE f == Head(batch[l])
    <3>1. f \in Functors /\ batch' \in [Loops -> Seq(Functors)]
      BY <2>2, HeadTailProperties DEF RunFunctor
    <3>2. /\ inMap' \subseteq Conns
          /\ stage' \in [Conns -> {"unused", "made", "up", "down", "again"}]
          /\ closed' \subseteq Conns
          /\ pending' \in [Loops -> Seq(Functors)]
      <4>1. f.conn \in Conns
        BY <3>1, FunctorParts
      <4> HIDE DEF f
      <4>2. CASE \E s \in {"up", "down", "again"} : Becomes(f.conn, s)
        BY <4>1, <4>2 DEF Becomes
      <4>3. CASE RemoveInLoop(f.conn) /\ UNCHANGED <<stage, closed>>
        BY <4>1, <4>3, EnqueueType DEF RemoveInLoop
      <4>4. CASE HandleClose(f.conn)
        BY <4>1, <4>4, HandleCloseType
      <4>5. CASE UNCHANGED <<stage, inMap, closed, pending>>
        BY <4>5
      <4> QED
        BY <2>2, <4>2, <4>3, <4>4, <4>5 DEF RunFunctor, Effect, f
    <3> QED
      BY <2>2, <3>1, <3>2 DEF RunFunctor, acceptorVars, poolVars, otherVars
  <2>3. CASE EndTurn(l)
    BY <2>3 DEF EndTurn, acceptorVars, poolVars, connVars, otherVars
  <2>4. CASE DestroyLoop(l)
    BY <2>4, EmptySeq DEF DestroyLoop, acceptorVars, poolVars, connVars, otherVars
  <2> QED BY <1>6, <2>1, <2>2, <2>3, <2>4 DEF LoopStep
<1>7. CASE QuitBase
  BY <1>0, <1>7 DEF QuitBase, acceptorVars, poolVars, connVars, otherVars
<1>8. CASE BeginDestroy
  BY <1>8 DEF BeginDestroy, acceptorVars, poolVars, connVars, loopVars, otherVars
<1>9. CASE DestructorStep
  <2>1. ASSUME NEW c \in Conns, EraseConnection(c)
        PROVE  TypeInv'
    <3>1. pending' \in [Loops -> Seq(Functors)]
      BY <2>1, EnqueueType DEF EraseConnection, DestroyInLoop
    <3>2. stage' \in [Conns -> {"unused", "made", "up", "down", "again"}]
      BY <2>1 DEF EraseConnection, DestroyInLoop
    <3> QED
      BY <2>1, <3>1, <3>2 DEF EraseConnection, acceptorVars, poolVars, otherVars
  <2>2. CASE QuitThread
    BY <2>2 DEF QuitThread, TellToQuit, acceptorVars, poolVars, connVars,
                otherVars, Loops
  <2>3. CASE JoinThread
    BY <2>3 DEF JoinThread, acceptorVars, connVars, loopVars, otherVars
  <2>4. CASE EndDestroy
    <3>1. acceptorPc = "idle" /\ UNCHANGED acceptorPc
      BY <2>4 DEF EndDestroy, CloseAcceptor
    <3>2. waiting' = 0 /\ idleFd' = FALSE /\ serverPc' = "gone"
      BY <2>4 DEF EndDestroy, CloseAcceptor
    <3>3. nextConnId + 0 <= arrived + 1
      OBVIOUS
    <3>4. UNCHANGED <<poolVars, connVars, loopVars, otherVars>>
      BY <2>4 DEF EndDestroy
    <3> HIDE DEF TypeInv
    <3>5. TypeOK'
      BY <3>1, <3>2, <3>4 DEF TypeInv, poolVars, connVars, loopVars, otherVars
    <3> QED
      BY <3>1, <3>2, <3>3, <3>4, <3>5 DEF TypeInv, connVars, otherVars
  <2> QED BY <1>9, <2>1, <2>2, <2>3, <2>4 DEF DestructorStep
<1>10. CASE PeerConnects
  BY <1>10 DEF PeerConnects, poolVars, connVars, loopVars
<1>11. CASE OtherOpens
  BY <1>11 DEF OtherOpens, acceptorVars, poolVars, connVars, loopVars
<1>12. CASE OtherCloses
  BY <1>12 DEF OtherCloses, acceptorVars, poolVars, connVars, loopVars
<1>13. CASE Over \/ UNCHANGED vars
  BY <1>13 DEF Over, vars, acceptorVars, poolVars, connVars, loopVars, otherVars
<1> QED
  BY <1>1, <1>2, <1>3, <1>4, <1>5, <1>6, <1>7, <1>8, <1>9, <1>10, <1>11, <1>12,
     <1>13 DEF Next

\* The invariant of the first layer.
LEMMA TypeInvariant == Spec => []TypeInv
BY TypeInit, TypeStep, PTL DEF Spec

\* Every variable of the server, its pool, its acceptor and its connections
\* keeps its type, whatever the threads do (tcpServer.cc, acceptor.cc,
\* eventLoopThreadPool.cc).
THEOREM TypeCorrect == Spec => []TypeOK
<1>1. TypeInv => TypeOK
  BY DEF TypeInv
<1> QED BY <1>1, TypeInvariant, PTL

-----------------------------------------------------------------------------
(* The loops that run at each point of the server's life.                  *)

\* A loop that is not there yet, the threads that have been joined, and the base
\* loop, on whose thread the destructor runs.
LoopsInv ==
  /\ \A l \in Loops : l > numThreads => phase[l] = "none"
  /\ \A l \in 1..joined : phase[l] = "destroyed"
  /\ serverPc \notin {"new", "running"} => phase[Base] \in {"stopped", "destroyed"}
  /\ serverPc = "gone" => joined = numThreads
  /\ phase[Base] = "destroyed" => serverPc = "gone"

\* No loop runs before start() but the base loop.
LEMMA LoopsInit == Init => LoopsInv
BY TcpServerAssumption DEF Init, LoopsInv, Loops, Base

\* The threads end one by one, and the destructor waits for them in that order.
LEMMA LoopsStep ==
  ASSUME TypeInv, LoopsInv, [Next]_vars
  PROVE  LoopsInv'
<1> USE TcpServerAssumption DEF LoopsInv
<1>a. /\ numThreads \in 0..MaxThreads /\ joined \in 0..numThreads
      /\ phase \in [Loops -> {"none", "poll", "run", "stopped", "destroyed"}]
      /\ Base \in Loops /\ 1..joined \subseteq Loops
  BY DEF TypeInv, TypeOK, Loops, Base
<1>1. CASE Start
  <2>1. numThreads' \in 0..MaxThreads /\ serverPc' = "running" /\ joined' = joined
    BY <1>1 DEF Start
  <2>2. phase' = [l \in Loops |-> IF l \in 1..numThreads' THEN "poll" ELSE phase[l]]
    BY <1>1 DEF Start
  <2>3. joined = 0 /\ numThreads = 0
    BY <1>1, <1>a DEF Start, TypeInv
  <2>4. \A l \in Loops : l > numThreads' => phase'[l] = "none"
    BY <2>1, <2>2, <2>3 DEF Loops
  <2>5. phase'[Base] = phase[Base] /\ phase[Base] # "destroyed"
    BY <1>1, <1>a, <2>1, <2>2 DEF Start, Base
  <2> QED BY <2>1, <2>3, <2>4, <2>5
<1>2. CASE UNCHANGED <<serverPc, numThreads, joined, phase>>
  BY <1>2
<1>3. ASSUME NEW l \in Loops, LoopStep(l)
      PROVE  LoopsInv'
  <2>1. UNCHANGED <<serverPc, numThreads, joined>>
    BY <1>3 DEF LoopStep, Swap, RunFunctor, EndTurn, DestroyLoop, poolVars
  <2>2. \/ UNCHANGED phase
        \/ /\ phase[l] \in {"poll", "run"}
           /\ \E p \in {"poll", "run", "stopped"} : phase' = [phase EXCEPT ![l] = p]
        \/ /\ phase[l] = "stopped" /\ (l = Base => serverPc = "gone")
           /\ phase' = [phase EXCEPT ![l] = "destroyed"]
    BY <1>3 DEF LoopStep, Swap, RunFunctor, EndTurn, DestroyLoop
  <2> QED BY <1>a, <2>1, <2>2
<1>4. CASE BeginDestroy
  BY <1>4, <1>a DEF BeginDestroy, poolVars, loopVars
<1>5. CASE QuitThread
  BY <1>5, <1>a DEF QuitThread, poolVars
<1>6. CASE JoinThread
  BY <1>6, <1>a DEF JoinThread, HasEnded, loopVars
<1>7. CASE EndDestroy
  BY <1>7, <1>a DEF EndDestroy, poolVars, loopVars
<1>8. ASSUME NEW c \in Conns, Hangup(c) \/ UserStep(c) \/ EraseConnection(c)
      PROVE  UNCHANGED <<serverPc, numThreads, joined, phase>>
  BY <1>8 DEF Hangup, UserStep, UserKeeps, UserDrops, UserCalls, EraseConnection,
              poolVars, loopVars
<1>9. CASE NewConnection \/ TurnPeerAway \/ QuitBase \/ PeerConnects
             \/ OtherOpens \/ OtherCloses \/ Over \/ UNCHANGED vars
  BY <1>2, <1>9 DEF NewConnection, TurnPeerAway, QuitBase, PeerConnects,
                    OtherOpens, OtherCloses, Over, vars, poolVars, loopVars
<1> QED
  BY <1>1, <1>2, <1>3, <1>4, <1>5, <1>6, <1>7, <1>8, <1>9
  DEF Next, DestructorStep

\* The invariant of the second layer.
LEMMA LoopsInvariant == Spec => []LoopsInv
<1>1. TypeInv /\ LoopsInv /\ [Next]_vars => LoopsInv'
  BY LoopsStep
<1> QED BY LoopsInit, <1>1, TypeInvariant, PTL DEF Spec

\* The destructor has joined every thread when the server is gone.
LEMMA Outlives ==
  ASSUME TypeInv, LoopsInv
  PROVE  ServerOutlivesItsLoops
<1> SUFFICES ASSUME serverPc = "gone", NEW l \in Loops
             PROVE  phase[l] \notin {"poll", "run"}
  BY DEF ServerOutlivesItsLoops
<1>1. numThreads \in Nat /\ joined = numThreads
  BY TcpServerAssumption DEF TypeInv, TypeOK, LoopsInv
<1>2. l = Base \/ l \in 1..joined \/ l > numThreads
  BY <1>1, TcpServerAssumption DEF Loops, Base
<1> QED BY <1>2 DEF LoopsInv

\* The close callback's raw `this' is good whatever the number of loops and
\* however their turns interleave with the destructor (tcpServer.cc:84, 96).
THEOREM ServerOutlives == Spec => []ServerOutlivesItsLoops
BY Outlives, TypeInvariant, LoopsInvariant, PTL

-----------------------------------------------------------------------------
(* The turns of the pool.                                                  *)

Given(l) == {c \in 1..(nextConnId - 1) : loopOf[c] = l}

\* In the middle of a round the loops before next_ have one connection more.
TurnsInv ==
  \E k \in Nat : \A l \in 1..numThreads :
     Cardinality(Given(l)) = IF l <= next THEN k + 1 ELSE k

\* Nobody has had a turn.
LEMMA TurnsInit == Init => TurnsInv
<1> SUFFICES ASSUME Init PROVE TurnsInv
  OBVIOUS
<1>1. 1..numThreads = {}
  BY DEF Init
<1> QED BY <1>1 DEF TurnsInv

\* A connection is given to the loop whose turn it is, and to no other.
LEMMA GivenStep ==
  ASSUME TypeInv, NewConnection
  PROVE  \A l \in Loops :
            Cardinality(Given(l)') = IF l = NextLoop THEN Cardinality(Given(l)) + 1
                                                     ELSE Cardinality(Given(l))
<1> SUFFICES ASSUME NEW l \in Loops
             PROVE  Cardinality(Given(l)') =
                       IF l = NextLoop THEN Cardinality(Given(l)) + 1
                                       ELSE Cardinality(Given(l))
  OBVIOUS
<1>1. nextConnId \in Nat \ {0} /\ nextConnId' = nextConnId + 1
  BY DEF TypeInv, TypeOK, NewConnection
<1>2. /\ nextConnId \in Conns
      /\ loopOf' = [loopOf EXCEPT ![nextConnId] = NextLoop]
      /\ loopOf \in [Conns -> Loops]
  BY TcpServerAssumption DEF TypeInv, TypeOK, NewConnection, Accept, Conns
<1>3. 1..(nextConnId' - 1) = 1..(nextConnId - 1) \cup {nextConnId}
  BY <1>1
<1>4. \A c \in 1..(nextConnId - 1) : loopOf'[c] = loopOf[c]
  <2> TAKE c \in 1..(nextConnId - 1)
  <2>1. c \in Conns /\ c # nextConnId
    BY <1>1, <1>2, TcpServerAssumption DEF Conns
  <2> QED BY <1>2, <2>1
<1>5. loopOf'[nextConnId] = NextLoop
  BY <1>2
<1>6. Given(l)' = IF l = NextLoop THEN Given(l) \cup {nextConnId} ELSE Given(l)
  BY <1>3, <1>4, <1>5 DEF Given
<1>7. IsFiniteSet(Given(l)) /\ nextConnId \notin Given(l)
  <2>1. IsFiniteSet(1..(nextConnId - 1)) /\ nextConnId \notin 1..(nextConnId - 1)
    BY <1>1, FS_Interval
  <2> QED BY <2>1, FS_Subset DEF Given
<1>8. Cardinality(Given(l) \cup {nextConnId}) = Cardinality(Given(l)) + 1
  BY <1>7, FS_AddElement
<1> QED BY <1>6, <1>8

\* Only newConnection takes a turn, and it takes the next one.
LEMMA TurnsStep ==
  ASSUME TypeInv, TurnsInv, [Next]_vars
  PROVE  TurnsInv'
<1>1. CASE Start
  <2>1. /\ nextConnId = 1 /\ nextConnId' = 1 /\ next' = next
    BY <1>1 DEF Start, TypeInv, connVars
  <2>2. next = 0 /\ numThreads' \in Nat
    <3>1. numThreads = 0 /\ numThreads' \in 0..MaxThreads
      BY <1>1 DEF Start, TypeInv
    <3>2. next = 0 \/ next \in 0..(numThreads - 1)
      BY DEF TypeInv, TypeOK
    <3> QED BY <3>1, <3>2, TcpServerAssumption
  <2>3. \A l \in 1..numThreads' : Cardinality(Given(l)') = 0
    <3> TAKE l \in 1..numThreads'
    <3>1. Given(l)' = {}
      BY <2>1 DEF Given
    <3> QED BY <3>1, FS_EmptySet
  <2>4. \A l \in 1..numThreads' : ~(l <= next')
    BY <2>1, <2>2
  <2>5. \A l \in 1..numThreads' :
           Cardinality(Given(l)') = IF l <= next' THEN 0 + 1 ELSE 0
    BY <2>3, <2>4
  <2> QED BY <2>5 DEF TurnsInv
<1>2. CASE NewConnection
  <2>1. CASE numThreads = 0
    <3>1. 1..numThreads' = {}
      BY <1>2, <2>1 DEF NewConnection
    <3> QED BY <3>1 DEF TurnsInv
  <2>2. CASE numThreads # 0
    <3>1. /\ numThreads \in Nat \ {0} /\ numThreads' = numThreads
          /\ next \in 0..(numThreads - 1) /\ 1..numThreads \subseteq Loops
      BY <1>2, <2>2, TcpServerAssumption DEF TypeInv, TypeOK, NewConnection, Loops
    <3>2. NextLoop = next + 1
      BY <2>2 DEF NextLoop
    <3>3. next' = IF next + 1 >= numThreads THEN 0 ELSE next + 1
      BY <1>2 DEF NewConnection, AdvanceNext
    <3>4. PICK k \in Nat : \A l \in 1..numThreads :
             Cardinality(Given(l)) = IF l <= next THEN k + 1 ELSE k
      BY DEF TurnsInv
    <3>5. \A l \in 1..numThreads :
             Cardinality(Given(l)') = IF l <= next + 1 THEN k + 1 ELSE k
      <4> TAKE l \in 1..numThreads
      <4>1. Cardinality(Given(l)') = IF l = next + 1 THEN Cardinality(Given(l)) + 1
                                                     ELSE Cardinality(Given(l))
        BY <1>2, <3>1, <3>2, GivenStep
      <4> QED BY <3>1, <3>4, <4>1
    <3>6. CASE next + 1 >= numThreads
      <4>1. \A l \in 1..numThreads' :
               Cardinality(Given(l)') = IF l <= next' THEN (k + 1) + 1 ELSE k + 1
        BY <3>1, <3>3, <3>5, <3>6
      <4> QED BY <4>1 DEF TurnsInv
    <3>7. CASE ~(next + 1 >= numThreads)
      <4>1. \A l \in 1..numThreads' :
               Cardinality(Given(l)') = IF l <= next' THEN k + 1 ELSE k
        BY <3>1, <3>3, <3>5, <3>7
      <4> QED BY <4>1 DEF TurnsInv
    <3> QED BY <3>6, <3>7
  <2> QED BY <2>1, <2>2
<1>3. CASE UNCHANGED <<numThreads, next, nextConnId, loopOf>>
  BY <1>3 DEF TurnsInv, Given
<1>4. ASSUME NEW c \in Conns, Hangup(c) \/ UserStep(c) \/ EraseConnection(c)
      PROVE  UNCHANGED <<numThreads, next, nextConnId, loopOf>>
  BY <1>4 DEF Hangup, UserStep, UserKeeps, UserDrops, UserCalls, EraseConnection,
              poolVars, connVars
<1>5. ASSUME NEW l \in Loops, LoopStep(l)
      PROVE  UNCHANGED <<numThreads, next, nextConnId, loopOf>>
  BY <1>5 DEF LoopStep, Swap, RunFunctor, EndTurn, DestroyLoop, poolVars, connVars
<1>6. CASE TurnPeerAway \/ QuitBase \/ BeginDestroy \/ QuitThread \/ JoinThread
             \/ EndDestroy \/ PeerConnects \/ OtherOpens \/ OtherCloses \/ Over
             \/ UNCHANGED vars
  BY <1>3, <1>6 DEF TurnPeerAway, QuitBase, BeginDestroy, QuitThread, JoinThread,
                    EndDestroy, PeerConnects, OtherOpens, OtherCloses, Over, vars,
                    poolVars, connVars
<1> QED
  BY <1>1, <1>2, <1>3, <1>4, <1>5, <1>6 DEF Next, DestructorStep

\* The invariant of the third layer.
LEMMA TurnsInvariant == Spec => []TurnsInv
<1>1. TypeInv /\ TurnsInv /\ [Next]_vars => TurnsInv'
  BY TurnsStep
<1> QED BY TurnsInit, <1>1, TypeInvariant, PTL DEF Spec

\* No loop of the pool ever has two connections more than another, for any
\* number of loops and connections (eventLoopThreadPool.cc:42-55).
THEOREM TurnsAreFair == Spec => []Balanced
<1>1. TurnsInv => Balanced
  BY DEF TurnsInv, Given, Balanced
<1> QED BY <1>1, TurnsInvariant, PTL

-----------------------------------------------------------------------------
(* What a loop has still to run: the rest of doPendingFunctors' vector and *)
(* then pendingFunctors_, as one queue.                                    *)

Queue(l) == batch[l] \o pending[l]

Members(s) == {s[i] : i \in 1..Len(s)}

\* An empty queue has no members.
LEMMA MembersEmpty == Members(<<>>) = {}
BY DEF Members

\* Appending adds one member.
LEMMA MembersAppend ==
  ASSUME NEW S, NEW s \in Seq(S), NEW f \in S
  PROVE  Members(Append(s, f)) = Members(s) \cup {f}
<1>1. Len(Append(s, f)) = Len(s) + 1 /\ Append(s, f)[Len(s) + 1] = f
  BY AppendProperties
<1>2. \A i \in 1..Len(s) : Append(s, f)[i] = s[i]
  BY AppendProperties
<1>3. Len(s) \in Nat
  BY LenProperties
<1>4. 1..(Len(s) + 1) = 1..Len(s) \cup {Len(s) + 1}
  BY <1>3
<1> QED BY <1>1, <1>2, <1>3, <1>4 DEF Members

\* The members of two queues, one behind the other.
LEMMA MembersConcat ==
  ASSUME NEW S, NEW s \in Seq(S), NEW t \in Seq(S)
  PROVE  Members(s \o t) = Members(s) \cup Members(t)
<1>1. Len(s) \in Nat /\ Len(t) \in Nat /\ Len(s \o t) = Len(s) + Len(t)
  BY LenProperties, ConcatProperties
<1>2. \A i \in 1..Len(s) : (s \o t)[i] = s[i]
  BY <1>1, ConcatProperties
<1>3. \A i \in 1..Len(t) : (s \o t)[Len(s) + i] = t[i]
  <2> TAKE i \in 1..Len(t)
  <2>1. Len(s) + i \in 1..(Len(s) + Len(t)) /\ Len(s) + i > Len(s)
    BY <1>1
  <2>2. (s \o t)[Len(s) + i] = t[(Len(s) + i) - Len(s)]
    BY <1>1, <2>1, ConcatProperties
  <2> QED BY <1>1, <2>2
<1>4. ASSUME NEW f \in Members(s \o t)
      PROVE  f \in Members(s) \cup Members(t)
  <2>1. PICK i \in 1..(Len(s) + Len(t)) : f = (s \o t)[i]
    BY <1>1, <1>4 DEF Members
  <2>2. CASE i <= Len(s)
    BY <1>1, <1>2, <2>1, <2>2 DEF Members
  <2>3. CASE i > Len(s)
    <3>1. i - Len(s) \in 1..Len(t) /\ Len(s) + (i - Len(s)) = i
      BY <1>1, <2>3
    <3> QED BY <1>3, <2>1, <3>1 DEF Members
  <2> QED BY <1>1, <2>2, <2>3
<1>5. ASSUME NEW i \in 1..Len(s)
      PROVE  s[i] \in Members(s \o t)
  BY <1>1, <1>2 DEF Members
<1>6. ASSUME NEW i \in 1..Len(t)
      PROVE  t[i] \in Members(s \o t)
  <2>1. Len(s) + i \in 1..Len(s \o t)
    BY <1>1
  <2> QED BY <1>3, <2>1 DEF Members
<1> QED BY <1>4, <1>5, <1>6 DEF Members

\* The tail of a sequence, position by position.
LEMMA TailElements ==
  ASSUME NEW S, NEW s \in Seq(S), s # <<>>
  PROVE  /\ Head(s) \in S /\ Head(s) = s[1]
         /\ Tail(s) \in Seq(S)
         /\ Len(s) \in Nat \ {0} /\ Len(Tail(s)) = Len(s) - 1
         /\ \A i \in 1..(Len(s) - 1) : Tail(s)[i] = s[i + 1]
BY HeadTailProperties, LenProperties, EmptySeq

\* A queue has its head and the members of its tail.
LEMMA MembersTail ==
  ASSUME NEW S, NEW s \in Seq(S), s # <<>>
  PROVE  Members(s) = {Head(s)} \cup Members(Tail(s))
<1>1. /\ Head(s) = s[1] /\ Len(s) \in Nat \ {0} /\ Len(Tail(s)) = Len(s) - 1
      /\ \A i \in 1..(Len(s) - 1) : Tail(s)[i] = s[i + 1]
  BY TailElements
<1>2. ASSUME NEW i \in 1..Len(s)
      PROVE  s[i] \in {Head(s)} \cup Members(Tail(s))
  <2>1. CASE i = 1
    BY <1>1, <2>1
  <2>2. CASE i # 1
    <3>1. i - 1 \in 1..(Len(s) - 1) /\ (i - 1) + 1 = i
      BY <1>1, <2>2
    <3>2. Tail(s)[i - 1] = s[i]
      BY <1>1, <3>1
    <3> QED BY <1>1, <3>1, <3>2 DEF Members
  <2> QED BY <2>1, <2>2
<1>3. ASSUME NEW i \in 1..(Len(s) - 1)
      PROVE  Tail(s)[i] \in Members(s)
  BY <1>1 DEF Members
<1>4. Head(s) \in Members(s)
  BY <1>1 DEF Members
<1> QED BY <1>1, <1>2, <1>3, <1>4 DEF Members

\* Appending to the second of two concatenated sequences appends to both.
LEMMA AppendConcat ==
  ASSUME NEW s \in Seq(Functors), NEW t \in Seq(Functors), NEW f \in Functors
  PROVE  s \o Append(t, f) = Append(s \o t, f)
BY SMTT(30), ConcatProperties, AppendProperties

\* The head and the tail of a concatenation are those of its first part.
LEMMA HeadTailConcat ==
  ASSUME NEW s \in Seq(Functors), NEW t \in Seq(Functors), s # <<>>
  PROVE  /\ s \o t # <<>>
         /\ Head(s \o t) = Head(s)
         /\ Tail(s \o t) = Tail(s) \o t
BY SMTT(30), ConcatProperties, HeadTailProperties

\* An empty queue adds nothing to another.
LEMMA ConcatNothing ==
  ASSUME NEW s \in Seq(Functors)
  PROVE  <<>> \o s = s /\ s \o <<>> = s
BY ConcatEmptySeq

\* Queues are sequences of functors, and what a loop holds is in its queue.
LEMMA QueueType ==
  ASSUME batch \in [Loops -> Seq(Functors)], pending \in [Loops -> Seq(Functors)],
         NEW l \in Loops
  PROVE  Queue(l) \in Seq(Functors) /\ Held(l) = Members(Queue(l))
<1>1. batch[l] \in Seq(Functors) /\ pending[l] \in Seq(Functors)
  OBVIOUS
<1>2. Queue(l) \in Seq(Functors)
  BY <1>1, ConcatProperties DEF Queue
<1>3. Held(l) = Members(batch[l]) \cup Members(pending[l])
  BY DEF Held, Members
<1> QED BY <1>1, <1>2, <1>3, MembersConcat DEF Queue

\* The same after a step.
LEMMA QueueTypeAfter ==
  ASSUME batch' \in [Loops -> Seq(Functors)], pending' \in [Loops -> Seq(Functors)],
         NEW l \in Loops
  PROVE  Queue(l)' \in Seq(Functors) /\ Held(l)' = Members(Queue(l)')
<1>1. batch'[l] \in Seq(Functors) /\ pending'[l] \in Seq(Functors)
  OBVIOUS
<1>2. Queue(l)' \in Seq(Functors)
  BY <1>1, ConcatProperties DEF Queue
<1>3. Held(l)' = Members(batch'[l]) \cup Members(pending'[l])
  BY DEF Held, Members
<1> QED BY <1>1, <1>2, <1>3, MembersConcat DEF Queue

-----------------------------------------------------------------------------
(* What a step does to the queues.                                         *)

\* The local vector lives only while its functors run.
BatchInv == \A l \in Loops : phase[l] # "run" => batch[l] = <<>>

\* Nobody knows a connection that has not been made.
KnownInv ==
  /\ \A c \in Conns : c >= nextConnId => stage[c] = "unused" /\ c \notin inMap \cup kept
  /\ \A l \in Loops : \A f \in Held(l) : f.conn < nextConnId

\* A functor f that a step may queue in loop l.
Adds(l, f) ==
  /\ f \in Functors
  /\ f.conn < nextConnId'
  /\ \/ /\ NewConnection
        /\ f = Functor("connectEstablished", nextConnId)
        /\ l = NextLoop /\ l # Base
     \/ /\ nextConnId' = nextConnId
        /\ Referenced(f.conn) \/ Hangup(f.conn)
        /\ f.op \in {"connectDestroyed"} \cup UserOps
        /\ l = loopOf[f.conn]
     \/ /\ nextConnId' = nextConnId
        /\ Referenced(f.conn) \/ Hangup(f.conn)
        /\ f.op = "removeConnectionInLoop"
        /\ l = Base
        /\ f.conn \in closed'

\* The step queues a functor of c, in one loop.
AddsOne(c) ==
  \E l \in Loops, f \in Functors :
     /\ f.conn = c
     /\ Adds(l, f)
     /\ pending' = [pending EXCEPT ![l] = Append(@, f)]

\* removeConnectionInLoop queues one connectDestroyed.
LEMMA RemoveAdds ==
  ASSUME TypeInv, NEW c \in Conns, c < nextConnId, nextConnId' = nextConnId,
         Referenced(c) \/ Hangup(c),
         Enqueue(loopOf[c], "connectDestroyed", c)
  PROVE  AddsOne(c)
<1> DEFINE f == Functor("connectDestroyed", c)
<1>1. f \in Functors /\ f.conn = c /\ f.op = "connectDestroyed" /\ loopOf[c] \in Loops
  BY FunctorType DEF Functor, TypeInv, TypeOK
<1>2. Adds(loopOf[c], f)
  BY <1>1 DEF Adds
<1>3. pending' = [pending EXCEPT ![loopOf[c]] = Append(@, f)]
  BY DEF Enqueue
<1> QED BY <1>1, <1>2, <1>3 DEF AddsOne

\* handleClose queues one functor, for the base loop or for its own.
LEMMA HandleCloseAdds ==
  ASSUME TypeInv, NEW c \in Conns, c < nextConnId, nextConnId' = nextConnId,
         Referenced(c) \/ Hangup(c),
         HandleClose(c)
  PROVE  AddsOne(c)
<1>1. CASE loopOf[c] = Base
  BY <1>1, RemoveAdds DEF HandleClose, RemoveInLoop
<1>2. CASE loopOf[c] # Base
  <2> DEFINE f == Functor("removeConnectionInLoop", c)
  <2>1. /\ f \in Functors /\ f.conn = c /\ f.op = "removeConnectionInLoop"
        /\ Base \in Loops
    BY FunctorType, TcpServerAssumption DEF Functor, Loops, Base
  <2>2. c \in closed' /\ pending' = [pending EXCEPT ![Base] = Append(@, f)]
    BY <1>2 DEF HandleClose, Enqueue
  <2>3. Adds(Base, f)
    BY <2>1, <2>2 DEF Adds
  <2> QED BY <2>1, <2>2, <2>3 DEF AddsOne
<1> QED BY <1>1, <1>2

\* A functor queued, nothing run.
LEMMA QueueAdd ==
  ASSUME TypeInv, NEW k \in Loops, NEW f \in Functors, UNCHANGED batch,
         pending' = [pending EXCEPT ![k] = Append(@, f)], NEW m \in Loops
  PROVE  Queue(m)' = IF m = k THEN Append(Queue(m), f) ELSE Queue(m)
<1>1. batch[m] \in Seq(Functors) /\ pending[m] \in Seq(Functors)
  BY DEF TypeInv, TypeOK
<1>2. pending'[m] = IF m = k THEN Append(pending[m], f) ELSE pending[m]
  BY DEF TypeInv, TypeOK
<1>3. batch[m] \o Append(pending[m], f) = Append(batch[m] \o pending[m], f)
  BY <1>1, AppendConcat
<1>4. Queue(m)' = batch[m] \o pending'[m]
  BY DEF Queue
<1>5. CASE m = k
  <2>1. pending'[m] = Append(pending[m], f)
    BY <1>2, <1>5
  <2> QED BY <1>3, <1>4, <1>5, <2>1 DEF Queue
<1>6. CASE m # k
  <2>1. pending'[m] = pending[m]
    BY <1>2, <1>6
  <2>2. batch[m] \o pending'[m] = Queue(m)
    BY <2>1 DEF Queue
  <2> QED BY <1>4, <1>6, <2>2
<1> QED BY <1>5, <1>6

\* The functor that runs is the first of the loop's queue ...
LEMMA RunHead ==
  ASSUME TypeInv, NEW l \in Loops, RunFunctor(l)
  PROVE  /\ Queue(l) # <<>> /\ Head(Queue(l)) = Head(batch[l])
         /\ Head(batch[l]) \in Functors /\ Head(batch[l]) \in Held(l)
<1>1. batch[l] \in Seq(Functors) /\ pending[l] \in Seq(Functors) /\ batch[l] # <<>>
  BY DEF RunFunctor, TypeInv, TypeOK
<1>2. Queue(l) # <<>> /\ Head(Queue(l)) = Head(batch[l])
  BY <1>1, HeadTailConcat DEF Queue
<1>3. Head(batch[l]) \in Functors
  BY <1>1, TailElements
<1>4. Queue(l) \in Seq(Functors) /\ Held(l) = Members(Queue(l))
  BY QueueType DEF TypeInv, TypeOK
<1> QED BY <1>2, <1>3, <1>4, MembersTail

\* ... which gets shorter by it.
LEMMA QueueRun ==
  ASSUME TypeInv, NEW l \in Loops, RunFunctor(l), NEW m \in Loops
  PROVE  batch'[m] \o pending[m] = IF m = l THEN Tail(Queue(m)) ELSE Queue(m)
<1>1. /\ batch[l] \in Seq(Functors) /\ pending[l] \in Seq(Functors)
      /\ batch[l] # <<>>
  BY DEF RunFunctor, TypeInv, TypeOK
<1>2. batch'[m] = IF m = l THEN Tail(batch[m]) ELSE batch[m]
  BY DEF RunFunctor, TypeInv, TypeOK
<1>3. Tail(batch[l]) \o pending[l] = Tail(batch[l] \o pending[l])
  BY <1>1, HeadTailConcat
<1> QED BY <1>2, <1>3 DEF Queue

\* A functor may queue another, of the same connection.
LEMMA EffectAdds ==
  ASSUME TypeInv, NEW c \in Conns, c < nextConnId, nextConnId' = nextConnId,
         Referenced(c) \/ Hangup(c),
         NEW op, Effect(op, c)
  PROVE  UNCHANGED pending \/ AddsOne(c)
<1>1. CASE RemoveInLoop(c)
  BY <1>1, RemoveAdds DEF RemoveInLoop
<1>2. CASE HandleClose(c)
  BY <1>2, HandleCloseAdds
<1>3. CASE \E s \in {"up", "down", "again"} : Becomes(c, s)
  BY <1>3 DEF Becomes
<1> QED BY <1>1, <1>2, <1>3 DEF Effect

\* Running a functor queues nothing, or one functor of the same connection.
LEMMA RunAdds ==
  ASSUME TypeInv, KnownInv, NEW l \in Loops, RunFunctor(l)
  PROVE  UNCHANGED pending \/ AddsOne(Head(batch[l]).conn)
<1>1. Head(batch[l]) \in Functors /\ Head(batch[l]) \in Held(l)
  BY RunHead
<1>2. /\ Head(batch[l]).conn \in Conns /\ Head(batch[l]).conn < nextConnId
      /\ nextConnId' = nextConnId
  BY <1>1, FunctorParts DEF KnownInv, RunFunctor
<1>3. /\ Effect(Head(batch[l]).op, Head(batch[l]).conn)
      /\ Referenced(Head(batch[l]).conn)
  BY DEF RunFunctor
<1> QED BY <1>2, <1>3, EffectAdds

\* Running a functor takes it from its queue, and may add one behind the others.
LEMMA QueueAfterRun ==
  ASSUME TypeInv, KnownInv, NEW l \in Loops, RunFunctor(l), NEW m \in Loops
  PROVE  LET rest == IF m = l THEN Tail(Queue(m)) ELSE Queue(m)
         IN  \/ Queue(m)' = rest
             \/ \E f : Adds(m, f) /\ Queue(m)' = Append(rest, f)
<1> DEFINE rest == batch'[m] \o pending[m]
<1>1. rest = IF m = l THEN Tail(Queue(m)) ELSE Queue(m)
  BY QueueRun
<1>2. Queue(m)' = batch'[m] \o pending'[m]
  BY DEF Queue
<1>3. ASSUME UNCHANGED pending
      PROVE  Queue(m)' = rest
  BY <1>2, <1>3
<1>4. ASSUME NEW k \in Loops, NEW f \in Functors, Adds(k, f),
             pending' = [pending EXCEPT ![k] = Append(@, f)]
      PROVE  Queue(m)' = rest \/ (Adds(m, f) /\ Queue(m)' = Append(rest, f))
  <2>1. batch'[m] \in Seq(Functors) /\ pending[m] \in Seq(Functors)
    BY HeadTailProperties DEF RunFunctor, TypeInv, TypeOK
  <2>2. batch'[m] \o Append(pending[m], f) = Append(rest, f)
    BY <2>1, AppendConcat
  <2>3. CASE m = k
    <3>1. pending'[m] = Append(pending[m], f)
      BY <1>4, <2>3 DEF TypeInv, TypeOK
    <3>2. Queue(m)' = Append(rest, f)
      BY <1>2, <2>2, <3>1
    <3> QED BY <1>4, <2>3, <3>2
  <2>4. CASE m # k
    <3>1. pending'[m] = pending[m]
      BY <1>4, <2>4 DEF TypeInv, TypeOK
    <3> QED BY <1>2, <3>1
  <2> QED BY <2>3, <2>4
<1> HIDE DEF rest
<1>5. Queue(m)' = rest \/ \E f : Adds(m, f) /\ Queue(m)' = Append(rest, f)
  <2>1. UNCHANGED pending \/ AddsOne(Head(batch[l]).conn)
    BY RunAdds
  <2>2. CASE UNCHANGED pending
    BY <1>3, <2>2
  <2> QED BY <1>4, <2>1, <2>2 DEF AddsOne
<1> QED BY <1>1, <1>5

\* What one step makes of the queue of loop m.
LEMMA QueueStep ==
  ASSUME TypeInv, BatchInv, KnownInv, [Next]_vars, NEW m \in Loops
  PROVE  \/ Queue(m)' = Queue(m)
         \/ \E f : Adds(m, f) /\ Queue(m)' = Append(Queue(m), f)
         \/ RunFunctor(m) /\ Queue(m)' = Tail(Queue(m))
         \/ RunFunctor(m) /\ \E f : Adds(m, f)
                                    /\ Queue(m)' = Append(Tail(Queue(m)), f)
         \/ phase'[m] = "destroyed" /\ Queue(m)' = <<>>
<1>0. /\ batch[m] \in Seq(Functors) /\ pending[m] \in Seq(Functors)
      /\ batch \in [Loops -> Seq(Functors)] /\ pending \in [Loops -> Seq(Functors)]
      /\ phase \in [Loops -> {"none", "poll", "run", "stopped", "destroyed"}]
  BY DEF TypeInv, TypeOK
<1>1. ASSUME NEW c \in Conns, AddsOne(c), UNCHANGED batch
      PROVE  \/ Queue(m)' = Queue(m)
             \/ \E f : Adds(m, f) /\ Queue(m)' = Append(Queue(m), f)
  BY <1>1, QueueAdd DEF AddsOne
<1>2. CASE UNCHANGED <<pending, batch>>
  BY <1>2 DEF Queue
<1>3. CASE NewConnection
  <2>1. CASE NextLoop = Base
    BY <1>2, <1>3, <2>1 DEF NewConnection
  <2>2. CASE NextLoop # Base
    <3> DEFINE f == Functor("connectEstablished", nextConnId)
    <3>1. nextConnId \in Conns /\ nextConnId < nextConnId'
      BY <1>3, TcpServerAssumption DEF NewConnection, Accept, Conns, TypeInv, TypeOK
    <3>2. f \in Functors /\ f.conn = nextConnId
      BY <3>1, FunctorType DEF Functor
    <3>3. NextLoop \in Loops
      BY NextLoopType DEF TypeInv
    <3>4. pending' = [pending EXCEPT ![NextLoop] = Append(@, f)] /\ UNCHANGED batch
      BY <1>3, <2>2 DEF NewConnection, Enqueue
    <3>5. Adds(NextLoop, f)
      BY <1>3, <2>2, <3>1, <3>2 DEF Adds
    <3> QED BY <3>2, <3>3, <3>4, <3>5, QueueAdd
  <2> QED BY <2>1, <2>2
<1>4. ASSUME NEW c \in Conns, Hangup(c)
      PROVE  AddsOne(c) /\ UNCHANGED batch
  <2>1. c < nextConnId
    BY <1>4 DEF Hangup, Registered, KnownInv, TypeInv, TypeOK, Conns
  <2>2. HandleClose(c) /\ nextConnId' = nextConnId /\ UNCHANGED batch
    BY <1>4 DEF Hangup
  <2> QED BY <1>4, <2>1, <2>2, HandleCloseAdds
<1>5. ASSUME NEW c \in Conns, UserStep(c)
      PROVE  UNCHANGED batch /\ (UNCHANGED pending \/ AddsOne(c))
  <2>1. CASE UserKeeps(c) \/ UserDrops(c)
    BY <2>1 DEF UserKeeps, UserDrops, loopVars
  <2>2. ASSUME NEW op \in UserOps, UserCalls(c, op)
        PROVE  AddsOne(c) /\ UNCHANGED batch
    <3> DEFINE f == Functor(op, c)
    <3>1. c < nextConnId /\ nextConnId' = nextConnId
      BY <2>2 DEF UserCalls, KnownInv, TypeInv, TypeOK, Conns, connVars
    <3>2. f \in Functors /\ f.conn = c /\ f.op = op /\ loopOf[c] \in Loops
      BY FunctorType DEF Functor, TypeInv, TypeOK
    <3>3. Adds(loopOf[c], f)
      BY <2>2, <3>1, <3>2 DEF Adds, UserCalls, Referenced
    <3>4. pending' = [pending EXCEPT ![loopOf[c]] = Append(@, f)] /\ UNCHANGED batch
      BY <2>2 DEF UserCalls, Enqueue
    <3> QED BY <3>2, <3>3, <3>4 DEF AddsOne
  <2> QED BY <1>5, <2>1, <2>2 DEF UserStep
<1>6. ASSUME NEW l \in Loops, Swap(l)
      PROVE  Queue(m)' = Queue(m)
  <2>1. CASE m = l
    <3>1. batch[m] = <<>> /\ batch'[m] = pending[m] /\ pending'[m] = <<>>
      BY <1>0, <1>6, <2>1 DEF Swap, BatchInv
    <3> QED BY <1>0, <3>1, ConcatNothing DEF Queue
  <2>2. CASE m # l
    BY <1>0, <1>6, <2>2 DEF Swap, Queue
  <2> QED BY <2>1, <2>2
<1>7. ASSUME NEW l \in Loops, RunFunctor(l)
      PROVE  \/ Queue(m)' = Queue(m)
             \/ \E f : Adds(m, f) /\ Queue(m)' = Append(Queue(m), f)
             \/ RunFunctor(m) /\ Queue(m)' = Tail(Queue(m))
             \/ RunFunctor(m) /\ \E f : Adds(m, f)
                                        /\ Queue(m)' = Append(Tail(Queue(m)), f)
  BY <1>7, QueueAfterRun
<1>8. ASSUME NEW l \in Loops, DestroyLoop(l)
      PROVE  Queue(m)' = Queue(m) \/ (phase'[m] = "destroyed" /\ Queue(m)' = <<>>)
  <2>1. CASE m = l
    <3>1. batch'[m] = <<>> /\ pending'[m] = <<>> /\ phase'[m] = "destroyed"
      BY <1>0, <1>8, <2>1 DEF DestroyLoop, BatchInv
    <3>2. <<>> \in Seq(Functors)
      BY EmptySeq
    <3> QED BY <3>1, <3>2, ConcatNothing DEF Queue
  <2>2. CASE m # l
    BY <1>0, <1>8, <2>2 DEF DestroyLoop, Queue
  <2> QED BY <2>1, <2>2
<1>9. ASSUME NEW c \in Conns, EraseConnection(c)
      PROVE  UNCHANGED batch /\ (UNCHANGED pending \/ AddsOne(c))
  <2>1. c < nextConnId
    BY <1>9 DEF EraseConnection, KnownInv, TypeInv, TypeOK, Conns
  <2>2. Referenced(c)
    BY <1>9 DEF EraseConnection, Referenced
  <2> QED BY <1>9, <2>1, <2>2, RemoveAdds DEF EraseConnection, DestroyInLoop
<1>10. CASE \/ Start \/ TurnPeerAway \/ QuitBase \/ BeginDestroy \/ QuitThread
            \/ JoinThread \/ EndDestroy \/ PeerConnects \/ OtherOpens
            \/ OtherCloses \/ Over \/ UNCHANGED vars
            \/ \E l \in Loops : EndTurn(l)
  BY <1>2, <1>10 DEF Start, TurnPeerAway, QuitBase, BeginDestroy, QuitThread,
     JoinThread, EndDestroy, PeerConnects, OtherOpens, OtherCloses, Over, EndTurn,
     vars, loopVars
<1>11. CASE NewConnection \/ \E l \in Loops : LoopStep(l)
  <2>1. CASE NewConnection
    BY <1>3, <2>1
  <2>2. ASSUME NEW l \in Loops, LoopStep(l)
        PROVE  \/ Swap(l) \/ RunFunctor(l) \/ EndTurn(l) \/ DestroyLoop(l)
    BY <2>2 DEF LoopStep
  <2> QED BY <1>3, <1>6, <1>7, <1>8, <1>10, <1>11, <2>2
<1>12. CASE \E c \in Conns : Hangup(c) \/ UserStep(c) \/ EraseConnection(c)
  BY <1>1, <1>2, <1>4, <1>5, <1>9, <1>12
<1> QED BY <1>10, <1>11, <1>12 DEF Next, DestructorStep

\* What a loop holds after a step it held before, or the step has queued it.
LEMMA HeldAfter ==
  ASSUME TypeInv, TypeInv', BatchInv, KnownInv, [Next]_vars,
         NEW m \in Loops, NEW f \in Held(m)'
  PROVE  f \in Held(m) \/ Adds(m, f)
<1>1. /\ Queue(m) \in Seq(Functors) /\ Held(m) = Members(Queue(m))
      /\ Held(m)' = Members(Queue(m)')
  BY QueueType, QueueTypeAfter DEF TypeInv, TypeOK
<1>2. \A g : Adds(m, g) => g \in Functors
  BY DEF Adds
<1>3. \A s \in Seq(Functors), g \in Functors : Members(Append(s, g)) = Members(s) \cup {g}
  BY MembersAppend
<1>4. CASE \E g : Adds(m, g) /\ Queue(m)' = Append(Queue(m), g)
  BY <1>1, <1>2, <1>3, <1>4
<1>5. ASSUME RunFunctor(m)
      PROVE  Tail(Queue(m)) \in Seq(Functors) /\ Members(Tail(Queue(m))) \subseteq Held(m)
  <2>1. Queue(m) # <<>>
    BY <1>5, RunHead
  <2> QED BY <1>1, <2>1, TailElements, MembersTail
<1>6. CASE RunFunctor(m) /\ Queue(m)' = Tail(Queue(m))
  BY <1>1, <1>5, <1>6
<1>7. ASSUME NEW g, RunFunctor(m), Adds(m, g),
             Queue(m)' = Append(Tail(Queue(m)), g)
      PROVE  Held(m)' = Members(Tail(Queue(m))) \cup {g}
  BY <1>1, <1>2, <1>3, <1>5, <1>7
<1>8. CASE Queue(m)' = <<>>
  BY <1>1, <1>8, MembersEmpty
<1>9. CASE Queue(m)' = Queue(m)
  BY <1>1, <1>9
<1> QED BY <1>4, <1>5, <1>6, <1>7, <1>8, <1>9, QueueStep

\* What a loop held it holds still, unless that has run or the loop is gone.
LEMMA HeldBefore ==
  ASSUME TypeInv, TypeInv', BatchInv, KnownInv, [Next]_vars,
         NEW m \in Loops, NEW f \in Held(m)
  PROVE  \/ f \in Held(m)'
         \/ RunFunctor(m) /\ f = Head(batch[m])
         \/ phase'[m] = "destroyed"
<1>1. /\ Queue(m) \in Seq(Functors) /\ Held(m) = Members(Queue(m))
      /\ Held(m)' = Members(Queue(m)')
  BY QueueType, QueueTypeAfter DEF TypeInv, TypeOK
<1>2. \A g : Adds(m, g) => g \in Functors
  BY DEF Adds
<1>3. \A s \in Seq(Functors), g \in Functors : Members(Append(s, g)) = Members(s) \cup {g}
  BY MembersAppend
<1>4. CASE \E g : Adds(m, g) /\ Queue(m)' = Append(Queue(m), g)
  BY <1>1, <1>2, <1>3, <1>4
<1>5. ASSUME RunFunctor(m)
      PROVE  /\ Tail(Queue(m)) \in Seq(Functors)
             /\ Held(m) = {Head(batch[m])} \cup Members(Tail(Queue(m)))
  <2>1. Queue(m) # <<>> /\ Head(Queue(m)) = Head(batch[m])
    BY <1>5, RunHead
  <2> QED BY <1>1, <2>1, TailElements, MembersTail
<1>6. CASE RunFunctor(m) /\ Queue(m)' = Tail(Queue(m))
  BY <1>1, <1>5, <1>6
<1>7. ASSUME NEW g, RunFunctor(m), Adds(m, g),
             Queue(m)' = Append(Tail(Queue(m)), g)
      PROVE  Held(m)' = Members(Tail(Queue(m))) \cup {g}
  BY <1>1, <1>2, <1>3, <1>5, <1>7
<1>8. CASE phase'[m] = "destroyed"
  BY <1>8
<1>9. CASE Queue(m)' = Queue(m)
  BY <1>1, <1>9
<1> QED BY <1>4, <1>5, <1>6, <1>7, <1>8, <1>9, QueueStep

-----------------------------------------------------------------------------
(* What a step does to the connections.                                    *)

\* Only newConnection makes one and gives it a loop.
LEMMA FrameStep ==
  ASSUME TypeInv, [Next]_vars
  PROVE  /\ \/ UNCHANGED <<nextConnId, loopOf>>
            \/ /\ NewConnection
               /\ nextConnId \in Conns /\ nextConnId' = nextConnId + 1
               /\ loopOf' = [loopOf EXCEPT ![nextConnId] = NextLoop]
         /\ closed \subseteq closed'
<1>1. CASE NewConnection
  <2>1. nextConnId \in Conns
    BY <1>1, TcpServerAssumption DEF NewConnection, Accept, Conns, TypeInv, TypeOK
  <2> QED BY <1>1, <2>1 DEF NewConnection
<1>2. ASSUME NEW c \in Conns, Hangup(c) \/ UserStep(c) \/ EraseConnection(c)
      PROVE  UNCHANGED <<nextConnId, loopOf>> /\ closed \subseteq closed'
  BY <1>2 DEF Hangup, HandleClose, UserStep, UserKeeps, UserDrops, UserCalls,
              EraseConnection, connVars
<1>3. ASSUME NEW l \in Loops, LoopStep(l)
      PROVE  UNCHANGED <<nextConnId, loopOf>> /\ closed \subseteq closed'
  <2>1. CASE RunFunctor(l)
    BY <2>1 DEF RunFunctor, Effect, Becomes, HandleClose
  <2>2. CASE Swap(l) \/ EndTurn(l) \/ DestroyLoop(l)
    BY <2>2 DEF Swap, EndTurn, DestroyLoop, connVars
  <2> QED BY <1>3, <2>1, <2>2 DEF LoopStep
<1>4. CASE \/ Start \/ TurnPeerAway \/ QuitBase \/ BeginDestroy \/ QuitThread
           \/ JoinThread \/ EndDestroy \/ PeerConnects \/ OtherOpens
           \/ OtherCloses \/ Over \/ UNCHANGED vars
  BY <1>4 DEF Start, TurnPeerAway, QuitBase, BeginDestroy, QuitThread,
     JoinThread, EndDestroy, PeerConnects, OtherOpens, OtherCloses, Over,
     vars, connVars
<1> QED BY <1>1, <1>2, <1>3, <1>4 DEF Next, DestructorStep

\* A connection stays with the loop that it was given.
LEMMA LoopOfStep ==
  ASSUME TypeInv, [Next]_vars
  PROVE  /\ nextConnId \in Nat /\ nextConnId' \in Nat /\ nextConnId <= nextConnId'
         /\ \A c \in Conns : c < nextConnId => loopOf'[c] = loopOf[c]
         /\ nextConnId' = nextConnId => ~NewConnection /\ loopOf' = loopOf
<1>1. nextConnId \in Nat /\ loopOf \in [Conns -> Loops]
  BY TcpServerAssumption DEF TypeInv, TypeOK
<1>2. CASE UNCHANGED <<nextConnId, loopOf>>
  <2>1. ~NewConnection
    BY <1>1, <1>2 DEF NewConnection
  <2> QED BY <1>1, <1>2, <2>1
<1>3. CASE /\ nextConnId \in Conns /\ nextConnId' = nextConnId + 1
           /\ loopOf' = [loopOf EXCEPT ![nextConnId] = NextLoop]
  <2>1. \A c \in Conns : c # nextConnId => loopOf'[c] = loopOf[c]
    BY <1>1, <1>3
  <2> QED BY <1>1, <1>3, <2>1 DEF Conns
<1> QED BY <1>2, <1>3, FrameStep

\* What a loop holds is a functor of a connection that has been made.
LEMMA HeldType ==
  ASSUME TypeInv, KnownInv, NEW l \in Loops, NEW f \in Held(l)
  PROVE  f \in Functors /\ f.conn \in Conns /\ f.conn < nextConnId
<1>1. Held(l) = Members(Queue(l)) /\ Queue(l) \in Seq(Functors)
  BY QueueType DEF TypeInv, TypeOK
<1>2. f \in Functors
  BY <1>1, LenProperties DEF Members
<1> QED BY <1>2, FunctorParts DEF KnownInv

\* Loop l runs the functor op of connection d.
Runs(l, op, d) == RunFunctor(l) /\ Head(batch[l]) = Functor(op, d)

\* All ways in which the stage of connection d can change.
LEMMA StageStep ==
  ASSUME TypeInv, [Next]_vars, NEW d \in Conns
  PROVE  \/ stage'[d] = stage[d]
         \/ /\ NewConnection /\ d = nextConnId
            /\ stage'[d] = IF NextLoop = Base THEN "up" ELSE "made"
         \/ \E l \in Loops : Runs(l, "connectEstablished", d) /\ stage'[d] = "up"
         \/ \E l \in Loops : Runs(l, "connectDestroyed", d) /\ stage'[d] = "down"
         \/ stage[d] = "down" /\ stage'[d] = "again"
         \/ EraseConnection(d) /\ loopOf[d] = Base /\ stage'[d] = "down"
<1>0. stage \in [Conns -> {"unused", "made", "up", "down", "again"}]
  BY DEF TypeInv, TypeOK
<1>1. CASE NewConnection
  <2>1. nextConnId \in Conns
    BY <1>1, TcpServerAssumption DEF NewConnection, Accept, Conns, TypeInv, TypeOK
  <2>2. stage' = [stage EXCEPT ![nextConnId] = IF NextLoop = Base THEN "up"
                                                                  ELSE "made"]
    BY <1>1 DEF NewConnection
  <2> QED BY <1>0, <1>1, <2>1, <2>2
<1>2. ASSUME NEW c \in Conns, HandleClose(c)
      PROVE  stage'[d] = stage[d] \/ (stage[d] = "down" /\ stage'[d] = "again")
  BY <1>0, <1>2 DEF HandleClose
<1>3. ASSUME NEW l \in Loops, RunFunctor(l)
      PROVE  \/ stage'[d] = stage[d]
             \/ Runs(l, "connectEstablished", d) /\ stage'[d] = "up"
             \/ Runs(l, "connectDestroyed", d) /\ stage'[d] = "down"
             \/ stage[d] = "down" /\ stage'[d] = "again"
  <2>1. Head(batch[l]) \in Functors
    BY <1>3, RunHead
  <2>2. PICK c \in Conns, op \in {"connectEstablished", "connectDestroyed",
                                  "removeConnectionInLoop"} \cup UserOps :
          Head(batch[l]) = Functor(op, c)
    BY <2>1, FunctorParts
  <2>3. Effect(op, c)
    BY <1>3, <2>2 DEF RunFunctor, Functor
  <2>4. CASE op = "connectEstablished" /\ Becomes(c, "up")
    BY <1>0, <1>3, <2>2, <2>4 DEF Becomes, Runs
  <2>5. CASE op = "connectDestroyed" /\ Becomes(c, "down")
    BY <1>0, <1>3, <2>2, <2>5 DEF Becomes, Runs
  <2>6. CASE stage[c] = "down" /\ Becomes(c, "again")
    BY <1>0, <2>6 DEF Becomes
  <2>7. CASE HandleClose(c)
    BY <1>2, <2>7
  <2>8. CASE UNCHANGED stage
    BY <2>8
  <2> QED BY <2>3, <2>4, <2>5, <2>6, <2>7, <2>8 DEF Effect
<1>4. ASSUME NEW c \in Conns, EraseConnection(c)
      PROVE  \/ stage'[d] = stage[d]
             \/ EraseConnection(d) /\ loopOf[d] = Base /\ stage'[d] = "down"
  BY <1>0, <1>4 DEF EraseConnection, DestroyInLoop
<1>5. ASSUME NEW c \in Conns, Hangup(c) \/ UserStep(c)
      PROVE  stage'[d] = stage[d] \/ (stage[d] = "down" /\ stage'[d] = "again")
  BY <1>2, <1>5 DEF Hangup, UserStep, UserKeeps, UserDrops, UserCalls, connVars
<1>6. ASSUME NEW l \in Loops, Swap(l) \/ EndTurn(l) \/ DestroyLoop(l)
      PROVE  stage' = stage
  BY <1>6 DEF Swap, EndTurn, DestroyLoop, connVars
<1>7. CASE \/ Start \/ TurnPeerAway \/ QuitBase \/ BeginDestroy \/ QuitThread
           \/ JoinThread \/ EndDestroy \/ PeerConnects \/ OtherOpens
           \/ OtherCloses \/ Over \/ UNCHANGED vars
  BY <1>7 DEF Start, TurnPeerAway, QuitBase, BeginDestroy, QuitThread,
     JoinThread, EndDestroy, PeerConnects, OtherOpens, OtherCloses, Over,
     vars, connVars
<1>8. CASE \E l \in Loops : LoopStep(l)
  BY <1>3, <1>6, <1>8 DEF LoopStep
<1> QED BY <1>1, <1>4, <1>5, <1>7, <1>8 DEF Next, DestructorStep

\* All ways in which connections_ and the user's pointers can change.
LEMMA MapStep ==
  ASSUME TypeInv, [Next]_vars
  PROVE  /\ \/ inMap' \subseteq inMap
            \/ NewConnection /\ inMap' \subseteq inMap \cup {nextConnId}
         /\ \/ kept' \subseteq kept
            \/ \E c \in Conns : UserKeeps(c) /\ kept' = kept \cup {c}
<1>1. ASSUME NEW c \in Conns, HandleClose(c)
      PROVE  inMap' \subseteq inMap
  BY <1>1 DEF HandleClose, RemoveInLoop
<1>2. CASE NewConnection
  BY <1>2 DEF NewConnection, otherVars
<1>3. ASSUME NEW c \in Conns, Hangup(c) \/ UserStep(c) \/ EraseConnection(c)
      PROVE  /\ inMap' \subseteq inMap
             /\ kept' \subseteq kept \/ (UserKeeps(c) /\ kept' = kept \cup {c})
  BY <1>1, <1>3 DEF Hangup, UserStep, UserKeeps, UserDrops, UserCalls,
                    EraseConnection, connVars, otherVars
<1>4. ASSUME NEW l \in Loops, LoopStep(l)
      PROVE  inMap' \subseteq inMap /\ kept' = kept
  <2>1. CASE RunFunctor(l)
    <3>1. Head(batch[l]).conn \in Conns
      BY <2>1, RunHead, FunctorParts
    <3> QED BY <1>1, <2>1, <3>1 DEF RunFunctor, Effect, Becomes, RemoveInLoop, otherVars
  <2>2. CASE Swap(l) \/ EndTurn(l) \/ DestroyLoop(l)
    BY <2>2 DEF Swap, EndTurn, DestroyLoop, connVars, otherVars
  <2> QED BY <1>4, <2>1, <2>2 DEF LoopStep
<1>5. CASE \/ Start \/ TurnPeerAway \/ QuitBase \/ BeginDestroy \/ QuitThread
           \/ JoinThread \/ EndDestroy \/ PeerConnects \/ OtherOpens
           \/ OtherCloses \/ Over \/ UNCHANGED vars
  BY <1>5 DEF Start, TurnPeerAway, QuitBase, BeginDestroy, QuitThread,
     JoinThread, EndDestroy, PeerConnects, OtherOpens, OtherCloses, Over,
     vars, connVars, otherVars
<1> QED BY <1>2, <1>3, <1>4, <1>5 DEF Next, DestructorStep

\* A functor that establishes a connection does so.
LEMMA EstablishRuns ==
  ASSUME TypeInv, NEW l \in Loops, NEW d \in Conns, Runs(l, "connectEstablished", d)
  PROVE  stage'[d] = "up"
<1>1. Effect("connectEstablished", d)
  BY DEF Runs, RunFunctor, Functor
<1> QED BY <1>1 DEF Effect, Becomes, TypeInv, TypeOK

\* All ways in which the phase of loop m can change.
LEMMA PhaseChange ==
  ASSUME TypeInv, [Next]_vars, NEW m \in Loops
  PROVE  \/ phase'[m] = phase[m]
         \/ Start /\ m \in 1..numThreads' /\ phase'[m] = "poll"
         \/ phase[m] \in {"poll", "run"} /\ phase'[m] \in {"poll", "run", "stopped"}
         \/ /\ phase[m] = "stopped" /\ phase'[m] = "destroyed"
            /\ m = Base => serverPc = "gone"
<1>0. phase \in [Loops -> {"none", "poll", "run", "stopped", "destroyed"}]
  BY DEF TypeInv, TypeOK
<1>1. CASE Start
  BY <1>0, <1>1 DEF Start
<1>2. ASSUME NEW l \in Loops, LoopStep(l)
      PROVE  \/ phase'[m] = phase[m]
             \/ /\ phase[m] \in {"poll", "run"}
                /\ phase'[m] \in {"poll", "run", "stopped"}
             \/ /\ phase[m] = "stopped" /\ phase'[m] = "destroyed"
                /\ m = Base => serverPc = "gone"
  BY <1>0, <1>2 DEF LoopStep, Swap, RunFunctor, EndTurn, DestroyLoop
<1>3. ASSUME NEW c \in Conns, Hangup(c) \/ UserStep(c) \/ EraseConnection(c)
      PROVE  phase' = phase
  BY <1>3 DEF Hangup, UserStep, UserKeeps, UserDrops, UserCalls,
              EraseConnection, loopVars
<1>4. CASE \/ NewConnection \/ TurnPeerAway \/ QuitBase \/ BeginDestroy
           \/ QuitThread \/ JoinThread \/ EndDestroy \/ PeerConnects
           \/ OtherOpens \/ OtherCloses \/ Over \/ UNCHANGED vars
  BY <1>4 DEF NewConnection, TurnPeerAway, QuitBase, BeginDestroy, QuitThread,
     JoinThread, EndDestroy, PeerConnects, OtherOpens, OtherCloses, Over,
     vars, loopVars
<1> QED BY <1>1, <1>2, <1>3, <1>4 DEF Next, DestructorStep

\* start() finds no pool.
LEMMA StartFindsNone ==
  ASSUME TypeInv, LoopsInv, Start, NEW m \in Loops, m \in 1..numThreads'
  PROVE  phase[m] = "none" /\ m # Base
<1>1. numThreads = 0
  BY DEF Start, TypeInv
<1> QED BY <1>1, TcpServerAssumption DEF LoopsInv, Loops, Base, Start

\* A loop that is gone stays so.
LEMMA PhaseStep ==
  ASSUME TypeInv, LoopsInv, [Next]_vars, NEW m \in Loops, phase[m] = "destroyed"
  PROVE  phase'[m] = "destroyed"
BY PhaseChange, StartFindsNone

\* Only a loop that runs functors has a batch.
LEMMA BatchStep ==
  ASSUME TypeInv, LoopsInv, BatchInv, [Next]_vars
  PROVE  BatchInv'
<1> USE DEF BatchInv
<1>0. /\ batch \in [Loops -> Seq(Functors)]
      /\ phase \in [Loops -> {"none", "poll", "run", "stopped", "destroyed"}]
  BY DEF TypeInv, TypeOK
<1>1. CASE Start
  <2>1. /\ phase' = [l \in Loops |-> IF l \in 1..numThreads' THEN "poll" ELSE phase[l]]
        /\ batch' = batch /\ numThreads = 0
    BY <1>1 DEF Start, TypeInv
  <2>2. \A l \in Loops \ {Base} : phase[l] = "none"
    BY <2>1, TcpServerAssumption DEF LoopsInv, Loops, Base
  <2>3. Base \notin 1..numThreads'
    BY <1>1, TcpServerAssumption DEF Start, Base
  <2> QED BY <2>1, <2>2, <2>3
<1>2. ASSUME NEW l \in Loops, LoopStep(l)
      PROVE  BatchInv'
  BY <1>0, <1>2 DEF LoopStep, Swap, RunFunctor, EndTurn, DestroyLoop
<1>3. ASSUME NEW c \in Conns, Hangup(c) \/ UserStep(c) \/ EraseConnection(c)
      PROVE  UNCHANGED <<phase, batch>>
  BY <1>3 DEF Hangup, UserStep, UserKeeps, UserDrops, UserCalls,
              EraseConnection, loopVars
<1>4. CASE \/ NewConnection \/ TurnPeerAway \/ QuitBase \/ BeginDestroy
           \/ QuitThread \/ JoinThread \/ EndDestroy \/ PeerConnects
           \/ OtherOpens \/ OtherCloses \/ Over \/ UNCHANGED vars
  BY <1>4 DEF NewConnection, TurnPeerAway, QuitBase, BeginDestroy, QuitThread,
     JoinThread, EndDestroy, PeerConnects, OtherOpens, OtherCloses, Over,
     vars, loopVars
<1> QED BY <1>1, <1>2, <1>3, <1>4 DEF Next, DestructorStep

\* Functors are of connections that have been made.
LEMMA KnownStep ==
  ASSUME TypeInv, TypeInv', BatchInv, KnownInv, [Next]_vars
  PROVE  KnownInv'
<1>0. /\ nextConnId \in Nat /\ nextConnId' \in Nat /\ nextConnId' >= nextConnId
      /\ \/ nextConnId' = nextConnId
         \/ NewConnection /\ nextConnId' = nextConnId + 1
  BY FrameStep, TcpServerAssumption DEF TypeInv, TypeOK
<1>1. ASSUME NEW l \in Loops, NEW f \in Held(l)'
      PROVE  f.conn < nextConnId'
  <2>1. f \in Held(l) \/ Adds(l, f)
    BY <1>1, HeldAfter
  <2>2. f \in Held(l)' => f.conn \in Nat
    <3>1. Held(l)' = Members(Queue(l)') /\ Queue(l)' \in Seq(Functors)
      BY QueueTypeAfter DEF TypeInv, TypeOK
    <3>2. f \in Functors
      BY <1>1, <3>1, LenProperties DEF Members
    <3> QED BY <3>2, FunctorParts DEF Conns
  <2>3. CASE f \in Held(l)
    <3>1. f.conn < nextConnId
      BY <2>3 DEF KnownInv
    <3> QED BY <1>0, <1>1, <2>2, <3>1
  <2> QED BY <2>1, <2>3 DEF Adds
<1>2. ASSUME NEW c \in Conns, c >= nextConnId'
      PROVE  stage'[c] = "unused" /\ c \notin inMap' \cup kept'
  <2>1. c \in Nat /\ c >= nextConnId /\ (NewConnection => c # nextConnId)
    BY <1>0, <1>2 DEF Conns, NewConnection
  <2>2. stage[c] = "unused" /\ c \notin inMap \cup kept
    BY <2>1 DEF KnownInv
  <2>3. ASSUME NEW l \in Loops, NEW op, Runs(l, op, c)
        PROVE  FALSE
    <3>1. Functor(op, c) \in Held(l)
      BY <2>3, RunHead DEF Runs
    <3>2. Functor(op, c).conn = c
      BY DEF Functor
    <3> QED BY <1>0, <2>1, <3>1, <3>2 DEF KnownInv
  <2>4. stage'[c] = "unused"
    BY <2>1, <2>2, <2>3, StageStep DEF EraseConnection
  <2>5. c \notin inMap' \cup kept'
    BY <2>1, <2>2, MapStep DEF UserKeeps
  <2> QED BY <2>4, <2>5
<1> QED BY <1>1, <1>2 DEF KnownInv

-----------------------------------------------------------------------------
(* The order of the functors.                                              *)

Establish(c) == Functor("connectEstablished", c)

\* In queue s each connection is established once, and each member of M, whose
\* connections are still to be established, before it is destroyed.
Ordered(s, M) ==
  \A i \in 1..Len(s) :
     /\ s[i].op = "connectEstablished" => \A j \in 1..Len(s) : s[j] = s[i] => j = i
     /\ s[i].op = "connectDestroyed" /\ s[i].conn \in M
          => \E k \in 1..(i - 1) : s[k] = Establish(s[i].conn)

\* Only the connections in the queue matter.
LEMMA OrderedOther ==
  ASSUME NEW s, NEW M, NEW N, Ordered(s, M),
         \A f \in Members(s) : f.conn \in N => f.conn \in M
  PROVE  Ordered(s, N)
BY DEF Ordered, Members

\* Running the first functor keeps the order, unless it establishes a connection.
LEMMA OrderedTail ==
  ASSUME NEW s \in Seq(Functors), s # <<>>, NEW M, Ordered(s, M),
         \A c \in M : Head(s) # Establish(c)
  PROVE  Ordered(Tail(s), M)
<1>1. /\ Head(s) = s[1] /\ Len(s) \in Nat \ {0} /\ Len(Tail(s)) = Len(s) - 1
      /\ \A i \in 1..(Len(s) - 1) : Tail(s)[i] = s[i + 1]
  BY TailElements
<1> SUFFICES ASSUME NEW i \in 1..(Len(s) - 1)
             PROVE  /\ s[i + 1].op = "connectEstablished"
                         => \A j \in 1..(Len(s) - 1) : s[j + 1] = s[i + 1] => j = i
                    /\ s[i + 1].op = "connectDestroyed" /\ s[i + 1].conn \in M
                         => \E k \in 1..(i - 1) : s[k + 1] = Establish(s[i + 1].conn)
  <2>1. \A i \in 1..(Len(s) - 1) : 1..(i - 1) \subseteq 1..(Len(s) - 1)
    BY <1>1
  <2> QED BY <1>1, <2>1 DEF Ordered
<1>2. i + 1 \in 1..Len(s)
  BY <1>1
<1>3. ASSUME s[i + 1].op = "connectEstablished",
             NEW j \in 1..(Len(s) - 1), s[j + 1] = s[i + 1]
      PROVE  j = i
  <2>1. j + 1 \in 1..Len(s)
    BY <1>1
  <2>2. j + 1 = i + 1
    BY <1>2, <1>3, <2>1 DEF Ordered
  <2> QED BY <2>2
<1>4. ASSUME s[i + 1].op = "connectDestroyed", s[i + 1].conn \in M
      PROVE  \E k \in 1..(i - 1) : s[k + 1] = Establish(s[i + 1].conn)
  <2>1. PICK k \in 1..((i + 1) - 1) : s[k] = Establish(s[i + 1].conn)
    BY <1>2, <1>4 DEF Ordered
  <2>2. k # 1
    BY <1>1, <1>4, <2>1
  <2>3. k - 1 \in 1..(i - 1) /\ (k - 1) + 1 = k
    BY <1>1, <2>2
  <2> QED BY <2>1, <2>3
<1> QED BY <1>3, <1>4

\* Queueing keeps the order if what is queued is in its place.
LEMMA OrderedAppend ==
  ASSUME NEW s \in Seq(Functors), NEW f \in Functors, NEW M, Ordered(s, M),
         f.op = "connectEstablished" => f \notin Members(s),
         f.op = "connectDestroyed" /\ f.conn \in M
           => Establish(f.conn) \in Members(s)
  PROVE  Ordered(Append(s, f), M)
<1> DEFINE t == Append(s, f)
           n == Len(s)
<1>1. /\ n \in Nat /\ Len(t) = n + 1 /\ t[n + 1] = f
      /\ \A i \in 1..n : t[i] = s[i]
  BY AppendProperties, LenProperties
<1> HIDE DEF t, n
<1> SUFFICES ASSUME NEW i \in 1..(n + 1)
             PROVE  /\ t[i].op = "connectEstablished"
                         => \A j \in 1..(n + 1) : t[j] = t[i] => j = i
                    /\ t[i].op = "connectDestroyed" /\ t[i].conn \in M
                         => \E k \in 1..(i - 1) : t[k] = Establish(t[i].conn)
  BY <1>1 DEF Ordered, t
<1>2. \A j \in 1..n : s[j] \in Members(s)
  BY DEF Members, n
<1>3. CASE i = n + 1
  <2>1. ASSUME f.op = "connectEstablished", NEW j \in 1..(n + 1), t[j] = f
        PROVE  j = n + 1
    BY <1>1, <1>2, <2>1
  <2>2. ASSUME f.op = "connectDestroyed", f.conn \in M
        PROVE  \E k \in 1..n : t[k] = Establish(f.conn)
    BY <1>1, <2>2 DEF Members, n
  <2>3. (n + 1) - 1 = n
    BY <1>1
  <2> QED BY <1>1, <1>3, <2>1, <2>2, <2>3
<1>4. CASE i # n + 1
  <2>1. i \in 1..n /\ t[i] = s[i]
    BY <1>1, <1>4
  <2>2. ASSUME s[i].op = "connectEstablished", NEW j \in 1..(n + 1), t[j] = s[i]
        PROVE  j = i
    <3>1. j # n + 1
      BY <1>1, <1>2, <2>1, <2>2
    <3>2. j \in 1..n /\ t[j] = s[j]
      BY <1>1, <3>1
    <3> QED BY <2>1, <2>2, <3>2 DEF Ordered, n
  <2>3. ASSUME s[i].op = "connectDestroyed", s[i].conn \in M
        PROVE  \E k \in 1..(i - 1) : t[k] = Establish(s[i].conn)
    <3>1. PICK k \in 1..(i - 1) : s[k] = Establish(s[i].conn)
      BY <2>1, <2>3 DEF Ordered, n
    <3>2. k \in 1..n
      BY <1>1, <2>1
    <3> QED BY <1>1, <3>1, <3>2
  <2> QED BY <2>1, <2>2, <2>3
<1> QED BY <1>3, <1>4

-----------------------------------------------------------------------------
(* The functors that a loop may hold.                                      *)

Made == {c \in Conns : stage[c] = "made"}

\* Each functor is in the loop that it is for.
ProperInv ==
  \A l \in Loops : \A f \in Held(l) :
     /\ f.op # "removeConnectionInLoop" => loopOf[f.conn] = l
     /\ f.op = "removeConnectionInLoop" => l = Base /\ f.conn \in closed

\* The connections still to be established are those with a functor that does.
MadeInv ==
  /\ \A l \in Loops : \A f \in Held(l) :
        f.op = "connectEstablished" => f.conn \in Made
  /\ \A c \in Made, l \in Loops : loopOf[c] = l
        => l # Base /\ (phase[l] = "destroyed" \/ Establish(c) \in Held(l))

\* Whatever waits for a connection to be established stands behind the functor
\* that establishes it.
OrderInv == \A l \in Loops : phase[l] # "destroyed" => Ordered(Queue(l), Made)

QueueInv == BatchInv /\ KnownInv /\ ProperInv /\ MadeInv /\ OrderInv

\* Nothing is queued at first.
LEMMA QueueInit == Init => QueueInv
<1> SUFFICES ASSUME Init PROVE QueueInv
  OBVIOUS
<1>1. \A l \in Loops : batch[l] = <<>> /\ pending[l] = <<>> /\ Queue(l) = <<>>
  <2>1. <<>> \in Seq(Functors)
    BY EmptySeq
  <2> QED BY <2>1, ConcatNothing DEF Init, Queue
<1>2. \A l \in Loops : Held(l) = {}
  BY <1>1 DEF Held
<1>3. \A c \in Conns : stage[c] = "unused"
  BY DEF Init
<1>4. Made = {} /\ inMap = {} /\ kept = {}
  BY <1>3 DEF Made, Init
<1>5. Ordered(<<>>, Made)
  BY DEF Ordered
<1> QED
  BY <1>1, <1>2, <1>3, <1>4, <1>5
  DEF QueueInv, BatchInv, KnownInv, ProperInv, MadeInv, OrderInv

\* Each functor is queued in the loop that it is for.
LEMMA ProperStep ==
  ASSUME TypeInv, TypeInv', QueueInv, [Next]_vars
  PROVE  ProperInv'
<1> SUFFICES ASSUME NEW l \in Loops, NEW f \in Held(l)'
             PROVE  /\ f.op # "removeConnectionInLoop" => loopOf'[f.conn] = l
                    /\ f.op = "removeConnectionInLoop" => l = Base /\ f.conn \in closed'
  BY DEF ProperInv
<1>1. f \in Held(l) \/ Adds(l, f)
  BY HeldAfter DEF QueueInv
<1>2. CASE f \in Held(l)
  <2>1. f.conn \in Conns /\ f.conn < nextConnId
    BY <1>2, HeldType DEF QueueInv
  <2>2. loopOf'[f.conn] = loopOf[f.conn] /\ closed \subseteq closed'
    BY <2>1, LoopOfStep, FrameStep
  <2> QED BY <1>2, <2>2 DEF QueueInv, ProperInv
<1>3. CASE Adds(l, f)
  <2>1. CASE NewConnection /\ f = Establish(nextConnId) /\ l = NextLoop
    <3>1. nextConnId \in Conns /\ loopOf' = [loopOf EXCEPT ![nextConnId] = NextLoop]
      BY <2>1, TcpServerAssumption DEF NewConnection, Accept, Conns, TypeInv, TypeOK
    <3>2. f.conn = nextConnId /\ f.op = "connectEstablished"
      BY <2>1 DEF Establish, Functor
    <3> QED BY <2>1, <3>1, <3>2 DEF TypeInv, TypeOK
  <2>2. CASE nextConnId' = nextConnId
    <3>1. loopOf' = loopOf /\ ~NewConnection
      BY <2>2, LoopOfStep
    <3>2. "removeConnectionInLoop" \notin {"connectDestroyed"} \cup UserOps
      BY TcpServerAssumption
    <3> QED BY <1>3, <3>1, <3>2 DEF Adds
  <2> QED BY <1>3, <2>1, <2>2 DEF Adds, Establish
<1> QED BY <1>1, <1>2, <1>3

\* Nothing is made but by newConnection, nor established but by its functor.
LEMMA MadeChange ==
  ASSUME TypeInv, QueueInv, [Next]_vars, NEW d \in Conns
  PROVE  /\ d \in Made' =>
              \/ d \in Made /\ d < nextConnId
              \/ NewConnection /\ d = nextConnId /\ NextLoop # Base
         /\ d \in Made =>
              \/ d \in Made'
              \/ /\ stage'[d] = "up"
                 /\ \E l \in Loops : Runs(l, "connectEstablished", d)
<1>0. /\ d \in Made <=> stage[d] = "made"
      /\ d \in Made' <=> stage'[d] = "made"
  BY DEF Made
<1>1. d \in Made => d < nextConnId
  BY <1>0, TcpServerAssumption DEF QueueInv, KnownInv, TypeInv, TypeOK, Conns
<1>2. ASSUME NEW l \in Loops, Runs(l, "connectDestroyed", d)
      PROVE  d \notin Made
  <2> SUFFICES ASSUME d \in Made PROVE FALSE
    OBVIOUS
  <2>1. phase[l] # "destroyed" /\ RunFunctor(l)
    BY <1>2 DEF Runs, RunFunctor
  <2>2. Queue(l) # <<>> /\ Head(Queue(l)) = Functor("connectDestroyed", d)
    BY <1>2, <2>1, RunHead DEF Runs
  <2>3. Queue(l) \in Seq(Functors)
    BY QueueType DEF TypeInv, TypeOK
  <2>4. Len(Queue(l)) \in Nat \ {0} /\ Queue(l)[1] = Functor("connectDestroyed", d)
    BY <2>2, <2>3, TailElements
  <2>5. 1 \in 1..Len(Queue(l)) /\ 1..(1 - 1) = {}
    BY <2>4
  <2>6. Ordered(Queue(l), Made)
    BY <2>1 DEF QueueInv, OrderInv
  <2> QED BY <2>4, <2>5, <2>6 DEF Ordered, Functor
<1>3. d \in Made => loopOf[d] # Base
  BY DEF QueueInv, MadeInv, TypeInv, TypeOK
<1>4. ASSUME d \in Made'
      PROVE  \/ d \in Made /\ d < nextConnId
             \/ NewConnection /\ d = nextConnId /\ NextLoop # Base
  BY <1>0, <1>1, <1>4, StageStep
<1>5. ASSUME d \in Made
      PROVE  \/ d \in Made'
             \/ /\ stage'[d] = "up"
                /\ \E l \in Loops : Runs(l, "connectEstablished", d)
  <2>1. ~(NewConnection /\ d = nextConnId)
    BY <1>1, <1>5, LoopOfStep
  <2> QED BY <1>0, <1>2, <1>3, <1>5, <2>1, StageStep
<1> QED BY <1>4, <1>5

\* Each step keeps connectEstablished first and once.
LEMMA OrderStep ==
  ASSUME TypeInv, TypeInv', LoopsInv, QueueInv, [Next]_vars
  PROVE  OrderInv'
<1> SUFFICES ASSUME NEW m \in Loops, phase'[m] # "destroyed"
             PROVE  Ordered(Queue(m)', Made')
  BY DEF OrderInv
<1>1. phase[m] # "destroyed"
  BY PhaseStep
<1>2. Queue(m) \in Seq(Functors) /\ Held(m) = Members(Queue(m))
  BY QueueType DEF TypeInv, TypeOK
<1>3. Ordered(Queue(m), Made')
  <2>1. Ordered(Queue(m), Made)
    BY <1>1 DEF QueueInv, OrderInv
  <2>2. ASSUME NEW f \in Held(m), f.conn \in Made'
        PROVE  f.conn \in Made
    <3>1. f.conn \in Conns /\ f.conn < nextConnId
      BY HeldType DEF QueueInv
    <3> QED BY <2>2, <3>1, MadeChange, LoopOfStep
  <2> QED BY <1>2, <2>1, <2>2, OrderedOther
<1>4. ASSUME RunFunctor(m)
      PROVE  /\ Tail(Queue(m)) \in Seq(Functors)
             /\ Ordered(Tail(Queue(m)), Made')
             /\ Held(m) = {Head(Queue(m))} \cup Members(Tail(Queue(m)))
             /\ \A c \in Made' : Head(Queue(m)) # Establish(c)
  <2>1. Queue(m) # <<>> /\ Head(Queue(m)) = Head(batch[m])
    BY <1>4, RunHead
  <2>2. ASSUME NEW c \in Made', Head(Queue(m)) = Establish(c)
        PROVE  FALSE
    <3>1. c \in Conns /\ stage'[c] = "made"
      BY DEF Made, Conns
    <3>2. stage'[c] = "up"
      BY <1>4, <2>1, <2>2, <3>1, EstablishRuns DEF Runs, Establish
    <3> QED BY <3>1, <3>2
  <2> QED BY <1>2, <1>3, <2>1, <2>2, OrderedTail, TailElements, MembersTail
<1>5. ASSUME NEW f, Adds(m, f)
      PROVE  /\ f \in Functors
             /\ f.op = "connectEstablished" => NewConnection /\ f \notin Held(m)
             /\ f.op = "connectDestroyed" /\ f.conn \in Made'
                  => Establish(f.conn) \in Held(m)
  <2>1. f \in Functors /\ f.conn \in Conns
    BY <1>5, FunctorParts DEF Adds
  <2>2. ASSUME f.op = "connectEstablished"
        PROVE  NewConnection /\ f \notin Held(m)
    <3>1. NewConnection /\ f = Functor("connectEstablished", nextConnId)
      BY <1>5, <2>2, TcpServerAssumption DEF Adds
    <3>2. f.conn = nextConnId
      BY <3>1 DEF Functor
    <3>3. ~(nextConnId < nextConnId)
      BY LoopOfStep
    <3> QED BY <3>1, <3>2, <3>3 DEF QueueInv, KnownInv
  <2>3. ASSUME f.op = "connectDestroyed", f.conn \in Made'
        PROVE  Establish(f.conn) \in Held(m)
    <3>1. nextConnId' = nextConnId /\ m = loopOf[f.conn]
      BY <1>5, <2>3 DEF Adds, Functor
    <3>2. f.conn \in Made
      BY <2>1, <2>3, <3>1, MadeChange, LoopOfStep
    <3> QED BY <1>1, <3>1, <3>2 DEF QueueInv, MadeInv
  <2> QED BY <2>1, <2>2, <2>3
<1>6. CASE Queue(m)' = Queue(m)
  BY <1>3, <1>6
<1>7. ASSUME NEW f, Adds(m, f), Queue(m)' = Append(Queue(m), f)
      PROVE  Ordered(Queue(m)', Made')
  BY <1>2, <1>3, <1>5, <1>7, OrderedAppend
<1>8. CASE RunFunctor(m) /\ Queue(m)' = Tail(Queue(m))
  BY <1>4, <1>8
<1>9. ASSUME RunFunctor(m), NEW f, Adds(m, f),
             Queue(m)' = Append(Tail(Queue(m)), f)
      PROVE  Ordered(Queue(m)', Made')
  <2>1. f.op # "connectEstablished" \/ f \notin Members(Tail(Queue(m)))
    BY <1>4, <1>5, <1>9
  <2>2. f.op = "connectDestroyed" /\ f.conn \in Made'
          => Establish(f.conn) \in Members(Tail(Queue(m)))
    BY <1>4, <1>5, <1>9
  <2>3. f \in Functors
    BY <1>5, <1>9
  <2>4. Tail(Queue(m)) \in Seq(Functors) /\ Ordered(Tail(Queue(m)), Made')
    BY <1>4, <1>9
  <2>5. Ordered(Append(Tail(Queue(m)), f), Made')
    BY <2>1, <2>2, <2>3, <2>4, OrderedAppend
  <2> QED BY <1>9, <2>5
<1> QED BY <1>6, <1>7, <1>8, <1>9, QueueStep DEF QueueInv

\* A connection that has been made waits for its connectEstablished.
LEMMA MadeStep ==
  ASSUME TypeInv, TypeInv', LoopsInv, QueueInv, [Next]_vars
  PROVE  MadeInv'
<1>1. ASSUME NEW l \in Loops, NEW f \in Held(l)', f.op = "connectEstablished"
      PROVE  f.conn \in Made'
  <2>1. f \in Held(l) \/ Adds(l, f)
    BY <1>1, HeldAfter DEF QueueInv
  <2>2. CASE f \in Held(l)
    <3>1. f.conn \in Conns /\ f.conn \in Made /\ loopOf[f.conn] = l
            /\ f = Functor("connectEstablished", f.conn)
      BY <1>1, <2>2, HeldType, FunctorParts DEF QueueInv, MadeInv, ProperInv
    <3>2. ASSUME NEW k \in Loops, Runs(k, "connectEstablished", f.conn)
          PROVE  FALSE
      <4>1. RunFunctor(k) /\ f = Head(batch[k])
        BY <3>1, <3>2 DEF Runs
      <4>2. /\ Queue(k) # <<>> /\ Head(Queue(k)) = f /\ f \in Held(k)
        BY <4>1, RunHead
      <4>3. k = l
        BY <1>1, <3>1, <4>2 DEF QueueInv, ProperInv
      <4>4. Ordered(Queue(l), Made)
        BY <4>1, <4>3 DEF QueueInv, OrderInv, RunFunctor
      <4>5. Queue(l) \in Seq(Functors)
        BY QueueType DEF TypeInv, TypeOK
      <4>6. f \notin Members(Tail(Queue(l)))
        <5>1. /\ f = Queue(l)[1] /\ Len(Queue(l)) \in Nat \ {0}
              /\ Len(Tail(Queue(l))) = Len(Queue(l)) - 1
              /\ \A i \in 1..(Len(Queue(l)) - 1) : Tail(Queue(l))[i] = Queue(l)[i + 1]
          BY <4>2, <4>3, <4>5, TailElements
        <5>2. \A j \in 1..Len(Queue(l)) : Queue(l)[j] = f => j = 1
          BY <1>1, <4>4, <5>1 DEF Ordered
        <5>3. \A i \in 1..(Len(Queue(l)) - 1) : Queue(l)[i + 1] # f
          BY <5>1, <5>2
        <5> QED BY <5>1, <5>3 DEF Members
      <4>7. nextConnId' = nextConnId
        BY <4>1 DEF RunFunctor
      <4>8. ~Adds(l, f)
        BY <1>1, <4>7, LoopOfStep, TcpServerAssumption DEF Adds
      <4>9. Members(Queue(l)') = Held(l)'
        BY QueueTypeAfter DEF TypeInv, TypeOK
      <4>10. \/ Queue(l)' = Tail(Queue(l))
             \/ \E g : Adds(l, g) /\ Queue(l)' = Append(Tail(Queue(l)), g)
        BY <4>1, <4>3, QueueAfterRun DEF QueueInv
      <4>11. \A g : Adds(l, g) => g \in Functors /\ g # f
        BY <4>8 DEF Adds
      <4>12. Tail(Queue(l)) \in Seq(Functors)
        BY <4>2, <4>3, <4>5, TailElements
      <4>13. ASSUME NEW g, Adds(l, g), Queue(l)' = Append(Tail(Queue(l)), g)
             PROVE  f \notin Members(Queue(l)')
        <5>1. Members(Append(Tail(Queue(l)), g)) = Members(Tail(Queue(l))) \cup {g}
          BY <4>11, <4>12, <4>13, MembersAppend
        <5> QED BY <4>6, <4>11, <4>13, <5>1
      <4> QED BY <1>1, <4>6, <4>9, <4>10, <4>13
    <3> QED BY <3>1, <3>2, MadeChange
  <2>3. CASE Adds(l, f)
    <3>1. NewConnection /\ f = Functor("connectEstablished", nextConnId)
            /\ NextLoop # Base /\ nextConnId \in Conns
      BY <1>1, <2>3, FrameStep, LoopOfStep, TcpServerAssumption DEF Adds, NewConnection
    <3>2. f.conn = nextConnId
      BY <3>1 DEF Functor
    <3>3. stage'[nextConnId] = "made"
      BY <3>1 DEF NewConnection, TypeInv, TypeOK
    <3> QED BY <3>1, <3>2, <3>3 DEF Made, Conns
  <2> QED BY <2>1, <2>2, <2>3
<1>2. ASSUME NEW c \in Conns, c \in Made', NEW l \in Loops, loopOf'[c] = l
      PROVE  l # Base /\ (phase'[l] = "destroyed" \/ Establish(c) \in Held(l)')
  <2>1. CASE c \in Made /\ c < nextConnId
    <3>1. loopOf[c] = l
      BY <1>2, <2>1, LoopOfStep
    <3>2. l # Base /\ (phase[l] = "destroyed" \/ Establish(c) \in Held(l))
      BY <2>1, <3>1 DEF QueueInv, MadeInv
    <3>3. CASE Establish(c) \in Held(l)
      <4>1. ASSUME RunFunctor(l), Establish(c) = Head(batch[l])
            PROVE  FALSE
        <5>1. stage'[c] = "up"
          BY <4>1, EstablishRuns DEF Runs, Establish
        <5> QED BY <1>2, <5>1 DEF Made
      <4> QED BY <3>2, <3>3, <4>1, HeldBefore DEF QueueInv
    <3> QED BY <3>2, <3>3, PhaseStep
  <2>2. CASE NewConnection /\ c = nextConnId /\ NextLoop # Base
    <3>1. l = NextLoop
      BY <1>2, <2>2 DEF NewConnection, TypeInv, TypeOK
    <3>2. pending' = [pending EXCEPT ![l] = Append(@, Establish(c))] /\ UNCHANGED batch
      BY <2>2, <3>1 DEF NewConnection, Enqueue, Establish
    <3>3. Establish(c) \in Functors
      BY FunctorType DEF Establish
    <3>4. Queue(l)' = Append(Queue(l), Establish(c))
      BY <3>2, <3>3, QueueAdd
    <3>5. Queue(l) \in Seq(Functors) /\ Held(l)' = Members(Queue(l)')
      BY QueueType, QueueTypeAfter DEF TypeInv, TypeOK
    <3>6. Members(Append(Queue(l), Establish(c))) = Members(Queue(l)) \cup {Establish(c)}
      BY <3>3, <3>5, MembersAppend
    <3> QED BY <2>2, <3>1, <3>4, <3>5, <3>6
  <2> QED BY <1>2, <2>1, <2>2, MadeChange
<1>3. Made' \subseteq Conns
  BY DEF Made, Conns
<1> QED BY <1>1, <1>2, <1>3 DEF MadeInv

\* The invariant of the fourth layer.
LEMMA QueueInvariant == Spec => []QueueInv
<1>1. TypeInv /\ TypeInv' /\ LoopsInv /\ QueueInv /\ [Next]_vars => QueueInv'
  BY BatchStep, KnownStep, ProperStep, MadeStep, OrderStep DEF QueueInv
<1> QED BY QueueInit, <1>1, TypeInvariant, LoopsInvariant, PTL DEF Spec

\* A connection is established at most once, and not again when it is destroyed.
LEMMA LifeStep ==
  ASSUME TypeInv, QueueInv, [Next]_vars, NEW c \in Conns
  PROVE  /\ stage[c] = "made" => stage'[c] \in {"made", "up"}
         /\ stage[c] \in {"down", "again"} => stage'[c] \in {"down", "again"}
<1>1. c \in Made <=> stage[c] = "made"
  BY DEF Made
<1>2. c \in Made' <=> stage'[c] = "made"
  BY DEF Made
<1>3. ASSUME stage[c] \in {"down", "again"}
      PROVE  stage'[c] \in {"down", "again"}
  <2>1. ~(NewConnection /\ c = nextConnId)
    BY <1>3, LoopOfStep DEF QueueInv, KnownInv
  <2>2. ASSUME NEW l \in Loops, Runs(l, "connectEstablished", c)
        PROVE  FALSE
    <3>1. Establish(c) \in Held(l)
      BY <2>2, RunHead DEF Runs, Establish
    <3> QED BY <1>1, <1>3, <3>1 DEF QueueInv, MadeInv, Establish, Functor
  <2> QED BY <1>3, <2>1, <2>2, StageStep
<1> QED BY <1>1, <1>2, <1>3, MadeChange

\* Whatever the threads queue and whenever they run it, a connection is
\* established once, before it is destroyed, and not again (tcpServer.cc:61-106).
THEOREM InOrder == Spec => LifeInOrder
<1>1. TypeInv /\ QueueInv /\ [Next]_vars
        => [\A c \in Conns :
              /\ stage[c] = "made" => stage'[c] \in {"made", "up"}
              /\ stage[c] \in {"down", "again"} => stage'[c] \in {"down", "again"}]_vars
  BY LifeStep
<1> QED BY <1>1, TypeInvariant, QueueInvariant, PTL DEF Spec, LifeInOrder

-----------------------------------------------------------------------------
(* The path on which a connection will be taken out.                       *)

\* The number behind the server's name is never cut off, as it is only behind
\* names of more than 50 letters (tcpServer.cc:64).  That a power of ten is a
\* number is said here since the provers do not know it.
NamesFit == 10^NameRoom \in Nat /\ \A c \in Conns : c < 10^NameRoom

\* No two connections have one name if numbers fit.
LEMMA NamesDiffer ==
  ASSUME NamesFit, inMap \subseteq Conns, NEW c \in Conns
  PROVE  SameName(c) \subseteq {c}
<1>1. \A d \in Conns : Name(d) = d
  <2> TAKE d \in Conns
  <2> DEFINE Cut(k) == /\ d \div 10^k < 10^NameRoom
                       /\ \A j \in 0..(k - 1) : d \div 10^j >= 10^NameRoom
  <2>1. d \in Nat /\ d \div 10^0 = d /\ d < 10^NameRoom /\ 10^NameRoom \in Nat
    BY DEF NamesFit, Conns
  <2>2. Cut(0) /\ 0 \in 0..d
    BY <2>1
  <2>3. \A k \in 0..d : Cut(k) => k = 0
    <3> SUFFICES ASSUME NEW k \in 0..d, k # 0, Cut(k)
                 PROVE  FALSE
      OBVIOUS
    <3>1. 0 \in 0..(k - 1)
      BY <2>1
    <3>2. d \div 10^0 >= 10^NameRoom
      BY <3>1
    <3> QED BY <2>1, <3>2
  <2>4. (CHOOSE k \in 0..d : Cut(k)) = 0
    BY <2>2, <2>3
  <2> QED BY <2>1, <2>4 DEF Name
<1>2. SameName(c) \subseteq {d \in inMap : Name(d) = Name(c)}
  BY DEF SameName
<1> QED BY <1>1, <1>2

\* Only two steps take a connection from connections_: the server's destructor,
\* and removeConnectionInLoop, which queues connectDestroyed.
LEMMA MapLoss ==
  ASSUME NamesFit, TypeInv, QueueInv, [Next]_vars,
         NEW c \in inMap, c \notin inMap'
  PROVE  \/ EraseConnection(c)
         \/ c \in closed' /\ Enqueue(loopOf[c], "connectDestroyed", c)
<1>0. c \in Conns /\ inMap \subseteq Conns
  BY DEF TypeInv, TypeOK
<1>1. ASSUME NEW d \in Conns, RemoveInLoop(d)
      PROVE  c = d
  BY <1>0, <1>1, NamesDiffer DEF RemoveInLoop
<1>2. ASSUME NEW d \in Conns, HandleClose(d)
      PROVE  c \in closed' /\ Enqueue(loopOf[c], "connectDestroyed", c)
  <2>1. RemoveInLoop(d) /\ d \in closed'
    BY <1>2 DEF HandleClose
  <2> QED BY <1>1, <2>1 DEF RemoveInLoop
<1>3. ~NewConnection
  <2> SUFFICES ASSUME NewConnection PROVE FALSE
    OBVIOUS
  <2>1. nextConnId \in Conns
    BY TcpServerAssumption DEF NewConnection, Accept, Conns, TypeInv, TypeOK
  <2>2. SameName(nextConnId) \subseteq {nextConnId}
    BY <1>0, <2>1, NamesDiffer
  <2>3. inMap' = (inMap \ SameName(nextConnId)) \cup {nextConnId}
    BY DEF NewConnection
  <2> QED BY <2>2, <2>3
<1>4. ASSUME NEW d \in Conns, Hangup(d) \/ UserStep(d) \/ EraseConnection(d)
      PROVE  \/ EraseConnection(c)
             \/ c \in closed' /\ Enqueue(loopOf[c], "connectDestroyed", c)
  BY <1>2, <1>4 DEF Hangup, UserStep, UserKeeps, UserDrops, UserCalls,
                    EraseConnection, connVars
<1>5. ASSUME NEW l \in Loops, LoopStep(l)
      PROVE  c \in closed' /\ Enqueue(loopOf[c], "connectDestroyed", c)
  <2>1. RunFunctor(l)
    BY <1>5 DEF LoopStep, Swap, EndTurn, DestroyLoop, connVars
  <2>2. Head(batch[l]) \in Functors /\ Head(batch[l]) \in Held(l)
    BY <2>1, RunHead
  <2>3. PICK d \in Conns, op \in {"connectEstablished", "connectDestroyed",
                                  "removeConnectionInLoop"} \cup UserOps :
          op = Head(batch[l]).op /\ d = Head(batch[l]).conn
    BY <2>2, FunctorParts
  <2>4. Effect(op, d)
    BY <2>1, <2>3 DEF RunFunctor
  <2>5. CASE HandleClose(d)
    BY <1>2, <2>5
  <2>6. CASE op = "removeConnectionInLoop" /\ RemoveInLoop(d)
    <3>1. d \in closed
      BY <2>2, <2>3, <2>6 DEF QueueInv, ProperInv
    <3>2. c = d
      BY <1>1, <2>6
    <3> QED BY <2>6, <3>1, <3>2, FrameStep DEF RemoveInLoop
  <2> QED BY <2>4, <2>5, <2>6 DEF Effect, Becomes
<1>6. CASE \/ Start \/ TurnPeerAway \/ QuitBase \/ BeginDestroy \/ QuitThread
           \/ JoinThread \/ EndDestroy \/ PeerConnects \/ OtherOpens
           \/ OtherCloses \/ Over \/ UNCHANGED vars
  BY <1>6 DEF Start, TurnPeerAway, QuitBase, BeginDestroy, QuitThread,
     JoinThread, EndDestroy, PeerConnects, OtherOpens, OtherCloses, Over,
     vars, connVars
<1> QED BY <1>3, <1>4, <1>5, <1>6 DEF Next, DestructorStep

\* connections_ holds whatever has been made and not closed, however many
\* connections and loops there are, as long as names differ
\* (tcpServer.h:108, tcpServer.cc:61-106).
THEOREM MapComplete ==
  ASSUME NamesFit
  PROVE  Spec => []MapIsComplete
<1>1. Init => MapIsComplete
  <2> SUFFICES ASSUME Init PROVE 1..(nextConnId - 1) = {}
    BY DEF MapIsComplete
  <2> QED BY DEF Init
<1>2. TypeInv /\ QueueInv /\ MapIsComplete /\ [Next]_vars => MapIsComplete'
  <2> SUFFICES ASSUME TypeInv, QueueInv, MapIsComplete, [Next]_vars,
                      serverPc' = "running",
                      NEW c \in 1..(nextConnId' - 1), c \notin closed'
               PROVE  c \in inMap'
    BY DEF MapIsComplete
  <2>1. CASE c \in 1..(nextConnId - 1)
    <3>1. serverPc = "running"
      <4>1. serverPc # "new"
        BY <2>1 DEF TypeInv
      <4>2. serverPc' = serverPc \/ serverPc \in {"new", "running"}
              \/ serverPc' \in {"joining", "gone"}
        BY DEF Next, vars, Start, NewConnection, TurnPeerAway, Hangup, UserStep,
               UserKeeps, UserDrops, UserCalls, LoopStep, Swap, RunFunctor, EndTurn,
               DestroyLoop, QuitBase, BeginDestroy, DestructorStep, EraseConnection,
               QuitThread, JoinThread, EndDestroy, PeerConnects, OtherOpens,
               OtherCloses, Over
      <4> QED BY <4>1, <4>2
    <3>2. c \in inMap
      BY <2>1, <3>1, FrameStep DEF MapIsComplete
    <3>3. ~EraseConnection(c)
      BY <3>1 DEF EraseConnection
    <3> QED BY <3>2, <3>3, MapLoss
  <2>2. CASE c \notin 1..(nextConnId - 1)
    <3>1. NewConnection /\ c = nextConnId
      BY <2>2, FrameStep, LoopOfStep
    <3> QED BY <3>1 DEF NewConnection
  <2> QED BY <2>1, <2>2
<1> QED BY <1>1, <1>2, TypeInvariant, QueueInvariant, PTL DEF Spec

-----------------------------------------------------------------------------
(* A connection whose channel is registered.                               *)

Destroy(c) == Functor("connectDestroyed", c)
Remove(c) == Functor("removeConnectionInLoop", c)

\* A connection on its way: in connections_, or in a functor that takes it out of
\* the poller, or out of connections_ where it has been before.
OnPath(c) ==
  \/ c \in inMap
  \/ Destroy(c) \in Held(loopOf[c])
  \/ stage[c] = "again" /\ Remove(c) \in Held(Base)

\* RegisteredIsHeld, and the same of connections still to be established.
PathInv ==
  \A c \in Conns, l \in Loops :
     /\ stage[c] \in {"made", "up", "again"}
     /\ loopOf[c] = l /\ phase[l] \in {"poll", "run"}
     => OnPath(c)

\* What a step queues is held then.
LEMMA HeldEnqueued ==
  ASSUME TypeInv, TypeInv', NEW l \in Loops, NEW c \in Conns,
         NEW op \in {"connectDestroyed", "removeConnectionInLoop"},
         Enqueue(l, op, c)
  PROVE  Functor(op, c) \in Held(l)'
<1>1. Functor(op, c) \in Functors
  BY FunctorType
<1>2. pending'[l] = Append(pending[l], Functor(op, c)) /\ pending[l] \in Seq(Functors)
  BY DEF Enqueue, TypeInv, TypeOK
<1>3. Functor(op, c) \in Members(pending'[l])
  BY <1>1, <1>2, MembersAppend
<1> QED BY <1>3 DEF Held, Members

\* handleClose of a connection that has been destroyed puts it on its way out.
LEMMA HandleClosePath ==
  ASSUME TypeInv, TypeInv', NEW c \in Conns, HandleClose(c), stage[c] = "down",
         loopOf'[c] = loopOf[c]
  PROVE  OnPath(c)'
<1>1. Base \in Loops /\ loopOf[c] \in Loops
  BY TcpServerAssumption DEF TypeInv, TypeOK, Loops, Base
<1>2. stage'[c] = "again"
  BY DEF HandleClose, TypeInv, TypeOK
<1>3. CASE Enqueue(loopOf[c], "connectDestroyed", c)
  BY <1>1, <1>3, HeldEnqueued DEF OnPath, Destroy
<1>4. CASE Enqueue(Base, "removeConnectionInLoop", c)
  BY <1>1, <1>2, <1>4, HeldEnqueued DEF OnPath, Remove
<1> QED BY <1>3, <1>4 DEF HandleClose, RemoveInLoop

\* A loop that runs has run before, but for those that start() starts.
LEMMA AliveBefore ==
  ASSUME TypeInv, LoopsInv, [Next]_vars, NEW m \in Loops,
         phase'[m] \in {"poll", "run"}, serverPc # "new"
  PROVE  phase[m] \in {"poll", "run"}
BY PhaseChange DEF Start

\* The base loop's object goes only behind the server, when no loop runs.
LEMMA BaseGoesLast ==
  ASSUME TypeInv, LoopsInv, [Next]_vars, phase'[Base] = "destroyed", NEW m \in Loops
  PROVE  phase[m] \notin {"poll", "run"}
<1>1. Base \in Loops
  BY TcpServerAssumption DEF Loops, Base
<1>2. serverPc = "gone"
  BY <1>1, PhaseChange DEF LoopsInv
<1> QED BY <1>2, Outlives DEF ServerOutlivesItsLoops

\* Without a late startRead, only a call of handleClose registers a connection
\* that has been destroyed once more.
LEMMA AgainStep ==
  ASSUME "startReadInLoop" \notin UserOps,
         TypeInv, [Next]_vars, NEW c \in Conns,
         stage[c] = "down", stage'[c] = "again"
  PROVE  HandleClose(c)
<1>0. stage \in [Conns -> {"unused", "made", "up", "down", "again"}]
  BY DEF TypeInv, TypeOK
<1>1. ASSUME NEW d \in Conns, HandleClose(d)
      PROVE  d = c
  BY <1>0, <1>1 DEF HandleClose
<1>2. CASE NewConnection
  BY <1>0, <1>2 DEF NewConnection
<1>3. ASSUME NEW d \in Conns, Hangup(d) \/ UserStep(d) \/ EraseConnection(d)
      PROVE  HandleClose(c)
  BY <1>0, <1>1, <1>3 DEF Hangup, UserStep, UserKeeps, UserDrops, UserCalls,
     EraseConnection, DestroyInLoop, connVars
<1>4. ASSUME NEW l \in Loops, LoopStep(l)
      PROVE  HandleClose(c)
  <2>1. RunFunctor(l)
    BY <1>4 DEF LoopStep, Swap, EndTurn, DestroyLoop, connVars
  <2>2. PICK d \in Conns, op \in {"connectEstablished", "connectDestroyed",
                                  "removeConnectionInLoop"} \cup UserOps :
          op = Head(batch[l]).op /\ d = Head(batch[l]).conn
    BY <2>1, RunHead, FunctorParts
  <2>3. Effect(op, d)
    BY <2>1, <2>2 DEF RunFunctor
  <2>4. op # "startReadInLoop"
    BY <2>2
  <2>5. ~Becomes(d, "up") /\ ~Becomes(d, "down")
    BY <1>0 DEF Becomes
  <2> QED BY <1>1, <2>3, <2>4, <2>5 DEF Effect
<1>5. CASE \/ Start \/ TurnPeerAway \/ QuitBase \/ BeginDestroy \/ QuitThread
           \/ JoinThread \/ EndDestroy \/ PeerConnects \/ OtherOpens
           \/ OtherCloses \/ Over \/ UNCHANGED vars
  BY <1>5 DEF Start, TurnPeerAway, QuitBase, BeginDestroy, QuitThread,
     JoinThread, EndDestroy, PeerConnects, OtherOpens, OtherCloses, Over,
     vars, connVars
<1> QED BY <1>2, <1>3, <1>4, <1>5 DEF Next, DestructorStep

\* No step takes a connection off the path.
LEMMA PathStep ==
  ASSUME NamesFit, "startReadInLoop" \notin UserOps,
         TypeInv, TypeInv', LoopsInv, QueueInv, PathInv, [Next]_vars
  PROVE  PathInv'
<1> SUFFICES ASSUME NEW c \in Conns, NEW m \in Loops,
                    stage'[c] \in {"made", "up", "again"},
                    loopOf'[c] = m, phase'[m] \in {"poll", "run"}
             PROVE  OnPath(c)'
  BY DEF PathInv
<1>1. CASE NewConnection /\ c = nextConnId
  BY <1>1 DEF NewConnection, OnPath
<1>2. CASE ~(NewConnection /\ c = nextConnId)
  <2>1. /\ stage[c] \in {"made", "up", "down", "again"}
        /\ stage[c] = "down" => stage'[c] = "again"
    <3>1. ASSUME stage[c] = "unused"
          PROVE  FALSE
      <4>1. PICK l \in Loops : Runs(l, "connectEstablished", c)
        BY <1>2, <3>1, StageStep
      <4>2. Establish(c) \in Held(l)
        BY <4>1, RunHead DEF Runs, Establish
      <4>3. c \in Made
        BY <4>2 DEF QueueInv, MadeInv, Establish, Functor
      <4> QED BY <3>1, <4>3 DEF Made
    <3>2. ASSUME stage[c] = "down", stage'[c] # "again"
          PROVE  FALSE
      <4>1. PICK l \in Loops : Runs(l, "connectEstablished", c)
        BY <1>2, <3>2, StageStep
      <4>2. Establish(c) \in Held(l)
        BY <4>1, RunHead DEF Runs, Establish
      <4>3. c \in Made
        BY <4>2 DEF QueueInv, MadeInv, Establish, Functor
      <4> QED BY <3>2, <4>3 DEF Made
    <3> QED BY <3>1, <3>2 DEF TypeInv, TypeOK
  <2>2. c < nextConnId
    <3>1. ~(c >= nextConnId)
      BY <2>1 DEF QueueInv, KnownInv
    <3> QED BY <3>1, LoopOfStep DEF Conns
  <2>3. loopOf[c] = m /\ phase[m] \in {"poll", "run"}
    <3>1. serverPc # "new"
      BY <2>2 DEF TypeInv, Conns
    <3> QED BY <2>2, <3>1, LoopOfStep, AliveBefore
  <2>4. CASE stage[c] = "down"
    BY <2>1, <2>3, <2>4, AgainStep, HandleClosePath
  <2>5. CASE stage[c] # "down"
    <3>1. OnPath(c)
      BY <2>1, <2>3, <2>5 DEF PathInv
    <3>2. stage'[c] # "down"
      OBVIOUS
    <3>3. CASE c \in inMap
      <4>1. ~EraseConnection(c) \/ loopOf[c] # Base
        BY <3>2 DEF EraseConnection, DestroyInLoop, TypeInv, TypeOK
      <4>2. EraseConnection(c) /\ loopOf[c] # Base
               => Enqueue(loopOf[c], "connectDestroyed", c)
        BY DEF EraseConnection, DestroyInLoop
      <4>3. c \in inMap' \/ Enqueue(loopOf[c], "connectDestroyed", c)
        BY <3>3, <4>1, <4>2, MapLoss
      <4> QED BY <2>3, <4>3, HeldEnqueued DEF OnPath, Destroy
    <3>4. CASE Destroy(c) \in Held(m)
      <4>1. ~(RunFunctor(m) /\ Destroy(c) = Head(batch[m]))
        <5> SUFFICES ASSUME RunFunctor(m), Destroy(c) = Head(batch[m]) PROVE FALSE
          OBVIOUS
        <5>1. Effect("connectDestroyed", c)
          BY DEF RunFunctor, Destroy, Functor
        <5> QED BY <3>2, <5>1 DEF Effect, Becomes, TypeInv, TypeOK
      <4> QED BY <2>3, <3>4, <4>1, HeldBefore DEF QueueInv, OnPath
    <3>5. CASE stage[c] = "again" /\ Remove(c) \in Held(Base)
      <4>0. Base \in Loops
        BY TcpServerAssumption DEF Loops, Base
      <4>1. stage'[c] = "again"
        BY <3>2, <3>5, LifeStep
      <4>2. CASE Remove(c) \in Held(Base)'
        BY <4>1, <4>2 DEF OnPath
      <4>3. CASE RunFunctor(Base) /\ Remove(c) = Head(batch[Base])
        <5>1. Effect("removeConnectionInLoop", c)
          BY <4>3 DEF RunFunctor, Remove, Functor
        <5>2. RemoveInLoop(c)
          BY <5>1 DEF Effect
        <5> QED BY <2>3, <5>2, HeldEnqueued DEF RemoveInLoop, OnPath, Destroy
      <4>4. phase'[Base] # "destroyed"
        BY <2>3, BaseGoesLast
      <4> QED BY <3>5, <4>0, <4>2, <4>3, <4>4, HeldBefore DEF QueueInv
    <3> QED BY <2>3, <3>1, <3>3, <3>4, <3>5 DEF OnPath
  <2> QED BY <2>4, <2>5
<1> QED BY <1>1, <1>2

\* The invariant of the fifth layer.
LEMMA PathInvariant ==
  ASSUME NamesFit, "startReadInLoop" \notin UserOps
  PROVE  Spec => []PathInv
<1>1. Init => PathInv
  BY DEF Init, PathInv
<1>2. TypeInv /\ TypeInv' /\ LoopsInv /\ QueueInv /\ PathInv /\ [Next]_vars
        => PathInv'
  BY PathStep
<1> QED BY <1>1, <1>2, TypeInvariant, LoopsInvariant, QueueInvariant, PTL DEF Spec

\* As long as its loop runs, whatever the poller knows by its raw pointer is in
\* connections_, or its own loop is about to take it out, or, if it has been taken
\* out before and no one has told the base loop to quit, that loop is about to
\* remove it; unless the user calls startRead() on a connection that has been
\* removed (tcpServer.cc:93-106, tcpConnection.cc:280).
THEOREM RegisteredHeld ==
  ASSUME NamesFit, "startReadInLoop" \notin UserOps
  PROVE  Spec => []RegisteredIsHeld
<1>1. TypeInv /\ PathInv => RegisteredIsHeld
  <2> SUFFICES ASSUME TypeInv, PathInv, NEW c \in Conns, Registered(c),
                      phase[loopOf[c]] \in {"poll", "run"}
               PROVE  OnPath(c)
    BY DEF RegisteredIsHeld, OnPath, Destroy, Remove
  <2>1. loopOf[c] \in Loops
    BY DEF TypeInv, TypeOK
  <2> QED BY <2>1 DEF PathInv, Registered
<1> QED BY <1>1, TypeInvariant, PathInvariant, PTL

-----------------------------------------------------------------------------
(* Connections in existence, and descriptors.                              *)

Live == {c \in Conns : Referenced(c)}

\* What a loop holds keeps its connection in existence.
LEMMA HeldKeeps ==
  ASSUME "startReadInLoop" \notin UserOps, TypeInv, QueueInv,
         NEW l \in Loops, NEW f \in Held(l)
  PROVE  Referenced(f.conn)
<1>1. f \in Functors
  BY HeldType DEF QueueInv
<1>2. f.op # "startReadInLoop"
  BY <1>1, FunctorParts
<1> QED BY <1>2 DEF Referenced, HoldsPointer

\* A connection that the user, the poller or a loop can reach is in existence,
\* so that none comes back to it.
LEMMA LiveStep ==
  ASSUME NamesFit, "startReadInLoop" \notin UserOps,
         TypeInv, TypeInv', QueueInv, PathInv, [Next]_vars, NEW c \in Live'
  PROVE  c \in Live \/ (NewConnection /\ c = nextConnId)
<1>0. c \in Conns /\ Referenced(c)'
  BY DEF Live, Conns
<1>1. ASSUME NEW d \in Conns, stage[d] \in {"up", "again"}, InLoop(loopOf[d])
      PROVE  Referenced(d)
  <2>1. OnPath(d)
    BY <1>1 DEF PathInv, InLoop, TypeInv, TypeOK
  <2>2. Base \in Loops /\ loopOf[d] \in Loops
    BY TcpServerAssumption DEF TypeInv, TypeOK, Loops, Base
  <2>3. Destroy(d).conn = d /\ Remove(d).conn = d
    BY DEF Destroy, Remove, Functor
  <2> QED BY <2>1, <2>2, <2>3, HeldKeeps DEF OnPath, Referenced
<1>2. ASSUME c \in inMap' \cup kept'
      PROVE  c \in Live \/ (NewConnection /\ c = nextConnId)
  <2>1. CASE c \in inMap \cup kept
    BY <1>0, <2>1 DEF Live, Referenced
  <2>2. CASE NewConnection /\ c = nextConnId
    BY <2>2
  <2>3. CASE UserKeeps(c)
    BY <1>0, <1>1, <2>3 DEF UserKeeps, Live
  <2>4. \/ c \in inMap \cup kept
        \/ NewConnection /\ c = nextConnId
        \/ UserKeeps(c)
    <3>1. ASSUME NEW d \in Conns, UserKeeps(d), kept' = kept \cup {d},
                 c \in kept', c \notin kept
          PROVE  UserKeeps(c)
      <4>1. c = d
        BY <3>1
      <4> QED BY <3>1, <4>1
    <3> QED BY <1>2, <3>1, MapStep
  <2> QED BY <2>1, <2>2, <2>3, <2>4
<1>3. ASSUME NEW l \in Loops, NEW f \in Held(l)', f.conn = c
      PROVE  c \in Live \/ (NewConnection /\ c = nextConnId)
  <2>1. CASE f \in Held(l)
    BY <1>0, <1>3, <2>1, HeldKeeps DEF Live
  <2>2. CASE Adds(l, f)
    <3>1. CASE NewConnection /\ f = Functor("connectEstablished", nextConnId)
      BY <1>3, <3>1 DEF Functor
    <3>2. CASE Referenced(c)
      BY <1>0, <3>2 DEF Live
    <3>3. CASE Hangup(c)
      BY <1>0, <1>1, <3>3 DEF Hangup, Registered, Live
    <3> QED BY <1>3, <2>2, <3>1, <3>2, <3>3 DEF Adds
  <2> QED BY <2>1, <2>2, HeldAfter DEF QueueInv
<1>4. c \in inMap' \cup kept' \/ \E l \in Loops : \E f \in Held(l)' : f.conn = c
  BY <1>0 DEF Referenced
<1> QED BY <1>2, <1>3, <1>4

\* No more descriptors are open than the process may open; and one is left for
\* the spare while it is closed, or another thread has taken it.
SpareInv ==
  /\ Free >= 0
  /\ serverPc # "gone" /\ acceptorPc \in {"idle", "full"} => idleFd \/ stolen
  /\ acceptorPc \in {"closed", "answered"} => ~idleFd /\ (Free > 0 \/ stolen)

\* Connections in existence are finitely many, and descriptors are counted.
LEMMA LiveCount ==
  ASSUME TypeInv
  PROVE  /\ IsFiniteSet(Live) /\ Cardinality(Live) \in Nat
         /\ Free = Descriptors - Cardinality(Live) - others - (IF idleFd THEN 1 ELSE 0)
<1>1. IsFiniteSet(Conns)
  BY FS_Interval, TcpServerAssumption DEF Conns
<1>2. IsFiniteSet(Live)
  BY <1>1, FS_Subset DEF Live
<1> QED BY <1>2, FS_CardinalityType DEF Free, Live

\* Only newConnection opens a connection, and it opens one.
LEMMA LiveCountStep ==
  ASSUME NamesFit, "startReadInLoop" \notin UserOps,
         TypeInv, TypeInv', QueueInv, PathInv, [Next]_vars
  PROVE  /\ Cardinality(Live') \in Nat
         /\ ~NewConnection => Cardinality(Live') <= Cardinality(Live)
         /\ Cardinality(Live') <= Cardinality(Live) + 1
<1>1. IsFiniteSet(Live) /\ Cardinality(Live) \in Nat
  BY LiveCount
<1>2. CASE ~NewConnection
  <2>1. Live' \subseteq Live
    BY <1>2, LiveStep
  <2> QED BY <1>1, <2>1, FS_Subset, FS_CardinalityType
<1>3. Live' \subseteq Live \cup {nextConnId}
  BY LiveStep
<1>4. /\ IsFiniteSet(Live \cup {nextConnId})
      /\ Cardinality(Live \cup {nextConnId}) <= Cardinality(Live) + 1
      /\ Cardinality(Live \cup {nextConnId}) \in Nat
  <2> DEFINE bigger == Live \cup {nextConnId}
  <2>1. /\ IsFiniteSet(bigger)
        /\ \/ Cardinality(bigger) = Cardinality(Live)
           \/ Cardinality(bigger) = Cardinality(Live) + 1
    BY <1>1, FS_AddElement
  <2> HIDE DEF bigger
  <2>2. Cardinality(bigger) <= Cardinality(Live) + 1 /\ Cardinality(bigger) \in Nat
    BY <1>1, <2>1
  <2> QED BY <2>1, <2>2 DEF bigger
<1>5. /\ Cardinality(Live') <= Cardinality(Live \cup {nextConnId})
      /\ Cardinality(Live') \in Nat
  BY <1>3, <1>4, FS_Subset, FS_CardinalityType
<1> QED BY <1>1, <1>2, <1>4, <1>5

\* Every step leaves a descriptor for the spare, or another thread has taken it.
LEMMA SpareStep ==
  ASSUME NamesFit, "startReadInLoop" \notin UserOps,
         TypeInv, TypeInv', QueueInv, PathInv, SpareInv, [Next]_vars
  PROVE  SpareInv'
<1> DEFINE n == Cardinality(Live)
           p == Cardinality(Live')
<1>1. /\ n \in Nat /\ p \in Nat /\ p <= n + 1
      /\ NewConnection \/ p <= n
  BY LiveCount, LiveCountStep
<1>2. /\ Descriptors \in Nat /\ others \in Nat /\ idleFd \in BOOLEAN
      /\ others' \in Nat /\ idleFd' \in BOOLEAN /\ stolen \in BOOLEAN
      /\ acceptorPc \in {"idle", "full", "closed", "answered"}
  BY TcpServerAssumption DEF TypeInv, TypeOK, AcceptorPoints
<1>3. /\ Free = Descriptors - n - others - (IF idleFd THEN 1 ELSE 0)
      /\ Free' = Descriptors - p - others' - (IF idleFd' THEN 1 ELSE 0)
  BY LiveCount DEF Free, Live
<1>4. /\ idleFd => Free = Descriptors - n - others - 1
      /\ ~idleFd => Free = Descriptors - n - others
      /\ idleFd' => Free' = Descriptors - p - others' - 1
      /\ ~idleFd' => Free' = Descriptors - p - others'
  <2> HIDE DEF n, p
  <2> QED BY <1>1, <1>2, <1>3
<1> HIDE DEF n, p
<1> USE DEF SpareInv
<1>5. CASE NewConnection
  <2>1. UNCHANGED <<idleFd, acceptorPc, others, stolen, serverPc>>
          /\ acceptorPc = "idle" /\ Free > 0
    BY <1>5 DEF NewConnection, Accept, otherVars
  <2> QED BY <1>1, <1>2, <1>4, <2>1
<1>6. CASE TurnPeerAway
  <2>1. /\ UNCHANGED <<others, stolen, serverPc>> /\ serverPc = "running"
        /\ ~NewConnection
    BY <1>6 DEF TurnPeerAway, otherVars, NewConnection, connVars, Refuse, Accept,
       AcceptFails, CloseSpare, TurnAway, OpenSpare
  <2>2. CASE AcceptFails(Free)
    BY <1>1, <1>2, <1>4, <2>1, <2>2 DEF AcceptFails
  <2>3. CASE CloseSpare
    BY <1>1, <1>2, <1>4, <2>1, <2>3 DEF CloseSpare
  <2>4. CASE TurnAway(Free)
    BY <1>1, <1>2, <1>4, <2>1, <2>4 DEF TurnAway
  <2>5. CASE OpenSpare(Free)
    <3>1. acceptorPc = "answered" /\ acceptorPc' = "idle"
      BY <2>5 DEF OpenSpare
    <3>2. CASE Free > 0
      <4>1. idleFd' = TRUE
        BY <2>5, <3>2 DEF OpenSpare
      <4> QED BY <1>1, <1>2, <1>4, <2>1, <3>1, <3>2, <4>1
    <3>3. CASE ~(Free > 0)
      <4>1. idleFd' = FALSE
        BY <1>2, <2>5, <3>3 DEF OpenSpare
      <4>2. stolen /\ stolen' = stolen
        BY <2>1, <3>1, <3>3
      <4>3. Free' >= 0
        BY <1>1, <1>2, <1>4, <2>1, <3>1, <4>1
      <4> QED BY <2>1, <3>1, <4>2, <4>3
    <3> QED BY <3>2, <3>3
  <2> QED BY <1>6, <2>2, <2>3, <2>4, <2>5 DEF TurnPeerAway, Refuse
<1>7. CASE EndDestroy
  <2>1. acceptorPc = "idle" /\ acceptorPc' = "idle" /\ serverPc' = "gone"
          /\ idleFd' = FALSE /\ others' = others /\ ~NewConnection
    BY <1>7 DEF EndDestroy, CloseAcceptor, otherVars, TypeInv, NewConnection
  <2> QED BY <1>1, <1>2, <1>4, <2>1
<1>8. CASE OtherOpens
  <2>1. /\ UNCHANGED <<idleFd, acceptorPc, serverPc>> /\ others' = others + 1
        /\ Free > 0 /\ stolen' = (stolen \/ acceptorPc # "idle") /\ ~NewConnection
    BY <1>2, <1>8 DEF OtherOpens, acceptorVars, NewConnection, otherVars
  <2>2. Free' >= 0
    BY <1>1, <1>2, <1>4, <2>1
  <2>3. acceptorPc = "idle" => stolen' = stolen
    BY <1>2, <2>1
  <2>4. acceptorPc # "idle" => stolen'
    BY <1>2, <2>1
  <2> QED BY <1>2, <2>1, <2>2, <2>3, <2>4
<1>9. CASE OtherCloses
  <2>1. /\ UNCHANGED <<idleFd, acceptorPc, serverPc, stolen>> /\ others' = others - 1
        /\ ~NewConnection
    BY <1>2, <1>9 DEF OtherCloses, acceptorVars, NewConnection, otherVars
  <2> QED BY <1>1, <1>2, <1>4, <2>1
<1>10. ASSUME UNCHANGED <<idleFd, acceptorPc, others, stolen>>, ~NewConnection,
             serverPc = "gone" => serverPc' = "gone"
      PROVE  SpareInv'
  BY <1>1, <1>2, <1>4, <1>10
<1>11. ASSUME NEW c \in Conns, Hangup(c) \/ UserStep(c) \/ EraseConnection(c),
             ~NewConnection
      PROVE  SpareInv'
  BY <1>10, <1>11 DEF Hangup, UserStep, UserKeeps, UserDrops, UserCalls,
     EraseConnection, acceptorVars, otherVars
<1>12. ASSUME NEW l \in Loops, LoopStep(l), ~NewConnection
       PROVE  SpareInv'
  BY <1>10, <1>12 DEF LoopStep, Swap, RunFunctor, EndTurn, DestroyLoop,
     acceptorVars, otherVars
<1>13. CASE /\ ~NewConnection
            /\ \/ Start \/ QuitBase \/ BeginDestroy \/ QuitThread \/ JoinThread
               \/ PeerConnects \/ Over \/ UNCHANGED vars
  BY <1>10, <1>13 DEF Start, QuitBase, BeginDestroy, QuitThread, JoinThread,
     PeerConnects, Over, vars, acceptorVars, otherVars
<1> QED
  BY <1>5, <1>6, <1>7, <1>8, <1>9, <1>11, <1>12, <1>13 DEF Next, DestructorStep

\* The acceptor always gets its spare descriptor back, unless another thread was
\* faster (acceptor.cc:60-66).
THEOREM SpareKept ==
  ASSUME NamesFit, "startReadInLoop" \notin UserOps
  PROVE  Spec => []SpareIsKept
<1>1. Init => SpareInv
  <2> SUFFICES ASSUME Init PROVE SpareInv
    OBVIOUS
  <2>1. Live = {}
    <3>1. \A l \in Loops : Held(l) = {}
      BY DEF Init, Held
    <3> QED BY <3>1 DEF Init, Live, Referenced
  <2>2. TypeInv
    BY TypeInit
  <2>3. Free = Descriptors - 1
    BY <2>1, <2>2, LiveCount, FS_EmptySet, TcpServerAssumption DEF Init, AcceptorInit
  <2> QED BY <2>3, TcpServerAssumption DEF SpareInv, Init, AcceptorInit
<1>2. TypeInv /\ TypeInv' /\ QueueInv /\ PathInv /\ SpareInv /\ [Next]_vars => SpareInv'
  BY SpareStep
<1>3. SpareInv => SpareIsKept
  BY DEF SpareInv, SpareIsKept
<1> QED
  BY <1>1, <1>2, <1>3, TypeInvariant, QueueInvariant, PathInvariant, PTL DEF Spec
=============================================================================

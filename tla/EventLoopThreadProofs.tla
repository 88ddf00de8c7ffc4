------------------------ MODULE EventLoopThreadProofs ------------------------
(***************************************************************************)
(* The lifetimes of EventLoopThread, for any functors: what startLoop      *)
(* returns exists, and the thread leaves the object alone once it is gone. *)
(* The loop on the thread's stack is an EventLoop whose one caller is the  *)
(* owner, so what is proved of every EventLoop holds of it.                *)
(***************************************************************************)
EXTENDS EventLoopThread, TLAPS

LoopProofs == INSTANCE EventLoopProofs WITH Callers <- {owner}

\* Where the thread is when the owner has its loop, and when it is done.
HasLoop == ownerPc \in {"started", "deleting", "quitting", "joining"}

\* The inductive invariant: loop_ is set exactly while the thread is in loop(),
\* the owner has a pointer only behind that, and leaves only behind the end.
IInv ==
  /\ TypeOK
  /\ ownerPc = "new" => childPc = "none"
  /\ loopSet <=> childPc = "loop"
  /\ HasLoop => childPc \in {"loop", "unwinding", "ended"}
  /\ ownerPc = "gone" => childPc \in {"none", "unwinding", "ended"}
  /\ childPc \in {"unwinding", "ended"} => pc = "exited"
  /\ pc = "exited" => quit

\* A loop that has returned stays so, and it returned because of quit_.
LEMMA LoopSteps ==
  ASSUME Loop!LoopStep \/ Loop!PollTimeout \/ Loop!UserStep
  PROVE  (pc = "exited" => quit) => pc # "exited" /\ (pc' = "exited" => quit')
<1>1. CASE Loop!PollTimeout
  BY <1>1 DEF Loop!PollTimeout
<1>2. CASE Loop!LoopStep
  BY <1>2
  DEF Loop!LoopStep, Loop!EnterLoop, Loop!TestQuit, Loop!PollReady,
      Loop!HandleWakeup, Loop!HandleIo, Loop!BeginPendingFunctors,
      Loop!SwapFunctors, Loop!RunFunctor, Loop!EndPendingFunctors,
      Loop!ReturnFromUser
<1>3. CASE Loop!UserStep
  BY <1>3
  DEF Loop!UserStep, Loop!QueueFromLoop, Loop!RunFromLoop, Loop!QuitFromLoop,
      Loop!UserCode
<1> QED BY <1>1, <1>2, <1>3

\* There is no loop yet.
LEMMA InitInv == Init => IInv
<1> SUFFICES ASSUME Init PROVE IInv
  OBVIOUS
<1>1. ownerPc = "new" /\ childPc = "none" /\ sem = 0 /\ loopSet = FALSE
  BY DEF Init, InitialLoop
<1>2. pc = "created"
  BY DEF Init, Loop!Init
<1>3. TypeOK
  <2>1. ownerPc \in OwnerPoints /\ childPc \in ChildPoints
    BY <1>1 DEF OwnerPoints, ChildPoints
  <2>2. sem \in 0..1
    BY <1>1
  <2>3. loopSet \in BOOLEAN
    BY <1>1
  <2> QED BY <2>1, <2>2, <2>3 DEF TypeOK
<1>4. loopSet <=> childPc = "loop"
  BY <1>1
<1> QED
  BY <1>1, <1>2, <1>3, <1>4 DEF IInv, HasLoop

\* Every step keeps loop_ and the loop on the stack together.
LEMMA NextInv ==
  ASSUME IInv, [Next]_vars
  PROVE  IInv'
<1> USE DEF IInv, TypeOK, OwnerPoints, ChildPoints, HasLoop
<1>1. CASE Start \/ SemWait \/ TestLoop \/ SpuriousWakeup
  BY <1>1 DEF Start, SemWait, TestLoop, SpuriousWakeup, loopVars
<1>2. CASE SemPost
  BY <1>2 DEF SemPost, loopVars
<1>3. CASE Publish
  BY <1>3 DEF Publish, NotifyOwner, loopVars
<1>4. CASE UserCode \/ InLoop
  <2>1. UNCHANGED <<ownerPc, childPc, sem, loopSet>>
    BY <1>4 DEF UserCode, InLoop, threadVars
  <2>2. pc # "exited" /\ (pc' = "exited" => quit')
    BY <1>4, LoopSteps DEF UserCode, InLoop
  <2> QED BY <2>1, <2>2
<1>5. CASE ClearLoop
  BY <1>5 DEF ClearLoop, loopVars
<1>6. CASE EndThread
  BY <1>6 DEF EndThread, loopVars
<1>7. CASE UseLoop
  <2>1. UNCHANGED <<ownerPc, childPc, sem, loopSet>>
    BY <1>7 DEF UseLoop, threadVars
  <2>2. pc' = pc /\ quit' = quit
    BY <1>7 DEF UseLoop, Loop!QueueFromCaller, Loop!WakeAndUnlock
  <2> QED BY <2>1, <2>2
<1>8. CASE Destroy
  BY <1>8 DEF Destroy, loopVars
<1>9. CASE CallQuit
  BY <1>9 DEF CallQuit, Loop!QuitFromCaller
<1>10. CASE WakeForQuit
  BY <1>10 DEF WakeForQuit, Loop!WakeAfterQuit
<1>11. CASE UseDeadLoop \/ Join
  BY <1>11 DEF UseDeadLoop, Join, loopVars
<1>12. CASE Finished \/ UNCHANGED vars
  BY <1>12 DEF Finished, vars, loopVars
<1> QED
  BY <1>1, <1>2, <1>3, <1>4, <1>5, <1>6, <1>7, <1>8, <1>9, <1>10,
     <1>11, <1>12 DEF Next

\* The inductive invariant holds in every state.
LEMMA Inductive == Spec => []IInv
BY InitInv, NextInv, PTL DEF Spec

\* The steps of the loop thread are those of an EventLoop ...
LEMMA LoopStepIsOne ==
  ASSUME Loop!LoopStep \/ Loop!PollTimeout
  PROVE  LoopProofs!LoopStep \/ LoopProofs!PollTimeout
BY DEF Loop!LoopStep, LoopProofs!LoopStep, Loop!PollTimeout,
      LoopProofs!PollTimeout, Loop!Channels, LoopProofs!Channels,
      Loop!EnterLoop, LoopProofs!EnterLoop, Loop!TestQuit,
      LoopProofs!TestQuit, Loop!PollReady, LoopProofs!PollReady,
      Loop!HandleWakeup, LoopProofs!HandleWakeup, Loop!HandleIo,
      LoopProofs!HandleIo, Loop!BeginPendingFunctors,
      LoopProofs!BeginPendingFunctors, Loop!SwapFunctors,
      LoopProofs!SwapFunctors, Loop!RunFunctor, LoopProofs!RunFunctor,
      Loop!EndPendingFunctors, LoopProofs!EndPendingFunctors,
      Loop!ReturnFromUser, LoopProofs!ReturnFromUser

\* ... as are those of the user code on it ...
LEMMA UserStepIsOne ==
  ASSUME Loop!UserStep
  PROVE  LoopProofs!UserStep
BY DEF Loop!UserStep, LoopProofs!UserStep, Loop!QueueFromLoop,
      LoopProofs!QueueFromLoop, Loop!RunFromLoop, LoopProofs!RunFromLoop,
      Loop!QuitFromLoop, LoopProofs!QuitFromLoop, Loop!UserCode,
      LoopProofs!UserCode, Loop!Wakeup, LoopProofs!Wakeup, Loop!NeedsWakeup,
      LoopProofs!NeedsWakeup

\* ... and those of the owner, its one caller.
LEMMA OwnerStepIsOne ==
  ASSUME \/ \E f \in Tasks : Loop!QueueFromCaller(owner, f)
         \/ Loop!WakeAndUnlock(owner)
         \/ Loop!QuitFromCaller(owner)
         \/ Loop!WakeAfterQuit(owner)
  PROVE  LoopProofs!CallerStep(owner)
BY DEF LoopProofs!CallerStep, Loop!QueueFromCaller, LoopProofs!QueueFromCaller, Loop!WakeAndUnlock,
      LoopProofs!WakeAndUnlock, Loop!QuitFromCaller,
      LoopProofs!QuitFromCaller, Loop!WakeAfterQuit,
      LoopProofs!WakeAfterQuit, Loop!Wakeup, LoopProofs!Wakeup,
      Loop!NeedsWakeup, LoopProofs!NeedsWakeup

\* Nothing that the owner or the thread does to the loop is outside what an
\* EventLoop with the owner as its caller does.
LEMMA LoopOrStutter ==
  ASSUME [Next]_vars
  PROVE  LoopProofs!Next \/ UNCHANGED loopVars
<1>1. CASE UserCode
  BY <1>1, UserStepIsOne DEF UserCode, LoopProofs!Next
<1>2. CASE InLoop
  BY <1>2, LoopStepIsOne DEF InLoop, LoopProofs!Next
<1>3. CASE UseLoop
  BY <1>3, OwnerStepIsOne DEF UseLoop, LoopProofs!Next
<1>4. CASE CallQuit
  BY <1>4, OwnerStepIsOne DEF CallQuit, LoopProofs!Next
<1>5. CASE WakeForQuit
  BY <1>5, OwnerStepIsOne DEF WakeForQuit, LoopProofs!Next
<1>6. CASE Start \/ SemWait \/ TestLoop \/ SpuriousWakeup \/ SemPost
             \/ Publish \/ ClearLoop \/ EndThread \/ Destroy \/ UseDeadLoop
             \/ Join \/ Finished \/ UNCHANGED vars
  BY <1>6 DEF Start, SemWait, TestLoop, SpuriousWakeup, SemPost, Publish,
              ClearLoop, EndThread, Destroy, UseDeadLoop, Join, Finished, vars
<1> QED
  BY <1>1, <1>2, <1>3, <1>4, <1>5, <1>6 DEF Next

\* The loop on the thread's stack behaves as an EventLoop with one caller.
LEMMA IsALoop == Spec => LoopProofs!Spec
<1>1. Init => LoopProofs!Init
  BY DEF Init, Loop!Init, LoopProofs!Init, Loop!InitialQuit, LoopProofs!InitialQuit
<1>2. [Next]_vars => [LoopProofs!Next]_(LoopProofs!vars)
  BY LoopOrStutter DEF LoopProofs!vars, loopVars
<1> QED
  BY <1>1, <1>2, PTL DEF Spec, LoopProofs!Spec

\* The assumption of EventLoop, about the constants it has here.
LEMMA OneCaller == EarlyTasks \subseteq Tasks /\ NoThread \notin {owner}
BY EventLoopThreadAssumption

\* Owner and child stay within their programs, the semaphore is posted at most
\* once, and the members of the loop keep their types, whether the owner or
\* the thread uses it (eventLoopThread.cc:30-71, thread.cc:33-49).
THEOREM TypeCorrect == Spec => [](TypeOK /\ Loop!TypeOK)
<1>1. IInv => TypeOK
  BY DEF IInv
<1>2. Spec => []LoopProofs!TypeOK
  BY IsALoop, OneCaller, LoopProofs!TypeCorrect, PTL
<1>3. LoopProofs!TypeOK <=> Loop!TypeOK
  BY DEF LoopProofs!TypeOK, LoopProofs!LoopPoints, LoopProofs!Channels,
         Loop!TypeOK, Loop!LoopPoints, Loop!Channels
<1> QED BY <1>1, <1>2, <1>3, Inductive, PTL

\* The owner finds the loop awake or wakes it up, whether it queues a functor
\* or the destructor calls quit(): the thread is never blocked in epoll_wait
\* with either unseen (eventLoop.cc:109-117, 143-156; eventLoopThread.cc:23).
THEOREM OwnerIsHeard == Spec => [](Loop!NoLostWakeup /\ Loop!QuitIsSeen)
<1>1. Spec => []LoopProofs!NoLostWakeup
  BY IsALoop, OneCaller, LoopProofs!WakeupNotLost, PTL
<1>2. Spec => []LoopProofs!QuitIsSeen
  BY IsALoop, OneCaller, LoopProofs!QuitNotLost, PTL
<1>3. /\ LoopProofs!NoLostWakeup <=> Loop!NoLostWakeup
      /\ LoopProofs!QuitIsSeen <=> Loop!QuitIsSeen
  BY DEF LoopProofs!NoLostWakeup, LoopProofs!QuitIsSeen, LoopProofs!Elements,
         Loop!NoLostWakeup, Loop!QuitIsSeen, Loop!Elements
<1> QED BY <1>1, <1>2, <1>3, PTL

\* What startLoop returns is a loop behind its ThreadInitCallback, gone only if
\* somebody has called quit() (eventLoopThread.cc:30-50).
THEOREM StartedLoop == Spec => []StartedLoopExists
<1>1. IInv => StartedLoopExists
  BY DEF IInv, HasLoop, StartedLoopExists
<1> QED BY <1>1, Inductive, PTL

\* The thread leaves the members alone once the destructor has returned
\* (eventLoopThread.cc:18-26, 70).
THEOREM ObjectOutlives == Spec => []ObjectOutlivesThread
<1>1. IInv => ObjectOutlivesThread
  BY DEF IInv, ObjectOutlivesThread
<1> QED BY <1>1, Inductive, PTL
=============================================================================

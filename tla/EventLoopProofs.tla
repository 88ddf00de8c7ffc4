--------------------------- MODULE EventLoopProofs ---------------------------
(***************************************************************************)
(* Theorems about EventLoop, for any callers and functors.                 *)
(*                                                                         *)
(* NoLostWakeup only speaks of the loop thread asleep in epoll_wait.  To   *)
(* carry it through a step, one must know it of every point from the end   *)
(* of the lock in doPendingFunctors to the next call of epoll_wait, since  *)
(* a functor queued there is not seen before that call returns; and at     *)
(* those points of it where a functor runs, that callingPendingFunctors_   *)
(* is set, so that what the functor itself queues comes with a wakeup.     *)
(***************************************************************************)
EXTENDS EventLoop, SequenceTheorems, TLAPS

\* Points at which a functor just queued will not be picked up without another
\* return of epoll_wait.
Sleepy == {"created", "test", "poll", "run", "functor", "exited"}

WakeInv ==
  pc \in Sleepy /\ Elements(pendingFunctors) \ EarlyTasks # {}
     => wakeupFd > 0 \/ mutex # NoThread

CallingInv == pc \in {"swap", "run", "functor"} <=> callingPendingFunctors

\* The local vector of doPendingFunctors lives only while its functors run.
LocalInv == functors # <<>> => pc \in {"run", "functor"}

IInv == TypeOK /\ WakeInv /\ CallingInv /\ LocalInv /\ QuitIsSeen

-----------------------------------------------------------------------------
(* Lemmas about Elements.                                                  *)

\* Appending adds one element.
LEMMA ElementsAppend ==
  ASSUME NEW s \in Seq(Tasks), NEW f \in Tasks
  PROVE  Elements(Append(s, f)) = Elements(s) \cup {f}
<1>1. Len(Append(s, f)) = Len(s) + 1 /\ Append(s, f)[Len(s) + 1] = f
  BY AppendProperties
<1>2. \A i \in 1..Len(s) : Append(s, f)[i] = s[i]
  BY AppendProperties
<1>3. Len(s) \in Nat
  BY LenProperties
<1>4. 1..(Len(s) + 1) = 1..Len(s) \cup {Len(s) + 1}
  BY <1>3
<1> QED
  BY <1>1, <1>2, <1>3, <1>4 DEF Elements

\* The empty sequence has none.
LEMMA ElementsEmpty == Elements(<<>>) = {}
  BY DEF Elements

\* Appending to the second of two concatenated sequences appends to both.
LEMMA AppendConcat ==
  ASSUME NEW s \in Seq(Tasks), NEW t \in Seq(Tasks), NEW f \in Tasks
  PROVE  s \o Append(t, f) = Append(s \o t, f)
  BY SMTT(30), ConcatProperties, AppendProperties

\* The head and the tail of a concatenation are those of its first part.
LEMMA HeadTailConcat ==
  ASSUME NEW s \in Seq(Tasks), NEW t \in Seq(Tasks), s # <<>>
  PROVE  /\ s \o t # <<>>
         /\ Head(s \o t) = Head(s)
         /\ Tail(s \o t) = Tail(s) \o t
  BY SMTT(30), ConcatProperties, HeadTailProperties

-----------------------------------------------------------------------------
\* wakeup() leaves the eventfd readable, and a call that queueInloop does not
\* make leaves it as it was.
LEMMA WakeupCount ==
  ASSUME wakeupFd \in Nat, NEW needed \in BOOLEAN, Wakeup(needed)
  PROVE  /\ wakeupFd' \in Nat
         /\ needed => wakeupFd' > 0
         /\ wakeupFd > 0 => wakeupFd' > 0
<1>1. CASE needed
  BY <1>1 DEF Wakeup
<1>2. CASE ~needed
  BY <1>2 DEF Wakeup
<1> QED
  BY <1>1, <1>2

\* Another thread always calls wakeup().
LEMMA ForeignWakes == NeedsWakeup(FALSE) = TRUE
  BY DEF NeedsWakeup

\* The initial state is of the type.
LEMMA InitType == Init => TypeOK
<1> SUFFICES ASSUME Init PROVE TypeOK
  OBVIOUS
<1>1. pendingFunctors \in Seq(Tasks) /\ functors \in Seq(Tasks)
         /\ executed \in Seq(Tasks)
  BY EmptySeq DEF Init
<1>2. callerPc \in [Callers -> {"idle", "queued", "quitting", "gone"}]
  BY DEF Init
<1> QED
  BY <1>1, <1>2 DEF Init, InitialQuit, TypeOK, LoopPoints

\* Every variable stays in its type.
THEOREM TypeCorrect == Spec => []TypeOK
<1>1. Init => TypeOK
  BY InitType
<1>2. TypeOK /\ [Next]_vars => TypeOK'
  <2> SUFFICES ASSUME TypeOK, [Next]_vars PROVE TypeOK'
    OBVIOUS
  <2> USE DEF TypeOK, LoopPoints, Channels
  <2>1. CASE EnterLoop \/ TestQuit \/ BeginPendingFunctors \/ EndPendingFunctors
    BY <2>1 DEF EnterLoop, TestQuit, BeginPendingFunctors, EndPendingFunctors
  <2>2. ASSUME NEW ready \in SUBSET Channels, PollReady(ready) PROVE TypeOK'
    BY <2>2 DEF PollReady
  <2>3. CASE HandleWakeup
    BY <2>3 DEF HandleWakeup
  <2>4. CASE HandleIo
    BY <2>4 DEF HandleIo
  <2>5. CASE SwapFunctors
    BY <2>5, EmptySeq DEF SwapFunctors
  <2>6. CASE RunFunctor
    <3>1. Head(functors) \in Tasks /\ Tail(functors) \in Seq(Tasks)
      BY <2>6, HeadTailProperties DEF RunFunctor
    <3>2. executed' \in Seq(Tasks)
      BY <2>6, <3>1, AppendProperties DEF RunFunctor
    <3> QED
      BY <2>6, <3>1, <3>2 DEF RunFunctor
  <2>7. CASE ReturnFromUser \/ PollTimeout \/ QuitFromLoop \/ Exited
    BY <2>7 DEF ReturnFromUser, PollTimeout, QuitFromLoop, Exited, vars
  <2>8. ASSUME NEW f \in Tasks, QueueFromLoop(f) PROVE TypeOK'
    <3>1. pendingFunctors' \in Seq(Tasks)
      BY <2>8, AppendProperties DEF QueueFromLoop
    <3>2. wakeupFd' \in Nat
      BY <2>8, WakeupCount DEF QueueFromLoop, NeedsWakeup
    <3> QED
      BY <2>8, <3>1, <3>2 DEF QueueFromLoop
  <2>9. ASSUME NEW f \in Tasks, RunFromLoop(f) PROVE TypeOK'
    <3>1. executed' \in Seq(Tasks)
      BY <2>9, AppendProperties DEF RunFromLoop
    <3> QED
      BY <2>9, <3>1 DEF RunFromLoop
  <2>10. ASSUME NEW t \in Callers, NEW f \in Tasks, QueueFromCaller(t, f)
        PROVE  TypeOK'
    <3>1. pendingFunctors' \in Seq(Tasks)
      BY <2>10, AppendProperties DEF QueueFromCaller
    <3> QED
      BY <2>10, <3>1 DEF QueueFromCaller
  <2>11. ASSUME NEW t \in Callers, WakeAndUnlock(t) PROVE TypeOK'
    <3>1. wakeupFd' \in Nat
      BY <2>11, WakeupCount, ForeignWakes DEF WakeAndUnlock
    <3> QED
      BY <2>11, <3>1 DEF WakeAndUnlock
  <2>12. ASSUME NEW t \in Callers, QuitFromCaller(t) PROVE TypeOK'
    BY <2>12 DEF QuitFromCaller
  <2>13. ASSUME NEW t \in Callers, WakeAfterQuit(t) PROVE TypeOK'
    <3>1. wakeupFd' \in Nat
      BY <2>13, WakeupCount DEF WakeAfterQuit
    <3> QED
      BY <2>13, <3>1 DEF WakeAfterQuit
  <2>14. CASE UNCHANGED vars
    BY <2>14 DEF vars
  <2> QED
    BY <2>1, <2>2, <2>3, <2>4, <2>5, <2>6, <2>7, <2>8, <2>9, <2>10, <2>11,
       <2>12, <2>13, <2>14
    DEF Next, LoopStep, UserStep, CallerStep
<1> QED
  BY <1>1, <1>2, PTL DEF Spec

-----------------------------------------------------------------------------
(* The inductive invariant, one lemma per part that takes an argument.     *)

\* Nothing but the swap takes functors out of pendingFunctors_, and whoever
\* adds one while the loop may sleep wakes it up (eventLoop.cc:143-156).
LEMMA WakeStep ==
  ASSUME IInv, [Next]_vars
  PROVE  WakeInv'
<1> USE DEF IInv, TypeOK, WakeInv, Sleepy
<1>1. CASE EnterLoop \/ TestQuit \/ BeginPendingFunctors \/ EndPendingFunctors
  BY <1>1 DEF EnterLoop, TestQuit, BeginPendingFunctors, EndPendingFunctors,
              Elements
<1>2. ASSUME NEW ready \in SUBSET Channels, PollReady(ready) PROVE WakeInv'
  BY <1>2 DEF PollReady
<1>3. CASE PollTimeout \/ HandleWakeup \/ HandleIo
  BY <1>3 DEF PollTimeout, HandleWakeup, HandleIo
<1>4. CASE SwapFunctors
  BY <1>4, ElementsEmpty DEF SwapFunctors
<1>5. CASE RunFunctor \/ ReturnFromUser
  BY <1>5 DEF RunFunctor, ReturnFromUser, Elements
<1>6. ASSUME NEW f \in Tasks, QueueFromLoop(f) PROVE WakeInv'
  <2>1. Elements(pendingFunctors') = Elements(pendingFunctors) \cup {f}
    BY <1>6, ElementsAppend DEF QueueFromLoop
  <2>2. CASE pc = "created"
    <3>1. f \in EarlyTasks
      BY <1>6, <2>2 DEF QueueFromLoop
    <3>2. wakeupFd > 0 => wakeupFd' > 0
      BY <1>6, WakeupCount DEF QueueFromLoop, NeedsWakeup
    <3>3. (Elements(pendingFunctors) \ EarlyTasks)'
             = Elements(pendingFunctors) \ EarlyTasks
      BY <2>1, <3>1 DEF Elements
    <3> QED
      BY <1>6, <2>2, <3>2, <3>3 DEF QueueFromLoop
  <2>3. CASE pc = "callback"
    BY <1>6, <2>3 DEF QueueFromLoop
  <2>4. CASE pc = "functor"
    <3>1. NeedsWakeup(TRUE) = TRUE
      BY <2>4 DEF CallingInv, NeedsWakeup
    <3> QED
      BY <1>6, <3>1, WakeupCount DEF QueueFromLoop
  <2> QED
    BY <1>6, <2>2, <2>3, <2>4 DEF QueueFromLoop, UserCode
<1>7. ASSUME NEW f \in Tasks, RunFromLoop(f) PROVE WakeInv'
  BY <1>7 DEF RunFromLoop, Elements
<1>8. CASE QuitFromLoop \/ Exited \/ UNCHANGED vars
  BY <1>8 DEF QuitFromLoop, Exited, vars, Elements
<1>9. ASSUME NEW t \in Callers, NEW f \in Tasks, QueueFromCaller(t, f)
      PROVE  WakeInv'
  BY <1>9, EventLoopAssumption DEF QueueFromCaller
<1>10. ASSUME NEW t \in Callers, WakeAndUnlock(t) \/ WakeAfterQuit(t)
       PROVE  WakeInv'
  BY <1>10, WakeupCount, ForeignWakes DEF WakeAndUnlock, WakeAfterQuit
<1>11. ASSUME NEW t \in Callers, QuitFromCaller(t) PROVE WakeInv'
  BY <1>11 DEF QuitFromCaller, Elements
<1> QED
  BY <1>1, <1>2, <1>3, <1>4, <1>5, <1>6, <1>7, <1>8, <1>9, <1>10, <1>11
  DEF Next, LoopStep, UserStep, CallerStep

\* Only `while(!quit_)' leads to epoll_wait, and a thread that sets quit_ after
\* that test still has its wakeup() to make (eventLoop.cc:109-117).
LEMMA QuitStep ==
  ASSUME IInv, [Next]_vars
  PROVE  QuitIsSeen'
<1> USE DEF IInv, TypeOK, QuitIsSeen
<1>1. CASE LoopStep
  <2>1. CASE EnterLoop \/ TestQuit \/ HandleWakeup \/ HandleIo
    BY <2>1 DEF EnterLoop, TestQuit, HandleWakeup, HandleIo
  <2>2. ASSUME NEW ready \in SUBSET Channels, PollReady(ready)
        PROVE  QuitIsSeen'
    BY <2>2 DEF PollReady
  <2>3. CASE BeginPendingFunctors \/ SwapFunctors \/ RunFunctor
               \/ EndPendingFunctors \/ ReturnFromUser
    BY <2>3 DEF BeginPendingFunctors, SwapFunctors, RunFunctor,
                EndPendingFunctors, ReturnFromUser
  <2> QED
    BY <1>1, <2>1, <2>2, <2>3 DEF LoopStep
<1>2. CASE PollTimeout \/ Exited \/ UNCHANGED vars
  BY <1>2 DEF PollTimeout, Exited, vars
<1>3. CASE UserStep
  BY <1>3 DEF UserStep, QueueFromLoop, RunFromLoop, QuitFromLoop, UserCode
<1>4. ASSUME NEW t \in Callers, NEW f \in Tasks, QueueFromCaller(t, f)
      PROVE  QuitIsSeen'
  <2>1. \A u \in Callers : callerPc[u] = "quitting" => callerPc'[u] = "quitting"
    BY <1>4 DEF QueueFromCaller
  <2> QED
    BY <1>4, <2>1 DEF QueueFromCaller
<1>5. ASSUME NEW t \in Callers, WakeAndUnlock(t) \/ WakeAfterQuit(t)
      PROVE  QuitIsSeen'
  BY <1>5, WakeupCount, ForeignWakes DEF WakeAndUnlock, WakeAfterQuit
<1>6. ASSUME NEW t \in Callers, QuitFromCaller(t) PROVE QuitIsSeen'
  <2>1. callerPc'[t] = "quitting"
    BY <1>6 DEF QuitFromCaller
  <2> QED
    BY <2>1
<1> QED
  BY <1>1, <1>2, <1>3, <1>4, <1>5, <1>6 DEF Next, CallerStep

\* The two facts about doPendingFunctors' flag and local vector.
LEMMA FlagStep ==
  ASSUME IInv, [Next]_vars
  PROVE  CallingInv' /\ LocalInv'
<1> USE DEF IInv, TypeOK, CallingInv, LocalInv
<1>1. CASE LoopStep
  <2>1. CASE EnterLoop \/ TestQuit \/ HandleWakeup \/ HandleIo
    BY <2>1 DEF EnterLoop, TestQuit, HandleWakeup, HandleIo
  <2>2. ASSUME NEW ready \in SUBSET Channels, PollReady(ready)
        PROVE  CallingInv' /\ LocalInv'
    BY <2>2 DEF PollReady
  <2>3. CASE BeginPendingFunctors \/ SwapFunctors \/ RunFunctor
    BY <2>3 DEF BeginPendingFunctors, SwapFunctors, RunFunctor
  <2>4. CASE EndPendingFunctors \/ ReturnFromUser
    BY <2>4 DEF EndPendingFunctors, ReturnFromUser
  <2> QED
    BY <1>1, <2>1, <2>2, <2>3, <2>4 DEF LoopStep
<1>2. CASE PollTimeout \/ Exited \/ UNCHANGED vars
  BY <1>2 DEF PollTimeout, Exited, vars
<1>3. CASE UserStep
  <2>1. pc' = pc /\ functors' = functors
          /\ callingPendingFunctors' = callingPendingFunctors
    BY <1>3 DEF UserStep, QueueFromLoop, RunFromLoop, QuitFromLoop
  <2> QED
    BY <2>1
<1>4. ASSUME NEW t \in Callers, CallerStep(t) PROVE CallingInv' /\ LocalInv'
  <2>1. pc' = pc /\ functors' = functors
          /\ callingPendingFunctors' = callingPendingFunctors
    BY <1>4 DEF CallerStep, QueueFromCaller, WakeAndUnlock, QuitFromCaller,
                WakeAfterQuit
  <2> QED
    BY <2>1
<1> QED
  BY <1>1, <1>2, <1>3, <1>4 DEF Next

\* The inductive invariant holds throughout.
LEMMA Inductive == Spec => []IInv
<1>1. Init => IInv
  <2>1. Init => TypeOK
    BY InitType
  <2>2. Init => WakeInv
    BY ElementsEmpty DEF Init, WakeInv
  <2>3. Init => CallingInv /\ LocalInv /\ QuitIsSeen
    BY DEF Init, CallingInv, LocalInv, QuitIsSeen
  <2> QED
    BY <2>1, <2>2, <2>3 DEF IInv
<1>2. IInv /\ TypeOK' /\ [Next]_vars => IInv'
  BY WakeStep, QuitStep, FlagStep DEF IInv
<1> QED
  BY <1>1, <1>2, TypeCorrect, PTL DEF Spec

-----------------------------------------------------------------------------
(* The theorems.                                                           *)

\* A functor queued by any thread never sits in pendingFunctors_ while the loop
\* thread sleeps with nothing to wake it up (eventLoop.cc:143-156).
THEOREM WakeupNotLost == Spec => []NoLostWakeup
<1>1. IInv => NoLostWakeup
  BY DEF IInv, WakeInv, Sleepy, NoLostWakeup
<1> QED
  BY <1>1, Inductive, PTL

\* A quit_ never finds the loop thread asleep with nothing to wake it up.
THEOREM QuitNotLost == Spec => []QuitIsSeen
<1>1. IInv => QuitIsSeen
  BY DEF IInv
<1> QED
  BY <1>1, Inductive, PTL

\* EventLoop implements TaskQueue: the functors run in the order of queueing,
\* each at most once, and none after the loop has returned.
THEOREM Refinement == Spec => ImplementsTaskQueue
<1>1. Init => TQ!Init
  BY ConcatEmptySeq, EmptySeq DEF Init, TQ!Init
<1>2. IInv /\ IInv' /\ [Next]_vars => [TQ!Next]_(TQ!vars)
  <2> SUFFICES ASSUME IInv, [Next]_vars, ~UNCHANGED TQ!vars PROVE TQ!Next
    OBVIOUS
  <2> USE DEF IInv, TypeOK, TQ!vars
  <2>1. CASE TestQuit
    <3>1. quit
      BY <2>1 DEF TestQuit
    <3> QED
      BY <2>1, <3>1 DEF TestQuit, TQ!Next, TQ!Stop
  <2>2. CASE EnterLoop \/ HandleWakeup \/ HandleIo
    BY <2>2 DEF EnterLoop, HandleWakeup, HandleIo
  <2>3. ASSUME NEW ready \in SUBSET Channels, PollReady(ready) PROVE FALSE
    BY <2>3 DEF PollReady
  <2>4. CASE BeginPendingFunctors \/ EndPendingFunctors \/ ReturnFromUser
    BY <2>4 DEF BeginPendingFunctors, EndPendingFunctors, ReturnFromUser
  <2>5. CASE SwapFunctors
    <3>1. functors = <<>>
      BY <2>5 DEF SwapFunctors, LocalInv
    <3>2. (functors \o pendingFunctors)' = functors \o pendingFunctors
      BY <2>5, <3>1, ConcatEmptySeq DEF SwapFunctors
    <3> QED
      BY <2>5, <3>2 DEF SwapFunctors
  <2>6. CASE RunFunctor
    <3>1. /\ functors \o pendingFunctors # <<>>
          /\ Head(functors \o pendingFunctors) = Head(functors)
          /\ Tail(functors \o pendingFunctors) = Tail(functors) \o pendingFunctors
      BY <2>6, HeadTailConcat DEF RunFunctor
    <3> QED
      BY <2>6, <3>1 DEF RunFunctor, TQ!Next, TQ!Execute
  <2>7. CASE PollTimeout \/ QuitFromLoop \/ Exited \/ UNCHANGED vars
    BY <2>7 DEF PollTimeout, QuitFromLoop, Exited, vars
  <2>8. ASSUME NEW f \in Tasks, QueueFromLoop(f) PROVE TQ!Next
    <3>1. functors \o Append(pendingFunctors, f)
            = Append(functors \o pendingFunctors, f)
      BY AppendConcat
    <3>2. TQ!Submit(f)
      BY <2>8, <3>1 DEF QueueFromLoop, TQ!Submit
    <3> QED
      BY <3>2 DEF TQ!Next
  <2>9. ASSUME NEW f \in Tasks, RunFromLoop(f) PROVE TQ!Next
    <3>1. TQ!RunNow(f)
      BY <2>9 DEF RunFromLoop, TQ!RunNow
    <3> QED
      BY <3>1 DEF TQ!Next
  <2>10. ASSUME NEW t \in Callers, NEW f \in Tasks, QueueFromCaller(t, f)
         PROVE  TQ!Next
    <3>1. functors \o Append(pendingFunctors, f)
            = Append(functors \o pendingFunctors, f)
      BY AppendConcat
    <3>2. TQ!Submit(f)
      BY <2>10, <3>1 DEF QueueFromCaller, TQ!Submit
    <3> QED
      BY <3>2 DEF TQ!Next
  <2>11. ASSUME NEW t \in Callers,
                WakeAndUnlock(t) \/ QuitFromCaller(t) \/ WakeAfterQuit(t)
         PROVE  FALSE
    BY <2>11 DEF WakeAndUnlock, QuitFromCaller, WakeAfterQuit
  <2> QED
    BY <2>1, <2>2, <2>3, <2>4, <2>5, <2>6, <2>7, <2>8, <2>9, <2>10, <2>11
    DEF Next, LoopStep, UserStep, CallerStep
<1> QED
  BY <1>1, <1>2, Inductive, PTL DEF Spec, ImplementsTaskQueue, TQ!Spec

-----------------------------------------------------------------------------
(* What TaskQueue promises, of the functors that the loop runs.            *)

Promises == INSTANCE TaskQueueProofs WITH queue   <- functors \o pendingFunctors,
                                          stopped <- pc = "exited"

\* The refinement once more, with the promises behind it.
LEMMA KeepsPromises == Spec => Promises!Spec
BY Refinement, PTL
DEF ImplementsTaskQueue, TQ!Spec, TQ!Init, TQ!Next, TQ!vars,
    TQ!Submit, TQ!RunNow, TQ!Execute, TQ!Stop,
    Promises!Spec, Promises!Init, Promises!Next, Promises!vars,
    Promises!Submit, Promises!RunNow, Promises!Execute, Promises!Stop

\* No functor runs twice, in particular none that is in the queue when
\* doPendingFunctors swaps it (eventLoop.cc:188-208).
THEOREM RunOnce == Spec => []Promises!RunOnce
BY KeepsPromises, Promises!AtMostOnce, PTL

\* Of the functors that wait, in doPendingFunctors' vector or behind it in
\* pendingFunctors_, only the oldest may run next, and none when loop() has
\* returned (eventLoop.cc:83-208).
THEOREM OldestFirst == Spec => Promises!OldestFirst
BY KeepsPromises, Promises!InOrder, PTL
=============================================================================

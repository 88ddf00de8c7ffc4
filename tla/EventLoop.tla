------------------------------ MODULE EventLoop ------------------------------
(***************************************************************************)
(* One EventLoop (src/src/eventLoop.cc): the thread that owns it and runs  *)
(* loop(), and the other threads that hand it functors or ask it to quit.  *)
(*                                                                         *)
(* The loop thread blocks in epoll_wait until a descriptor is readable or  *)
(* kPollTimeMs (10 s) has passed, runs the callbacks of the channels that  *)
(* are ready, then runs the functors that were queued.  A thread that      *)
(* queues a functor must get the loop out of epoll_wait, which it does by  *)
(* writing to an eventfd (wakeupFd_) that the loop polls.                  *)
(*                                                                         *)
(* Each step of the loop thread is one step of the code between two points *)
(* at which another thread can matter.  The callbacks and functors are     *)
(* code of the library's user: what they may do to this object is call     *)
(* queueInloop, runInloop and quit, in any order, and return.              *)
(***************************************************************************)
EXTENDS Naturals, Sequences

CONSTANTS
  Callers,      \* threads other than the loop's own that use the loop
  Tasks,        \* the functors; each is handed over at most once (a bound)
  EarlyTasks,   \* those the owner may queue before it calls loop()
  NoThread      \* value of the mutex when nobody holds it

ASSUME EventLoopAssumption ==
  /\ EarlyTasks \subseteq Tasks
  /\ NoThread \notin Callers

VARIABLES
  pc,                       \* where the loop thread is in loop()
  quit,                     \* quit_
  callingPendingFunctors,   \* callingPendingFunctors_
  mutex,                    \* holder of mutex_, when it is not the loop thread
  pendingFunctors,          \* pendingFunctors_
  functors,                 \* what is left of doPendingFunctors' local vector
  wakeupFd,                 \* the eventfd's counter
  activeChannels,           \* channels of activeChannels_ still to be handled
  callerPc,                 \* where each caller is in queueInloop or quit
  fresh,                    \* functors nobody has handed over yet
  executed                  \* history: functors in the order in which they ran

vars == <<pc, quit, callingPendingFunctors, mutex, pendingFunctors, functors,
          wakeupFd, activeChannels, callerPc, fresh, executed>>

\* The channels epoll can report: the loop's own wakeupChannel_, and all the
\* others (connections, the listening socket), whose callbacks are user code.
Channels == {"wakeup", "io"}

\* The loop thread is at "created" between the constructor and loop(), at
\* "test" on `while(!quit_)', at "poll" inside epoll_wait, at "handle" in the
\* loop over activeChannels_, at "swap" before doPendingFunctors' lock, at
\* "run" in its loop over functors; in "callback" and "functor" user code runs.
LoopPoints == {"created", "test", "poll", "handle", "callback",
               "swap", "run", "functor", "exited"}
UserCode == {"created", "callback", "functor"}

Elements(s) == {s[i] : i \in 1..Len(s)}

TypeOK ==
  /\ pc \in LoopPoints
  /\ quit \in BOOLEAN
  /\ callingPendingFunctors \in BOOLEAN
  /\ mutex \in Callers \cup {NoThread}
  /\ pendingFunctors \in Seq(Tasks)
  /\ functors \in Seq(Tasks)
  /\ wakeupFd \in Nat
  /\ activeChannels \subseteq Channels
  /\ callerPc \in [Callers -> {"idle", "queued", "quitting", "gone"}]
  /\ fresh \subseteq Tasks
  /\ executed \in Seq(Tasks)

\* Seeded fault: the constructor leaves quit_ uninitialised (NoThread stands
\* for whatever is there).
AnyQuit == NoThread

InitialQuit == FALSE

\* EventLoop::EventLoop, and loop() not yet called.
Init ==
  /\ pc = "created"
  /\ quit = InitialQuit
  /\ callingPendingFunctors = FALSE
  /\ mutex = NoThread
  /\ pendingFunctors = <<>>
  /\ functors = <<>>
  /\ wakeupFd = 0
  /\ activeChannels = {}
  /\ callerPc = [t \in Callers |-> "idle"]
  /\ fresh = Tasks
  /\ executed = <<>>

-----------------------------------------------------------------------------
(* The loop thread.                                                        *)

\* loop(): looping_ (never read by any code) and quit_ are set.
EnterLoop ==
  /\ pc = "created"
  /\ quit' = FALSE
  /\ pc' = "test"
  /\ UNCHANGED <<callingPendingFunctors, mutex, pendingFunctors, functors,
                 wakeupFd, activeChannels, callerPc, fresh, executed>>

\* while(!quit_)
TestQuit ==
  /\ pc = "test"
  /\ pc' = IF quit THEN "exited" ELSE "poll"
  /\ UNCHANGED <<quit, callingPendingFunctors, mutex, pendingFunctors, functors,
                 wakeupFd, activeChannels, callerPc, fresh, executed>>

\* epoll_wait returns because a descriptor is ready.  The registration is level
\* triggered: the wakeup channel is reported whenever its counter is not zero.
PollReady(ready) ==
  /\ pc = "poll"
  /\ ready \subseteq Channels
  /\ ready # {}
  /\ "wakeup" \in ready <=> wakeupFd > 0
  /\ activeChannels' = ready
  /\ pc' = "handle"
  /\ UNCHANGED <<quit, callingPendingFunctors, mutex, pendingFunctors, functors,
                 wakeupFd, callerPc, fresh, executed>>

\* epoll_wait returns empty-handed: kPollTimeMs have passed, or EINTR.
PollTimeout ==
  /\ pc = "poll"
  /\ wakeupFd = 0
  /\ activeChannels' = {}
  /\ pc' = "handle"
  /\ UNCHANGED <<quit, callingPendingFunctors, mutex, pendingFunctors, functors,
                 wakeupFd, callerPc, fresh, executed>>

\* EventLoop::handleRead, the wakeup channel's callback: reading an eventfd
\* returns its counter and clears it.
HandleWakeup ==
  /\ pc = "handle"
  /\ "wakeup" \in activeChannels
  /\ wakeupFd' = 0
  /\ activeChannels' = activeChannels \ {"wakeup"}
  /\ UNCHANGED <<pc, quit, callingPendingFunctors, mutex, pendingFunctors,
                 functors, callerPc, fresh, executed>>

\* Any other channel's handleEvent: user code starts to run.
HandleIo ==
  /\ pc = "handle"
  /\ "io" \in activeChannels
  /\ activeChannels' = activeChannels \ {"io"}
  /\ pc' = "callback"
  /\ UNCHANGED <<quit, callingPendingFunctors, mutex, pendingFunctors, functors,
                 wakeupFd, callerPc, fresh, executed>>

\* All active channels are handled; doPendingFunctors begins.
BeginPendingFunctors ==
  /\ pc = "handle"
  /\ activeChannels = {}
  /\ callingPendingFunctors' = TRUE
  /\ pc' = "swap"
  /\ UNCHANGED <<quit, mutex, pendingFunctors, functors, wakeupFd,
                 activeChannels, callerPc, fresh, executed>>

\* functors.swap(pendingFunctors_), under the lock.
SwapFunctors ==
  /\ pc = "swap"
  /\ mutex = NoThread
  /\ functors' = pendingFunctors
  /\ pendingFunctors' = <<>>
  /\ pc' = "run"
  /\ UNCHANGED <<quit, callingPendingFunctors, mutex, wakeupFd,
                 activeChannels, callerPc, fresh, executed>>

RunFunctor ==
  /\ pc = "run"
  /\ functors # <<>>
  /\ executed' = Append(executed, Head(functors))
  /\ functors' = Tail(functors)
  /\ pc' = "functor"
  /\ UNCHANGED <<quit, callingPendingFunctors, mutex, pendingFunctors,
                 wakeupFd, activeChannels, callerPc, fresh>>

\* Seeded fault: pendingFunctors_ is cleared after the functors have run.
EndClearsPending ==
  /\ pc = "run"
  /\ functors = <<>>
  /\ callingPendingFunctors' = FALSE
  /\ pendingFunctors' = <<>>
  /\ pc' = "test"
  /\ UNCHANGED <<quit, mutex, functors, wakeupFd, activeChannels, callerPc,
                 fresh, executed>>

EndPendingFunctors ==
  /\ pc = "run"
  /\ functors = <<>>
  /\ callingPendingFunctors' = FALSE
  /\ pc' = "test"
  /\ UNCHANGED <<quit, mutex, pendingFunctors, functors, wakeupFd,
                 activeChannels, callerPc, fresh, executed>>

\* A callback or a functor returns to the loop that called it.
ReturnFromUser ==
  /\ pc \in {"callback", "functor"}
  /\ pc' = IF pc = "callback" THEN "handle" ELSE "run"
  /\ UNCHANGED <<quit, callingPendingFunctors, mutex, pendingFunctors, functors,
                 wakeupFd, activeChannels, callerPc, fresh, executed>>

-----------------------------------------------------------------------------
(* queueInloop, runInloop, quit.                                           *)

\* Seeded fault: functors queued by functors are forgotten.
NeedsWakeupForeign(inLoopThread) == ~inLoopThread

\* Seeded fault: only a loop that is running functors is woken up.
NeedsWakeupCalling(inLoopThread) == ~inLoopThread /\ callingPendingFunctors

\* The condition under which queueInloop calls wakeup().
NeedsWakeup(inLoopThread) == ~inLoopThread \/ callingPendingFunctors

\* Seeded fault: the eventfd is not written.
WakesNothing(needed) == UNCHANGED wakeupFd

\* wakeup(): add one to the eventfd's counter.
Wakeup(needed) == wakeupFd' = IF needed THEN wakeupFd + 1 ELSE wakeupFd

\* queueInloop by user code on the loop thread.  It holds the lock throughout,
\* so no other thread can tell its steps apart.
QueueFromLoop(f) ==
  /\ pc \in UserCode
  /\ f \in IF pc = "created" THEN EarlyTasks \cap fresh ELSE fresh
  /\ mutex = NoThread
  /\ pendingFunctors' = Append(pendingFunctors, f)
  /\ Wakeup(NeedsWakeup(TRUE))
  /\ fresh' = fresh \ {f}
  /\ UNCHANGED <<pc, quit, callingPendingFunctors, mutex, functors,
                 activeChannels, callerPc, executed>>

\* runInloop by user code on the loop thread calls the functor at once.
RunFromLoop(f) ==
  /\ pc \in UserCode
  /\ f \in fresh
  /\ executed' = Append(executed, f)
  /\ fresh' = fresh \ {f}
  /\ UNCHANGED <<pc, quit, callingPendingFunctors, mutex, pendingFunctors,
                 functors, wakeupFd, activeChannels, callerPc>>

\* quit() by user code on the loop thread: no wakeup is needed.
QuitFromLoop ==
  /\ pc \in UserCode
  /\ quit' = TRUE
  /\ UNCHANGED <<pc, callingPendingFunctors, mutex, pendingFunctors, functors,
                 wakeupFd, activeChannels, callerPc, fresh, executed>>

\* queueInloop, or runInloop, by another thread: it takes the lock and adds the
\* functor ...
QueueFromCaller(t, f) ==
  /\ callerPc[t] = "idle"
  /\ f \in fresh
  /\ mutex = NoThread
  /\ mutex' = t
  /\ pendingFunctors' = Append(pendingFunctors, f)
  /\ fresh' = fresh \ {f}
  /\ callerPc' = [callerPc EXCEPT ![t] = "queued"]
  /\ UNCHANGED <<pc, quit, callingPendingFunctors, functors, wakeupFd,
                 activeChannels, executed>>

\* ... then, still holding the lock, wakes the loop up, and releases it.
WakeAndUnlock(t) ==
  /\ callerPc[t] = "queued"
  /\ Wakeup(NeedsWakeup(FALSE))
  /\ mutex' = NoThread
  /\ callerPc' = [callerPc EXCEPT ![t] = "idle"]
  /\ UNCHANGED <<pc, quit, callingPendingFunctors, pendingFunctors, functors,
                 activeChannels, fresh, executed>>

\* quit() by another thread sets quit_ ...
QuitFromCaller(t) ==
  /\ callerPc[t] = "idle"
  /\ quit' = TRUE
  /\ callerPc' = [callerPc EXCEPT ![t] = "quitting"]
  /\ UNCHANGED <<pc, callingPendingFunctors, mutex, pendingFunctors, functors,
                 wakeupFd, activeChannels, fresh, executed>>

\* ... and then wakes the loop up.  (A bound: that thread is then done with
\* the loop, so that each caller quits at most once.)
WakeAfterQuit(t) ==
  /\ callerPc[t] = "quitting"
  /\ Wakeup(TRUE)
  /\ callerPc' = [callerPc EXCEPT ![t] = "gone"]
  /\ UNCHANGED <<pc, quit, callingPendingFunctors, mutex, pendingFunctors,
                 functors, activeChannels, fresh, executed>>

-----------------------------------------------------------------------------
\* loop() has returned.  The object lives on until its owner destroys it.
Exited == pc = "exited" /\ UNCHANGED vars

\* The steps the loop thread takes by itself, once epoll_wait has an answer.
LoopStep ==
  \/ EnterLoop \/ TestQuit
  \/ \E ready \in SUBSET Channels : PollReady(ready)
  \/ HandleWakeup \/ HandleIo
  \/ BeginPendingFunctors \/ SwapFunctors \/ RunFunctor \/ EndPendingFunctors
  \/ ReturnFromUser

UserStep ==
  \/ \E f \in Tasks : QueueFromLoop(f) \/ RunFromLoop(f)
  \/ QuitFromLoop

CallerStep(t) ==
  \/ \E f \in Tasks : QueueFromCaller(t, f)
  \/ WakeAndUnlock(t)
  \/ QuitFromCaller(t)
  \/ WakeAfterQuit(t)

Next ==
  \/ LoopStep
  \/ PollTimeout
  \/ UserStep
  \/ \E t \in Callers : CallerStep(t)
  \/ Exited

Spec == Init /\ [][Next]_vars

(***************************************************************************)
(* Fairness.  The loop thread and a caller inside queueInloop or quit are  *)
(* scheduled by the operating system and do not stop on their own; a       *)
(* callback or functor of the user returns.  When only the wakeup channel  *)
(* can end epoll_wait, the loop is fair only for that reason: no other     *)
(* descriptor need ever be ready.  Nothing obliges a caller to call.       *)
(***************************************************************************)
LoopProgress ==
  \/ EnterLoop \/ TestQuit
  \/ PollReady({"wakeup"}) \/ PollReady(Channels)
  \/ HandleWakeup \/ HandleIo
  \/ BeginPendingFunctors \/ SwapFunctors \/ RunFunctor \/ EndPendingFunctors
  \/ ReturnFromUser

FairSpec ==
  /\ Spec
  /\ WF_vars(LoopProgress)
  /\ \A t \in Callers : WF_vars(WakeAndUnlock(t)) /\ WF_vars(WakeAfterQuit(t))

-----------------------------------------------------------------------------
(* Properties.                                                             *)

\* No lost wakeup: while the loop thread is blocked in epoll_wait, a functor
\* in pendingFunctors_ has the eventfd readable, or its caller is still inside
\* queueInloop and about to make it so.  Otherwise the functor would sit there
\* until the 10 s timeout (eventLoop.cc:143-156).  The functors queued by the
\* owner before loop() are the exception: nothing wakes the loop up for them.
NoLostWakeup ==
  pc = "poll" /\ Elements(pendingFunctors) \ EarlyTasks # {}
     => wakeupFd > 0 \/ mutex # NoThread

\* A quit_ set by another thread does not leave the loop thread asleep: it is
\* blocked in epoll_wait with quit_ set only while the eventfd is readable or
\* the quitting thread is about to write to it (eventLoop.cc:109-117).
QuitIsSeen ==
  pc = "poll" /\ quit
     => wakeupFd > 0 \/ \E t \in Callers : callerPc[t] = "quitting"

\* The loop implements the abstract queue: every functor runs at most once, in
\* queueing order, across the swap of pendingFunctors_ into the local vector,
\* and none runs after loop() has returned (eventLoop.cc:188-208).
TQ == INSTANCE TaskQueue WITH queue   <- functors \o pendingFunctors,
                              stopped <- pc = "exited"
ImplementsTaskQueue == TQ!Spec

\* Every functor handed over runs, unless the loop returns first, and it does
\* so without the help of epoll_wait's timeout or of another descriptor.
FunctorsRun ==
  \A f \in Tasks \ EarlyTasks :
     f \notin fresh ~> f \in Elements(executed) \/ pc = "exited"

\* The same of all functors, those queued before loop() included; for them it
\* takes the 10 s limit of epoll_wait, which does return in the end.
AllFunctorsRun ==
  WF_vars(PollTimeout) =>
    \A f \in Tasks : f \notin fresh ~> f \in Elements(executed) \/ pc = "exited"

\* Once loop() has begun, quit() makes it return, whatever thread calls it and
\* wherever the loop thread is, without the help of the timeout.
QuitStops == (quit /\ pc # "created") ~> pc = "exited"
=============================================================================

--------------------------- MODULE EventLoopThread ---------------------------
(***************************************************************************)
(* EventLoopThread (src/src/eventLoopThread.cc) and Thread (thread.cc): a  *)
(* thread whose function has an EventLoop on its stack.  The owner starts  *)
(* it, gets a pointer to the loop, uses the loop, and in the end destroys  *)
(* the EventLoopThread.                                                    *)
(*                                                                         *)
(* The loop itself is EventLoop, with the owner as the thread that calls   *)
(* queueInloop and quit; this module adds the handshake of startLoop, the  *)
(* lifetimes of the two objects and the destructor.                        *)
(*                                                                         *)
(* What startLoop and threadFunc do under EventLoopThread's mutex_ is one  *)
(* step.  The destructor, and threadFunc's last assignment, use loop_      *)
(* without it, so each of their accesses is a step.                        *)
(***************************************************************************)
EXTENDS Naturals, Sequences

CONSTANTS
  owner,        \* the thread that constructs, starts and destroys
  Tasks,        \* the functors, as in EventLoop
  EarlyTasks,   \* those that the ThreadInitCallback may queue
  NoThread

ASSUME EventLoopThreadAssumption ==
  /\ EarlyTasks \subseteq Tasks
  /\ NoThread # owner

VARIABLES
  ownerPc,      \* where the owner is
  childPc,      \* where the new thread is
  sem,          \* the semaphore on the stack of Thread::start
  loopSet       \* loop_ # nullptr

\* The loop on the new thread's stack.
VARIABLES pc, quit, callingPendingFunctors, mutex, pendingFunctors, functors,
          wakeupFd, activeChannels, callerPc, fresh, executed

Loop == INSTANCE EventLoop WITH Callers <- {owner}

threadVars == <<ownerPc, childPc, sem, loopSet>>
loopVars == <<pc, quit, callingPendingFunctors, mutex, pendingFunctors, functors,
              wakeupFd, activeChannels, callerPc, fresh, executed>>
vars == <<ownerPc, childPc, sem, loopSet, loopVars>>

\* The owner is in Thread::start ("starting"), before the test of loop_ in
\* startLoop ("testing"), in cond_.wait ("waiting"), has returned ("started"),
\* in the destructor behind the test of loop_ ("deleting"), inside quit
\* ("quitting"), in join ("joining"), has returned from the destructor ("gone");
\* it is "undefined" once it has used a null pointer or a loop that is no more.
OwnerPoints == {"new", "starting", "testing", "waiting", "started", "deleting",
                "quitting", "joining", "gone", "undefined"}

\* The thread is before sem_post ("born"), in the loop's constructor and the
\* ThreadInitCallback ("init"), in loop() ("loop"), behind `loop_ = nullptr'
\* with the loop still on its stack ("unwinding"), or has "ended".
ChildPoints == {"none", "born", "init", "loop", "unwinding", "ended"}

TypeOK ==
  /\ ownerPc \in OwnerPoints
  /\ childPc \in ChildPoints
  /\ sem \in 0..1
  /\ loopSet \in BOOLEAN

\* Seeded fault: the constructor leaves loop_ uninitialised (NoThread stands
\* for whatever is there).
AnyLoop == NoThread

InitialLoop == FALSE

Init ==
  /\ ownerPc = "new"
  /\ childPc = "none"
  /\ sem = 0
  /\ loopSet = InitialLoop
  /\ Loop!Init

\* The EventLoop object exists.
LoopAlive == childPc \in {"init", "loop", "unwinding"}

-----------------------------------------------------------------------------
(* The owner: startLoop.                                                   *)

\* Thread::start: the thread is created, and its first sign awaited.
Start ==
  /\ ownerPc = "new"
  /\ ownerPc' = "starting"
  /\ childPc' = "born"
  /\ UNCHANGED <<sem, loopSet, loopVars>>

\* sem_wait returns.
SemWait ==
  /\ ownerPc = "starting"
  /\ sem = 1
  /\ sem' = 0
  /\ ownerPc' = "testing"
  /\ UNCHANGED <<childPc, loopSet, loopVars>>

\* Seeded fault: `if' for `while' around cond_.wait.
TestOnce ==
  /\ ownerPc = "testing"
  /\ ownerPc' \in IF loopSet THEN {"started"} ELSE {"waiting", "started"}
  /\ UNCHANGED <<childPc, sem, loopSet, loopVars>>

\* while (loop_ == nullptr), under the lock that cond_.wait releases.
TestLoop ==
  /\ ownerPc = "testing"
  /\ ownerPc' = IF loopSet THEN "started" ELSE "waiting"
  /\ UNCHANGED <<childPc, sem, loopSet, loopVars>>

\* A condition variable may wake a thread up for no reason.
SpuriousWakeup ==
  /\ ownerPc = "waiting"
  /\ ownerPc' = "testing"
  /\ UNCHANGED <<childPc, sem, loopSet, loopVars>>

-----------------------------------------------------------------------------
(* The new thread.                                                         *)

\* The lambda of Thread::start: sem_post, behind the assignment of tid_.
SemPost ==
  /\ childPc = "born"
  /\ sem' = 1
  /\ childPc' = "init"
  /\ UNCHANGED <<ownerPc, loopSet, loopVars>>

\* Seeded fault: cond_.notify_one() is forgotten.
NotifyNobody == UNCHANGED ownerPc

NotifyOwner == ownerPc' = IF ownerPc = "waiting" THEN "testing" ELSE ownerPc

\* The callback has returned: loop_ is set and the owner notified.
Publish ==
  /\ childPc = "init"
  /\ loopSet' = TRUE
  /\ childPc' = "loop"
  /\ NotifyOwner
  /\ UNCHANGED <<sem, loopVars>>

\* User code on the loop thread: the ThreadInitCallback, callbacks, functors.
UserCode ==
  /\ childPc = IF pc = "created" THEN "init" ELSE "loop"
  /\ Loop!UserStep
  /\ UNCHANGED threadVars

\* loop(), from its first statement to its return.
InLoop ==
  /\ childPc = "loop"
  /\ Loop!LoopStep \/ Loop!PollTimeout
  /\ UNCHANGED threadVars

\* loop_ = nullptr, without the lock.
ClearLoop ==
  /\ childPc = "loop"
  /\ pc = "exited"
  /\ loopSet' = FALSE
  /\ childPc' = "unwinding"
  /\ UNCHANGED <<ownerPc, sem, loopVars>>

\* threadFunc returns, which destroys the loop.
EndThread ==
  /\ childPc = "unwinding"
  /\ childPc' = "ended"
  /\ UNCHANGED <<ownerPc, sem, loopSet, loopVars>>

-----------------------------------------------------------------------------
(* The owner uses the loop, and destroys the EventLoopThread.              *)

\* runInloop or queueInloop, through the pointer that startLoop returned.
UseLoop ==
  /\ ownerPc = "started"
  /\ LoopAlive
  /\ \/ \E f \in Tasks : Loop!QueueFromCaller(owner, f)
     \/ Loop!WakeAndUnlock(owner)
  /\ UNCHANGED threadVars

\* Seeded fault: the thread is always detached.
DestroyDetached ==
  /\ ownerPc \in {"new", "started"}
  /\ callerPc[owner] = "idle"
  /\ ownerPc' = "gone"
  /\ UNCHANGED <<childPc, sem, loopSet, loopVars>>

\* ~EventLoopThread tests loop_.  If there is none, ~Thread detaches a thread
\* that was started.
Destroy ==
  /\ ownerPc \in {"new", "started"}
  /\ callerPc[owner] = "idle"
  /\ ownerPc' = IF loopSet THEN "deleting" ELSE "gone"
  /\ UNCHANGED <<childPc, sem, loopSet, loopVars>>

\* loop_->quit() sets quit_ ...  (The pointer may be that of the test.)
CallQuit ==
  /\ ownerPc = "deleting"
  /\ LoopAlive
  /\ Loop!QuitFromCaller(owner)
  /\ ownerPc' = "quitting"
  /\ UNCHANGED <<childPc, sem, loopSet>>

\* ... and wakes the loop up.
WakeForQuit ==
  /\ ownerPc = "quitting"
  /\ LoopAlive
  /\ Loop!WakeAfterQuit(owner)
  /\ ownerPc' = "joining"
  /\ UNCHANGED <<childPc, sem, loopSet>>

\* The owner uses a loop that has been destroyed, or, reading loop_ again in
\* the destructor, a null pointer: what follows is undefined.
UseDeadLoop ==
  /\ \/ ownerPc \in {"started", "deleting", "quitting"} /\ ~LoopAlive
     \/ ownerPc = "deleting" /\ ~loopSet
  /\ ownerPc' = "undefined"
  /\ UNCHANGED <<childPc, sem, loopSet, loopVars>>

\* thread_.join() returns, and with it the destructor.
Join ==
  /\ ownerPc = "joining"
  /\ childPc = "ended"
  /\ ownerPc' = "gone"
  /\ UNCHANGED <<childPc, sem, loopSet, loopVars>>

-----------------------------------------------------------------------------
Finished ==
  /\ ownerPc \in {"gone", "undefined"}
  /\ UNCHANGED vars

Next ==
  \/ Start \/ SemWait \/ TestLoop \/ SpuriousWakeup
  \/ SemPost \/ Publish \/ UserCode \/ InLoop \/ ClearLoop \/ EndThread
  \/ UseLoop \/ Destroy \/ CallQuit \/ WakeForQuit \/ UseDeadLoop \/ Join
  \/ Finished

Spec == Init /\ [][Next]_vars

(***************************************************************************)
(* Fairness.  Both threads are scheduled, the ThreadInitCallback and other *)
(* user code return, and mutex_ is free in between.  No spurious wakeup,   *)
(* no timeout and no readiness of another descriptor is relied upon, and   *)
(* nothing obliges the owner to start, use or destroy the thread.          *)
(***************************************************************************)
OwnerProgress ==
  \/ SemWait \/ TestLoop \/ CallQuit \/ WakeForQuit \/ Join
  \/ ownerPc = "started" /\ LoopAlive /\ Loop!WakeAndUnlock(owner)
       /\ UNCHANGED threadVars

ChildProgress ==
  \/ SemPost \/ Publish \/ ClearLoop \/ EndThread
  \/ childPc = "loop" /\ Loop!LoopProgress /\ UNCHANGED threadVars

FairSpec == Spec /\ WF_vars(OwnerProgress) /\ WF_vars(ChildProgress)

-----------------------------------------------------------------------------
(* Properties.                                                             *)

\* startLoop returns the pointer to a loop that is complete, and behind the
\* ThreadInitCallback, whatever wakes the owner up; if the loop is gone by
\* then, it is because code on it has called quit() (eventLoopThread.cc:30-50).
StartedLoopExists ==
  ownerPc = "started" =>
    /\ childPc \in {"loop", "unwinding", "ended"}
    /\ childPc # "loop" => quit

\* The thread never writes to an EventLoopThread that has been destroyed: its
\* last access, `loop_ = nullptr', comes before the destructor's end, whether
\* the thread was joined or detached (eventLoopThread.cc:18-26, 70).
ObjectOutlivesThread ==
  ownerPc = "gone" => childPc \in {"none", "unwinding", "ended"}

\* startLoop returns: the notification is not lost (eventLoopThread.cc:40-46).
\* Unless code on the loop quits it so soon that loop_ is null again when the
\* owner looks: then it waits forever.
StartReturns == (ownerPc = "starting") ~> (ownerPc = "started" \/ childPc = "ended")

\* The destructor returns if it calls quit() after loop() has begun: the quit
\* is seen, the thread ends, and join() returns (eventLoopThread.cc:18-26).
JoinReturns ==
  (ownerPc = "joining" /\ quit /\ pc # "created") ~> (ownerPc = "gone")

\* eventLoop.h:47: quit() of another thread makes the loop exit.
QuitExits == (ownerPc = "joining") ~> (pc = "exited")
=============================================================================

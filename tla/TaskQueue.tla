------------------------------ MODULE TaskQueue ------------------------------
(***************************************************************************)
(* What an EventLoop promises to the threads that hand it functors: the    *)
(* functors given to queueInloop run one at a time, each at most once, in  *)
(* the order in which they were queued.  A functor that the loop's own     *)
(* thread gives to runInloop runs on the spot, ahead of the queue.  After  *)
(* the loop has been told to stop, nothing runs any more; functors still   *)
(* queued are dropped.                                                     *)
(*                                                                         *)
(* The specification says nothing about threads, the mutex, the wakeup     *)
(* descriptor or epoll: EventLoop.tla has those and implements this one.   *)
(***************************************************************************)
EXTENDS Naturals, Sequences

CONSTANT Tasks          \* the functors; each is handed over at most once

VARIABLES
  fresh,                \* functors nobody has handed over yet
  queue,                \* functors handed over and not yet run, oldest first
  executed,             \* functors in the order in which they ran
  stopped               \* the loop has returned

vars == <<fresh, queue, executed, stopped>>

Init ==
  /\ fresh = Tasks
  /\ queue = <<>>
  /\ executed = <<>>
  /\ stopped = FALSE

\* queueInloop(f): by any thread, even after the loop has returned.
Submit(f) ==
  /\ f \in fresh
  /\ fresh' = fresh \ {f}
  /\ queue' = Append(queue, f)
  /\ UNCHANGED <<executed, stopped>>

\* runInloop(f) called by the loop's own thread.
RunNow(f) ==
  /\ f \in fresh
  /\ fresh' = fresh \ {f}
  /\ executed' = Append(executed, f)
  /\ UNCHANGED <<queue, stopped>>

\* The loop runs the oldest queued functor.
Execute ==
  /\ ~stopped
  /\ queue # <<>>
  /\ executed' = Append(executed, Head(queue))
  /\ queue' = Tail(queue)
  /\ UNCHANGED <<fresh, stopped>>

Stop ==
  /\ stopped' = TRUE
  /\ UNCHANGED <<fresh, queue, executed>>

Next ==
  \/ \E f \in Tasks : Submit(f) \/ RunNow(f)
  \/ Execute
  \/ Stop

Spec == Init /\ [][Next]_vars
=============================================================================

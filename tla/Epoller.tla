------------------------------- MODULE Epoller -------------------------------
(***************************************************************************)
(* The poller of one EventLoop (src/src/epoller.cc, poller.cc) and the     *)
(* Channel objects registered with it (channel.cc, channel.h).             *)
(*                                                                         *)
(* Three parties keep a view of who is registered: each Channel has its    *)
(* index_ and events_, the poller has the map channels_ from descriptors   *)
(* to raw Channel pointers, and the kernel has, for each descriptor in the *)
(* interest set, a mask and the pointer it hands back.  Nothing ties the   *)
(* three together but the order of the calls.                              *)
(*                                                                         *)
(* The life of a Channel is the one TcpConnection gives it.  It is built   *)
(* for a descriptor that accept() returned, maybe by another thread (the   *)
(* base loop's); registered by connectEstablished; changed by callbacks    *)
(* and functors on the loop thread; and taken out by connectDestroyed,     *)
(* always a functor.  After that it may be changed again, by a late        *)
(* startRead or forceClose, which registers it anew, and taken out again.  *)
(* Whatever thread drops the last reference destroys it and then closes    *)
(* its descriptor.  The Channel may be registered still: behind a late     *)
(* startRead, or because its loop stopped with connectDestroyed queued.    *)
(* Who holds the references is the subject of TcpServer.tla; here a        *)
(* registered Channel may be destroyed at any time, except by another      *)
(* thread while the loop's holds it.  The kernel may reuse the descriptor  *)
(* and the allocator the memory.                                           *)
(***************************************************************************)
EXTENDS Naturals, FiniteSets

CONSTANTS
  Channels,             \* addresses at which a Channel can be
  Fds,                  \* descriptors
  NoChannel,            \* the null pointer
  kInitEventListSize    \* initial length of events_ (16 in the code)

ASSUME EpollerAssumption ==
  /\ NoChannel \notin Channels
  /\ IsFiniteSet(Fds)
  /\ kInitEventListSize \in Nat \ {0}

VARIABLES
  pc,         \* the loop thread: in epoll_wait, in the loop over
              \* activeChannels_, in one of its callbacks, or in
              \* doPendingFunctors
  held,       \* the Channel whose connection the loop thread keeps alive:
              \* in handleEvent its guard, in connectDestroyed the functor
  stage,      \* how far each Channel is in its life
  fd,         \* fd_ of each Channel that is not "none"
  events,     \* events_
  index,      \* index_: kNew, kAdded, kDeleted
  channels,   \* channels_
  interest,   \* kernel: the pointer stored for each descriptor, if any
  mask,       \* kernel: the events asked for
  ready,      \* kernel: the conditions that hold of each descriptor it watches
  ctlFailed,  \* history: some epoll_ctl has failed
  eventsSize, \* events_.size()
  active,     \* channels of activeChannels_ still to be handled
  orphans     \* history: addresses of Channels destroyed while registered

chanVars == <<stage, fd, events, index>>
ctlVars == <<interest, mask, ready, ctlFailed>>
vars == <<pc, held, chanVars, channels, ctlVars, eventsSize, active, orphans>>

Event == {"read", "write"}
\* EPOLLHUP and EPOLLERR are reported whether or not they were asked for.
Condition == Event \cup {"hup"}

\* In "closing" the Channel is gone and its descriptor still open.
Stage == {"none", "built", "added", "removed", "closing"}
LoopPoint == {"poll", "handle", "callback", "functors"}

TypeOK ==
  /\ pc \in LoopPoint
  /\ held \in Channels \cup {NoChannel}
  /\ stage \in [Channels -> Stage]
  /\ fd \in [Channels -> Fds]
  /\ events \in [Channels -> SUBSET Event]
  /\ index \in [Channels -> {"new", "added", "deleted"}]
  /\ channels \in [Fds -> Channels \cup {NoChannel}]
  /\ interest \in [Fds -> Channels \cup {NoChannel}]
  /\ mask \in [Fds -> SUBSET Event]
  /\ ready \in [Fds -> SUBSET Condition]
  /\ ctlFailed \in BOOLEAN
  /\ eventsSize \in Nat \ {0}
  /\ active \subseteq Channels
  /\ orphans \subseteq Channels

Init ==
  /\ pc = "functors"
  /\ held = NoChannel
  /\ stage = [c \in Channels |-> "none"]
  /\ fd \in [Channels -> Fds]
  /\ events = [c \in Channels |-> {}]
  /\ index = [c \in Channels |-> "new"]
  /\ channels = [f \in Fds |-> NoChannel]
  /\ interest = [f \in Fds |-> NoChannel]
  /\ mask = [f \in Fds |-> {}]
  /\ ready = [f \in Fds |-> {}]
  /\ ctlFailed = FALSE
  /\ eventsSize = kInitEventListSize
  /\ active = {}
  /\ orphans = {}

\* Seeded fault: connectDestroyed closes the descriptor, and ~Socket once more.
OpenUntilRemoved == {fd[c] : c \in {d \in Channels : stage[d] \in {"built", "added", "closing"}}}

\* Descriptors in use.
Open == {fd[c] : c \in {d \in Channels : stage[d] # "none"}}

-----------------------------------------------------------------------------
(* Eepoller::update: epoll_ctl.  An error is logged and otherwise ignored. *)

EpollAdd(c, evs) ==
  IF interest[fd[c]] = NoChannel
  THEN /\ interest' = [interest EXCEPT ![fd[c]] = c]
       /\ mask' = [mask EXCEPT ![fd[c]] = evs]
       /\ UNCHANGED <<ready, ctlFailed>>
  ELSE ctlFailed' = TRUE /\ UNCHANGED <<interest, mask, ready>>       \* EEXIST

EpollMod(c, evs) ==
  IF interest[fd[c]] # NoChannel
  THEN /\ interest' = [interest EXCEPT ![fd[c]] = c]
       /\ mask' = [mask EXCEPT ![fd[c]] = evs]
       /\ UNCHANGED <<ready, ctlFailed>>
  ELSE ctlFailed' = TRUE /\ UNCHANGED <<interest, mask, ready>>       \* ENOENT

\* The kernel has nothing for descriptor f any more.
Unwatch(f) ==
  /\ interest' = [interest EXCEPT ![f] = NoChannel]
  /\ mask' = [mask EXCEPT ![f] = {}]
  /\ ready' = [ready EXCEPT ![f] = {}]

EpollDel(c) ==
  IF interest[fd[c]] # NoChannel
  THEN Unwatch(fd[c]) /\ UNCHANGED ctlFailed
  ELSE ctlFailed' = TRUE /\ UNCHANGED <<interest, mask, ready>>       \* ENOENT

\* Eepoller::updateChannel on a channel that epoll does not have: it is added,
\* even when it asks for no event at all.
AddChannel(c, evs) ==
  /\ index[c] \in {"new", "deleted"}
  /\ channels' = IF index[c] = "new" THEN [channels EXCEPT ![fd[c]] = c]
                                     ELSE channels
  /\ index' = [index EXCEPT ![c] = "added"]
  /\ EpollAdd(c, evs)

\* Seeded fault: index_ is not set to kDeleted.
ModifyKeepsIndex(c, evs) ==
  /\ index[c] = "added"
  /\ \/ evs = {} /\ EpollDel(c)
     \/ evs # {} /\ EpollMod(c, evs)
  /\ UNCHANGED <<index, channels>>

\* ... and on one that it has: it is taken out when it asks for no event.
ModifyChannel(c, evs) ==
  /\ index[c] = "added"
  /\ \/ /\ evs = {}
        /\ EpollDel(c)
        /\ index' = [index EXCEPT ![c] = "deleted"]
     \/ /\ evs # {}
        /\ EpollMod(c, evs)
        /\ UNCHANGED index
  /\ UNCHANGED channels

\* enableReading and its kin: events_ is assigned, then update() is called.
Update(c, evs) ==
  /\ events' = [events EXCEPT ![c] = evs]
  /\ AddChannel(c, evs) \/ ModifyChannel(c, evs)
  /\ UNCHANGED fd

\* Eepoller::removeChannel.
RemoveChannel(c) ==
  /\ channels' = [channels EXCEPT ![fd[c]] = NoChannel]
  /\ IF index[c] = "added" THEN EpollDel(c) ELSE UNCHANGED ctlVars
  /\ index' = [index EXCEPT ![c] = "new"]
  /\ UNCHANGED <<events, fd>>

-----------------------------------------------------------------------------
(* The loop thread.                                                        *)

\* The channels that epoll_wait could report now.
Pollable(f) == interest[f] # NoChannel /\ ready[f] \cap (mask[f] \cup {"hup"}) # {}
PollableFds == {f \in Fds : Pollable(f)}

\* Seeded fault: the event list never grows.
NeverGrown(n) == eventsSize

\* The length of events_ after a call that returned n events.
Grown(n) == IF n = eventsSize THEN 2 * eventsSize ELSE eventsSize

\* Eepoller::poll: epoll_wait fills events_, with any of the ready descriptors
\* when there are more than fit in it; fillActiveChannels follows the pointers.
Poll(reported) ==
  /\ pc = "poll"
  /\ reported \subseteq PollableFds
  /\ reported # {}
  /\ \/ Cardinality(reported) = eventsSize
     \/ Cardinality(reported) < eventsSize /\ reported = PollableFds
  /\ eventsSize' = Grown(Cardinality(reported))
  /\ active' = {interest[f] : f \in reported}
  /\ pc' = "handle"
  /\ UNCHANGED <<held, chanVars, channels, ctlVars, orphans>>

\* epoll_wait returns none of these channels: it was ended by the eventfd, the
\* timeout or a signal, none of which hides a descriptor that is ready.
PollNothing ==
  /\ pc = "poll"
  /\ PollableFds = {}
  /\ pc' = "functors"
  /\ UNCHANGED <<held, chanVars, channels, ctlVars, eventsSize, active, orphans>>

\* Channel::handleEvent of the next active channel: its guard holds the
\* connection and its callbacks run.  If the Channel was destroyed meanwhile,
\* what it does is undefined: the callbacks may run all the same, unguarded.
HandleEvent(c) ==
  /\ pc = "handle"
  /\ c \in active
  /\ active' = active \ {c}
  /\ held' = IF stage[c] = "added" THEN c ELSE NoChannel
  /\ pc' = "callback"
  /\ UNCHANGED <<chanVars, channels, ctlVars, eventsSize, orphans>>

CallbackReturns ==
  /\ pc = "callback"
  /\ pc' = IF active = {} THEN "functors" ELSE "handle"
  /\ held' = NoChannel
  /\ UNCHANGED <<chanVars, channels, ctlVars, eventsSize, active, orphans>>

FunctorsDone ==
  /\ pc = "functors"
  /\ held = NoChannel
  /\ pc' = "poll"
  /\ UNCHANGED <<held, chanVars, channels, ctlVars, eventsSize, active, orphans>>

\* connectEstablished: enableReading on a channel that was just built.
Establish(c) ==
  /\ pc = "functors"
  /\ held = NoChannel
  /\ stage[c] = "built"
  /\ stage' = [stage EXCEPT ![c] = "added"]
  /\ Update(c, events[c] \cup {"read"})
  /\ UNCHANGED <<pc, held, eventsSize, active, orphans>>

\* A callback or functor calls enableReading, disableReading, enableWriting,
\* disableWriting or disableAll on any channel of the loop.  One that was
\* removed is registered again: startReadInLoop and handleClose do not ask
\* whether connectDestroyed has run, and sendInLoop asks for kDisconnected, which
\* connectDestroyed does not set in state kDisconnecting.
UserUpdate(c) ==
  /\ pc \in {"callback", "functors"}
  /\ stage[c] \in {"added", "removed"}
  /\ stage' = [stage EXCEPT ![c] = "added"]
  /\ \E evs \in {events[c] \cup {e} : e \in Event}
                  \cup {events[c] \ {e} : e \in Event} \cup {{}} : Update(c, evs)
  /\ UNCHANGED <<pc, held, eventsSize, active, orphans>>

\* connectDestroyed of a connection whose state is still kConnected begins
\* with disableAll and the user's connection callback ...
BeginDestroy(c) ==
  /\ pc = "functors"
  /\ held = NoChannel
  /\ stage[c] = "added"
  /\ Update(c, {})
  /\ held' = c
  /\ UNCHANGED <<pc, stage, eventsSize, active, orphans>>

\* Seeded fault: connectDestroyed is called directly by a callback.
RemoveAtOnce(c) ==
  /\ pc \in {"callback", "functors"}
  /\ held \in {c, NoChannel}
  /\ stage[c] = "added"
  /\ RemoveChannel(c)
  /\ stage' = [stage EXCEPT ![c] = "removed"]
  /\ held' = NoChannel
  /\ UNCHANGED <<pc, eventsSize, active, orphans>>

\* ... and then, or at once in any other state, removes the channel.  It runs
\* again when handleClose is called twice, or when ~TcpServer queues it behind
\* removeConnectionInLoop's: then the channel may be out already, or back.
Remove(c) ==
  /\ pc = "functors"
  /\ held \in {c, NoChannel}
  /\ stage[c] \in {"added", "removed"}
  /\ RemoveChannel(c)
  /\ stage' = [stage EXCEPT ![c] = "removed"]
  /\ held' = NoChannel
  /\ UNCHANGED <<pc, eventsSize, active, orphans>>

-----------------------------------------------------------------------------
(* Other threads, and the kernel.                                          *)

\* Seeded fault: the constructor leaves index_ uninitialised.
AnyIndex == "garbage"

InitialIndex == "new"

\* accept() returns a free descriptor and a Channel is built for it.
Build(c, f) ==
  /\ stage[c] = "none"
  /\ f \notin Open
  /\ stage' = [stage EXCEPT ![c] = "built"]
  /\ fd' = [fd EXCEPT ![c] = f]
  /\ events' = [events EXCEPT ![c] = {}]
  /\ index' = [index EXCEPT ![c] = InitialIndex]
  /\ UNCHANGED <<pc, held, channels, ctlVars, eventsSize, active, orphans>>

\* The last reference is dropped: ~Channel.  It is asserted, on the loop's
\* thread only, that channels_ does not have the Channel; nothing is undone.
Destroy(c) ==
  /\ stage[c] \in {"built", "added", "removed"}
  /\ c # held
  /\ stage' = [stage EXCEPT ![c] = "closing"]
  /\ orphans' = IF stage[c] = "added" THEN orphans \cup {c} ELSE orphans
  /\ events' = [events EXCEPT ![c] = {}]          \* no matter: they are gone
  /\ index' = [index EXCEPT ![c] = "new"]
  /\ UNCHANGED <<pc, held, fd, channels, ctlVars, eventsSize, active>>

\* ~Socket, behind ~Channel: close() takes the descriptor out of the kernel's
\* interest set.  The pointer in channels_, if it is there, stays.
Close(c) ==
  /\ stage[c] = "closing"
  /\ stage' = [stage EXCEPT ![c] = "none"]
  /\ Unwatch(fd[c])
  /\ UNCHANGED <<pc, held, fd, events, index, channels, ctlFailed, eventsSize,
                 active, orphans>>

\* The peer sends, reads or closes: a condition of a descriptor that epoll
\* watches begins or ceases to hold.  One that held before the descriptor was
\* added does so from the next such step.
PeerActs(f) ==
  /\ interest[f] # NoChannel
  /\ \E k \in Condition :
       ready' = [ready EXCEPT ![f] = IF k \in @ THEN @ \ {k} ELSE @ \cup {k}]
  /\ UNCHANGED <<pc, held, chanVars, channels, interest, mask, ctlFailed,
                 eventsSize, active, orphans>>

-----------------------------------------------------------------------------
LoopStep ==
  \/ \E reported \in SUBSET Fds : Poll(reported)
  \/ PollNothing
  \/ \E c \in Channels : HandleEvent(c)
  \/ CallbackReturns
  \/ FunctorsDone
  \/ \E c \in Channels : Establish(c) \/ BeginDestroy(c) \/ Remove(c)

Next ==
  \/ LoopStep
  \/ \E c \in Channels : UserUpdate(c) \/ Destroy(c) \/ Close(c)
  \/ \E c \in Channels, f \in Fds : Build(c, f)
  \/ \E f \in Fds : PeerActs(f)

Spec == Init /\ [][Next]_vars

\* The loop thread keeps looping, callbacks return, and doPendingFunctors ends,
\* since it runs only the functors it found queued.  Of the descriptors that are
\* ready, epoll_wait may report any that fit: nothing is assumed of which.
FairSpec ==
  /\ Spec
  /\ WF_vars(\/ \E reported \in SUBSET Fds : Poll(reported)
             \/ \E c \in Channels : HandleEvent(c) \/ (held = c /\ Remove(c))
             \/ CallbackReturns)
  /\ SF_vars(FunctorsDone)

-----------------------------------------------------------------------------
(* Properties.                                                             *)

\* The three views agree: a registered Channel is in channels_ under its own
\* descriptor, and the kernel has it, with the mask of its events_, exactly
\* when its index_ is kAdded (epoller.cc:77-115).
Agreement ==
  \A c \in Channels : stage[c] = "added" =>
     /\ channels[fd[c]] = c
     /\ index[c] # "new"
     /\ index[c] = "added" <=> interest[fd[c]] = c
     /\ index[c] = "added" => mask[fd[c]] = events[c]

\* No raw pointer outlives its Channel's registration: not in channels_, not in
\* the kernel, which would hand it back, and not among the channels of
\* activeChannels_ still to be handled, even when calls of update() and remove()
\* come behind connectDestroyed, and when another thread destroys the Channel
\* and its descriptor and memory are used again (epoller.cc:77-115).  The
\* excepted are Channels destroyed while registered, which ~Channel asserts not
\* to happen (channel.cc:28-34) and which does happen; of these the kernel
\* forgets the pointer before the descriptor can be used again.
NoDanglingPointer ==
  /\ \A f \in Fds : interest[f] # NoChannel
       => stage[interest[f]] \in {"added", "closing"} /\ fd[interest[f]] = f
  /\ \A c \in Channels \ orphans :
       /\ \A f \in Fds : c \in {channels[f], interest[f]}
            => stage[c] = "added" /\ fd[c] = f
       /\ c \in active => stage[c] = "added"

\* epoll_ctl is never called with an operation the kernel rejects, although
\* its errors are only logged (epoller.cc:118-141).
CtlNeverFails == ~ctlFailed

\* No channel starves, however the kernel chooses among those that are ready:
\* events_ grows until they all fit (epoller.cc:51-54).
NoStarvation ==
  \A c \in Channels :
     stage[c] = "added" /\ Pollable(fd[c])
        ~> c \in active \/ stage[c] # "added" \/ ~Pollable(fd[c])
=============================================================================

---------------------------- MODULE EpollerProofs ----------------------------
(***************************************************************************)
(* Theorems about Epoller, for any addresses, descriptors and length of    *)
(* the event list.                                                         *)
(*                                                                         *)
(* Agreement and NoDanglingPointer are nearly inductive together.  What    *)
(* they lack is why EPOLL_CTL_ADD finds the descriptor free: two Channels  *)
(* that exist at the same time never share a descriptor, and one that is   *)
(* not registered has index_ kNew, before connectEstablished as after each *)
(* connectDestroyed; and why a Channel removed by a functor is not in      *)
(* activeChannels_: that list is used up before the first functor runs.    *)
(***************************************************************************)
EXTENDS Epoller, TLAPS

OwnDescriptor ==
  \A c, d \in Channels :
     stage[c] # "none" /\ stage[d] # "none" /\ fd[c] = fd[d] => c = d

IdleIsNew ==
  \A c \in Channels : stage[c] \in {"built", "removed"} => index[c] = "new"

ActiveInv == pc \in {"poll", "functors"} => active = {}

IInv ==
  /\ TypeOK
  /\ OwnDescriptor
  /\ IdleIsNew
  /\ ActiveInv
  /\ Agreement
  /\ NoDanglingPointer
  /\ CtlNeverFails

-----------------------------------------------------------------------------
(* What the poller's operations do to a Channel c, in a state in which the *)
(* invariant holds.                                                        *)

\* The kernel's entry for the descriptor of an existing Channel is that
\* Channel's own, and is there only while the Channel is registered.
LEMMA EntryIsOwn ==
  ASSUME IInv, NEW c \in Channels, stage[c] \in {"built", "added", "removed"}
  PROVE  /\ interest[fd[c]] \in {c, NoChannel}
         /\ interest[fd[c]] = c <=> stage[c] = "added" /\ index[c] = "added"
<1> USE DEF IInv, TypeOK
<1>1. fd[c] \in Fds /\ c # NoChannel
  BY EpollerAssumption
<1>2. interest[fd[c]] \in {c, NoChannel}
  BY <1>1 DEF OwnDescriptor, NoDanglingPointer
<1>3. interest[fd[c]] = c => stage[c] = "added"
  BY <1>1 DEF NoDanglingPointer
<1>4. stage[c] = "added" => (index[c] = "added" <=> interest[fd[c]] = c)
  BY DEF Agreement
<1> QED
  BY <1>2, <1>3, <1>4

\* updateChannel leaves channels_, the kernel and index_ in agreement, through
\* a call of epoll_ctl that succeeds.
LEMMA UpdateEffect ==
  ASSUME IInv, NEW c \in Channels, NEW evs \in SUBSET Event,
         stage[c] \in {"built", "added", "removed"}, Update(c, evs)
  PROVE  /\ ctlFailed' = FALSE
         /\ ready' \in [Fds -> SUBSET Condition]
         /\ fd' = fd
         /\ events' = [events EXCEPT ![c] = evs]
         /\ channels' = [channels EXCEPT ![fd[c]] = c]
         /\ \/ /\ index' = [index EXCEPT ![c] = "added"]
               /\ interest' = [interest EXCEPT ![fd[c]] = c]
               /\ mask' = [mask EXCEPT ![fd[c]] = evs]
            \/ /\ index' = [index EXCEPT ![c] = "deleted"]
               /\ interest' = [interest EXCEPT ![fd[c]] = NoChannel]
               /\ mask' = [mask EXCEPT ![fd[c]] = {}]
<1> USE DEF IInv, TypeOK
<1>1. /\ interest[fd[c]] \in {c, NoChannel}
      /\ interest[fd[c]] = c <=> stage[c] = "added" /\ index[c] = "added"
  BY EntryIsOwn
<1>2. fd[c] \in Fds /\ c # NoChannel
  BY EpollerAssumption
<1>3. stage[c] = "added" => channels[fd[c]] = c /\ index[c] # "new"
  BY DEF Agreement
<1>4. stage[c] # "added" => index[c] = "new"
  BY DEF IdleIsNew
<1>5. CASE AddChannel(c, evs)
  <2>1. interest[fd[c]] = NoChannel
    BY <1>1, <1>5 DEF AddChannel
  <2>2. channels' = [channels EXCEPT ![fd[c]] = c]
    BY <1>2, <1>3, <1>4, <1>5 DEF AddChannel
  <2> QED
    BY <1>5, <2>1, <2>2 DEF Update, AddChannel, EpollAdd, CtlNeverFails
<1>6. CASE ModifyChannel(c, evs)
  <2>1. stage[c] = "added" /\ interest[fd[c]] # NoChannel
    BY <1>1, <1>2, <1>4, <1>6 DEF ModifyChannel
  <2>2. channels' = [channels EXCEPT ![fd[c]] = c]
    BY <1>2, <1>3, <1>6, <2>1 DEF ModifyChannel
  <2>3. CASE evs = {}
    <3>1. EpollDel(c) /\ index' = [index EXCEPT ![c] = "deleted"]
      BY <1>6, <2>3 DEF ModifyChannel
    <3>2. /\ ctlFailed' = FALSE
          /\ interest' = [interest EXCEPT ![fd[c]] = NoChannel]
          /\ mask' = [mask EXCEPT ![fd[c]] = {}]
          /\ ready' = [ready EXCEPT ![fd[c]] = {}]
      BY <2>1, <3>1 DEF EpollDel, Unwatch, CtlNeverFails
    <3>3. ready' \in [Fds -> SUBSET Condition]
      BY <3>2
    <3> QED
      BY <2>2, <3>1, <3>2, <3>3 DEF Update
  <2>4. CASE evs # {}
    <3>1. index' = [index EXCEPT ![c] = "added"]
      BY <1>6, <2>4 DEF ModifyChannel
    <3> QED
      BY <1>6, <2>1, <2>2, <2>4, <3>1
      DEF Update, ModifyChannel, EpollMod, CtlNeverFails
  <2> QED
    BY <2>3, <2>4
<1> QED
  BY <1>5, <1>6 DEF Update

\* removeChannel leaves no trace of the Channel, through a call of epoll_ctl
\* that succeeds.
LEMMA RemoveEffect ==
  ASSUME IInv, NEW c \in Channels, stage[c] \in {"added", "removed"},
         RemoveChannel(c)
  PROVE  /\ ctlFailed' = FALSE
         /\ ready' \in [Fds -> SUBSET Condition]
         /\ fd' = fd /\ events' = events
         /\ channels' = [channels EXCEPT ![fd[c]] = NoChannel]
         /\ index' = [index EXCEPT ![c] = "new"]
         /\ interest' = [interest EXCEPT ![fd[c]] = NoChannel]
         /\ mask' \in [Fds -> SUBSET Event]
         /\ \A f \in Fds \ {fd[c]} : mask'[f] = mask[f]
<1> USE DEF IInv, TypeOK
<1>1. /\ interest[fd[c]] \in {c, NoChannel}
      /\ interest[fd[c]] = c <=> index[c] = "added"
  BY EntryIsOwn DEF IdleIsNew
<1>2. fd[c] \in Fds /\ c # NoChannel
  BY EpollerAssumption
<1>3. CASE index[c] = "added"
  BY <1>1, <1>2, <1>3 DEF RemoveChannel, EpollDel, Unwatch, CtlNeverFails
<1>4. CASE index[c] # "added"
  BY <1>1, <1>2, <1>4 DEF RemoveChannel, ctlVars, CtlNeverFails
<1> QED
  BY <1>3, <1>4

\* A step that registers or updates a Channel preserves the invariant.
LEMMA UpdateKeeps ==
  ASSUME IInv, NEW c \in Channels, NEW evs \in SUBSET Event,
         stage[c] \in {"built", "added", "removed"}, Update(c, evs),
         stage' = [stage EXCEPT ![c] = "added"],
         pc' = pc, held' \in Channels \cup {NoChannel},
         UNCHANGED <<eventsSize, active, orphans>>
  PROVE  IInv'
<1> USE DEF IInv, TypeOK, Stage
<1>1. /\ ctlFailed' = FALSE
      /\ ready' \in [Fds -> SUBSET Condition]
      /\ fd' = fd
      /\ events' = [events EXCEPT ![c] = evs]
      /\ channels' = [channels EXCEPT ![fd[c]] = c]
      /\ \/ /\ index' = [index EXCEPT ![c] = "added"]
            /\ interest' = [interest EXCEPT ![fd[c]] = c]
            /\ mask' = [mask EXCEPT ![fd[c]] = evs]
         \/ /\ index' = [index EXCEPT ![c] = "deleted"]
            /\ interest' = [interest EXCEPT ![fd[c]] = NoChannel]
            /\ mask' = [mask EXCEPT ![fd[c]] = {}]
  BY UpdateEffect
<1>2. TypeOK'
  <2>1. mask' \in [Fds -> SUBSET Event]
    BY <1>1
  <2>2. index' \in [Channels -> {"new", "added", "deleted"}]
    BY <1>1
  <2>3. interest' \in [Fds -> Channels \cup {NoChannel}]
    BY <1>1
  <2>4. events' \in [Channels -> SUBSET Event]
    BY <1>1
  <2>5. stage' \in [Channels -> Stage]
    OBVIOUS
  <2>6. channels' \in [Fds -> Channels \cup {NoChannel}]
    BY <1>1
  <2> QED
    BY <1>1, <2>1, <2>2, <2>3, <2>4, <2>5, <2>6
<1>3. OwnDescriptor' /\ IdleIsNew' /\ ActiveInv' /\ CtlNeverFails'
  BY <1>1 DEF OwnDescriptor, IdleIsNew, ActiveInv, CtlNeverFails
<1>4. \A d \in Channels \ {c} : stage[d] # "none" => fd[d] # fd[c]
  BY DEF OwnDescriptor
<1>5. Agreement'
  BY <1>1, <1>4, EpollerAssumption DEF Agreement
<1>6. NoDanglingPointer'
  BY <1>1, <1>4, EpollerAssumption DEF NoDanglingPointer
<1> QED
  BY <1>2, <1>3, <1>5, <1>6

-----------------------------------------------------------------------------
\* No Channel is registered at first.
LEMMA InitInv == Init => IInv
<1> SUFFICES ASSUME Init PROVE IInv
  OBVIOUS
<1> USE EpollerAssumption DEF Init
<1>1. TypeOK
  <2>1. ready \in [Fds -> SUBSET Condition]
    OBVIOUS
  <2> QED
    BY <2>1 DEF TypeOK, LoopPoint, Stage
<1>2. OwnDescriptor /\ IdleIsNew /\ ActiveInv /\ Agreement /\ CtlNeverFails
  BY DEF OwnDescriptor, IdleIsNew, ActiveInv, Agreement, CtlNeverFails
<1>3. NoDanglingPointer
  BY DEF NoDanglingPointer
<1> QED
  BY <1>1, <1>2, <1>3 DEF IInv

\* A step that leaves the registrations alone preserves the invariant, if what
\* it makes active is registered.
LEMMA QuietKeeps ==
  ASSUME IInv, UNCHANGED <<chanVars, channels, interest, mask, ctlFailed, orphans>>,
         pc' \in LoopPoint, held' \in Channels \cup {NoChannel},
         ready' \in [Fds -> SUBSET Condition], eventsSize' \in Nat \ {0},
         active' \subseteq Channels,
         \A c \in active' \ orphans : stage[c] = "added",
         ActiveInv'
  PROVE  IInv'
BY DEF IInv, TypeOK, OwnDescriptor, IdleIsNew, Agreement, NoDanglingPointer,
       CtlNeverFails, chanVars

\* Every step keeps the views of Channel, poller and kernel together.
LEMMA NextInv ==
  ASSUME IInv, [Next]_vars
  PROVE  IInv'
<1> USE DEF IInv
<1>1. ASSUME NEW reported \in SUBSET Fds, Poll(reported) PROVE IInv'
  <2>1. \A f \in reported :
          /\ interest[f] \in Channels
          /\ interest[f] \notin orphans => stage[interest[f]] = "added"
    BY <1>1 DEF Poll, PollableFds, Pollable, NoDanglingPointer, TypeOK
  <2>2. eventsSize' \in Nat \ {0}
    BY <1>1 DEF Poll, Grown, TypeOK
  <2>3. active' \subseteq Channels /\ \A c \in active' \ orphans : stage[c] = "added"
    BY <1>1, <2>1 DEF Poll
  <2> QED
    BY <1>1, <2>2, <2>3, QuietKeeps DEF Poll, ctlVars, TypeOK, LoopPoint, ActiveInv
<1>2. CASE PollNothing
  BY <1>2, QuietKeeps
  DEF PollNothing, ctlVars, TypeOK, LoopPoint, ActiveInv, NoDanglingPointer
<1>3. ASSUME NEW c \in Channels, HandleEvent(c) PROVE IInv'
  BY <1>3, QuietKeeps
  DEF HandleEvent, ctlVars, TypeOK, LoopPoint, ActiveInv, NoDanglingPointer
<1>4. CASE CallbackReturns
  BY <1>4, QuietKeeps
  DEF CallbackReturns, ctlVars, TypeOK, LoopPoint, ActiveInv, NoDanglingPointer
<1>5. CASE FunctorsDone
  BY <1>5, QuietKeeps
  DEF FunctorsDone, ctlVars, TypeOK, LoopPoint, ActiveInv, NoDanglingPointer
<1>6. ASSUME NEW c \in Channels, Establish(c) PROVE IInv'
  <2>1. events[c] \cup {"read"} \in SUBSET Event
    BY DEF TypeOK, Event
  <2> QED
    BY <1>6, <2>1, UpdateKeeps DEF Establish, TypeOK
<1>7. ASSUME NEW c \in Channels, UserUpdate(c) PROVE IInv'
  <2>1. PICK evs \in SUBSET Event : Update(c, evs)
    BY <1>7 DEF UserUpdate, TypeOK
  <2> QED
    BY <1>7, <2>1, UpdateKeeps DEF UserUpdate, TypeOK
<1>8. ASSUME NEW c \in Channels, BeginDestroy(c) PROVE IInv'
  <2>1. stage' = [stage EXCEPT ![c] = "added"]
    BY <1>8 DEF BeginDestroy, TypeOK
  <2> QED
    BY <1>8, <2>1, UpdateKeeps DEF BeginDestroy
<1>9. ASSUME NEW c \in Channels, Remove(c) PROVE IInv'
  <2> USE DEF TypeOK, Stage
  <2>1. /\ ctlFailed' = FALSE
        /\ ready' \in [Fds -> SUBSET Condition]
        /\ fd' = fd /\ events' = events
        /\ channels' = [channels EXCEPT ![fd[c]] = NoChannel]
        /\ index' = [index EXCEPT ![c] = "new"]
        /\ interest' = [interest EXCEPT ![fd[c]] = NoChannel]
        /\ mask' \in [Fds -> SUBSET Event]
        /\ \A f \in Fds \ {fd[c]} : mask'[f] = mask[f]
    BY <1>9, RemoveEffect DEF Remove
  <2>2. stage' = [stage EXCEPT ![c] = "removed"]
    BY <1>9 DEF Remove
  <2>3. TypeOK'
    BY <1>9, <2>1, <2>2 DEF Remove
  <2>4. OwnDescriptor' /\ IdleIsNew' /\ ActiveInv' /\ CtlNeverFails'
    BY <1>9, <2>1, <2>2
    DEF Remove, OwnDescriptor, IdleIsNew, ActiveInv, CtlNeverFails
  <2>5. \A d \in Channels \ {c} : stage[d] # "none" => fd[d] # fd[c]
    BY <1>9 DEF Remove, OwnDescriptor
  <2>6. Agreement'
    BY <2>1, <2>2, <2>5 DEF Agreement
  <2>7. active' = {}
    BY <1>9 DEF Remove, ActiveInv
  <2>8. NoDanglingPointer'
    BY <1>9, <2>1, <2>2, <2>5, <2>7, EpollerAssumption DEF Remove, NoDanglingPointer
  <2> QED
    BY <2>3, <2>4, <2>6, <2>8
<1>10. ASSUME NEW c \in Channels, Destroy(c) PROVE IInv'
  <2> USE DEF TypeOK, Stage
  <2>1. TypeOK'
    BY <1>10 DEF Destroy, ctlVars
  <2>2. OwnDescriptor' /\ IdleIsNew' /\ ActiveInv' /\ CtlNeverFails'
    BY <1>10
    DEF Destroy, ctlVars, OwnDescriptor, IdleIsNew, ActiveInv, CtlNeverFails
  <2>3. Agreement'
    BY <1>10 DEF Destroy, ctlVars, Agreement
  <2>4. NoDanglingPointer'
    BY <1>10, EpollerAssumption DEF Destroy, ctlVars, NoDanglingPointer
  <2> QED
    BY <2>1, <2>2, <2>3, <2>4
<1>11. ASSUME NEW c \in Channels, Close(c) PROVE IInv'
  <2> USE DEF TypeOK, Stage
  <2>1. \A d \in Channels \ {c} : stage[d] # "none" => fd[d] # fd[c]
    BY <1>11 DEF Close, OwnDescriptor
  <2>2. TypeOK'
    BY <1>11 DEF Close, Unwatch
  <2>3. OwnDescriptor' /\ IdleIsNew' /\ ActiveInv' /\ CtlNeverFails'
    BY <1>11 DEF Close, OwnDescriptor, IdleIsNew, ActiveInv, CtlNeverFails
  <2>4. Agreement'
    BY <1>11, <2>1 DEF Close, Unwatch, Agreement
  <2>5. NoDanglingPointer'
    BY <1>11, <2>1, EpollerAssumption DEF Close, Unwatch, NoDanglingPointer
  <2> QED
    BY <2>2, <2>3, <2>4, <2>5
<1>12. ASSUME NEW c \in Channels, NEW f \in Fds, Build(c, f) PROVE IInv'
  <2> USE DEF TypeOK, Stage
  <2>1. \A d \in Channels : stage[d] # "none" => fd[d] # f
    BY <1>12 DEF Build, Open
  <2>2. TypeOK'
    BY <1>12 DEF Build, InitialIndex, ctlVars
  <2>3. OwnDescriptor'
    BY <1>12, <2>1 DEF Build, OwnDescriptor
  <2>4. IdleIsNew' /\ ActiveInv' /\ CtlNeverFails'
    BY <1>12 DEF Build, InitialIndex, ctlVars, IdleIsNew, ActiveInv, CtlNeverFails
  <2>5. Agreement'
    BY <1>12 DEF Build, ctlVars, Agreement
  <2>6. NoDanglingPointer'
    BY <1>12, EpollerAssumption DEF Build, ctlVars, NoDanglingPointer
  <2> QED
    BY <2>2, <2>3, <2>4, <2>5, <2>6
<1>13. ASSUME NEW f \in Fds, PeerActs(f) PROVE IInv'
  BY <1>13, QuietKeeps DEF PeerActs, TypeOK, Condition, ActiveInv, NoDanglingPointer
<1>14. CASE UNCHANGED vars
  BY <1>14, QuietKeeps DEF vars, ctlVars, TypeOK, ActiveInv, NoDanglingPointer
<1> QED
  BY <1>1, <1>2, <1>3, <1>4, <1>5, <1>6, <1>7, <1>8, <1>9, <1>10, <1>11, <1>12,
     <1>13, <1>14
  DEF Next, LoopStep

\* The invariant holds throughout.
LEMMA Inductive == Spec => []IInv
<1>1. IInv /\ [Next]_vars => IInv'
  BY NextInv
<1> QED
  BY <1>1, InitInv, PTL DEF Spec

-----------------------------------------------------------------------------
\* Every variable stays in its type.
THEOREM TypeCorrect == Spec => []TypeOK
<1>1. IInv => TypeOK
  BY DEF IInv
<1> QED
  BY <1>1, Inductive, PTL

\* channels_, the kernel's interest set and the Channels' own index_ and
\* events_ always agree (epoller.cc:77-115).
THEOREM ViewsAgree == Spec => []Agreement
<1>1. IInv => Agreement
  BY DEF IInv
<1> QED
  BY <1>1, Inductive, PTL

\* No pointer to a Channel outlives the Channel's registration, if the Channel
\* was not destroyed while registered; and the kernel's does not outlive the
\* descriptor, if it was (epoller.cc:77-115, channel.cc:28-34, socket.cc:15-18).
THEOREM PointersLive == Spec => []NoDanglingPointer
<1>1. IInv => NoDanglingPointer
  BY DEF IInv
<1> QED
  BY <1>1, Inductive, PTL

\* No call of epoll_ctl ever fails (epoller.cc:118-141).
THEOREM CtlSucceeds == Spec => []CtlNeverFails
<1>1. IInv => CtlNeverFails
  BY DEF IInv
<1> QED
  BY <1>1, Inductive, PTL
=============================================================================

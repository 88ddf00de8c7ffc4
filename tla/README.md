# A TLA+ model of muduoStudy

muduoStudy (`src/src/`) is a C++11 network library after muduo: one event loop
per thread, non-blocking TCP connections, and a server that spreads its
connections over a pool of loops. This directory models the library's own logic
in TLA+. TLC checks the modules on small instances, and TLAPS proves the most
important properties for every value of the constants.

    tlc -config EventLoop.cfg EventLoop.tla      # a run: <cfg>, <module>
    tlapm EventLoopProofs.tla                    # a module of proofs

`PROJECT.json` lists the runs with their modules, relates every definition to
lines of the source, gives for each property a mutation of the code that breaks
it, and lists the hazards and the findings.

## 1. The system

### Components

| Component | State | Operations | Modelled in |
|---|---|---|---|
| `EventLoop` | `quit_`, `callingPendingFunctors_`, `pendingFunctors_` under `mutex_`, the eventfd `wakeupFd_`, `activeChannels_` | `loop`, `quit`, `wakeup`, `runInloop`, `queueInloop`, `handleRead`, `doPendingFunctors` | `EventLoop`, over `TaskQueue` |
| `Poller`, `Eepoller` | `channels_` (descriptor to raw `Channel*`), `events_`; the kernel's interest set | `poll`, `updateChannel`, `removeChannel` | `Epoller` |
| `Channel` | `fd_`, `events_`, `revents_`, `index_` | `enable*`, `disable*`, `remove`, `handleEvent` | `Epoller`, `TcpConnection` |
| `TcpConnection` | atomic `state_`, `reading_`, the channel, `outputBuffer_` | `send`, `shutdown`, `forceClose`, `startRead`, `stopRead`, `connectEstablished`, `connectDestroyed`, four handlers | `TcpConnection`, over `ByteStream` |
| `Buff` | `buf_`, `readerIndex_`, `writerIndex_` | `append`, `retrieve*`, `prepend`, `unwrite`, `ensureWritableBytes`, `hasWritten`, `readFd`, `swap` | `Buff`, over `ByteQueue` |
| `Thread`, `EventLoopThread` | the `std::thread`, a semaphore, `loop_` under `mutex_` and a condition variable | `start`, `join`; `startLoop`, `threadFunc`, the destructor | `EventLoopThread`, with `EventLoop` in it |
| `EventLoopThreadPool` | `threads_`, `loops_`, `next_` | `start`, `getNextLoop`, `getLoopForHash`, `getAllLoops` | the first two in `TcpServer`; the others read only |
| `TcpServer` | `connections_`, `nextConnId_`, `started_` | `start`, `newConnection`, `removeConnection`, `removeConnectionInLoop`, the destructor | `TcpServer`; the removal of one connection also in `TcpConnection` |
| `Acceptor` | the listening socket, `idleFd_` | `listen`, `handleRead`, the destructor | `Acceptor`, in `TcpServer` |
| `Socket` | a descriptor | system calls | `close`, `listen`, `accept`, `shutdownWrite` where the others use them |
| `Logger` | `log_level_`, shared by all threads | `set_level`, `output_for_terminal`, the four macros | `Logger` |
| `Timestamp`, `InetAddress`, `CurrentThread`, `nocopyable` | values, a cached thread id | formatting | no: nothing two steps share |

### How they interact

A loop's thread runs `loop()`: `Eepoller::poll` fills `activeChannels_`, each
Channel's `handleEvent` calls back into a connection, the acceptor or
`EventLoop::handleRead`, and then `doPendingFunctors` runs what was queued.
Other threads reach a loop in two ways only: `queueInloop` (under `mutex_`,
then a write to the eventfd) and `quit` (the atomic `quit_`, then a write). They
reach a connection through its atomic `state_` and through functors queued to
its loop. A connection's end goes through three hands: the io loop's
`handleClose`, the base loop's `removeConnectionInLoop`, and the io loop's
`connectDestroyed`.

### What is hard

- *Wakeups.* A functor or a `quit_` set between the loop's last look and
  `epoll_wait` must make the eventfd readable, from whatever thread it came.
- *Raw pointers.* `activeChannels_`, `channels_` and the kernel hold raw
  `Channel*`; descriptors and memory are reused while the loop polls.
- *Partial writes.* Bytes go to the socket from `sendInLoop` and from
  `handleWrite`, and must stay one stream while write interest is switched.
- *State tested here, used there.* `send` and `shutdown` test `state_` in the
  caller's thread and act in the loop's.
- *Closing.* `handleClose` may be called from four places, again and again.
- *Lifetimes.* A loop lives on the stack of its thread; the object that owns the
  thread may go before, while or after the loop ends.
- *Teardown.* The server hands functors to loops that it stops a moment later,
  and connections call back to a server through a raw pointer.
- *Pointers that users keep.* A call on a closed connection may run behind its
  `connectDestroyed`, and a functor behind the caller's last pointer.
- *Running out of descriptors*, where the spare one can be lost to another thread.
- *Moving bytes.* A Buff moves or reallocates its content and a read may be
  split over two buffers.

What makes each component correct is stated in section 3.

## 2. The modules

Every module has its state as VARIABLES, one action per handler or operation,
and names the code's functions. The properties stand at the end of the module.
A definition under the comment "Seeded fault" is no part of the model: it is a
plausible bug, put into the place of the definition that follows it to see that
a property notices.

**TaskQueue** is what an event loop promises to those who hand it functors: one
queue, each functor once and in order, no queued one after the loop has stopped.

**EventLoop** is the loop thread (`pc` goes through `loop()`), its user code, and
other threads. `queueInloop` by another thread is two steps, because it writes
to the eventfd after the functor is in the queue but still under the lock;
`quit` is two steps without a lock. `functors` is `doPendingFunctors`' local
vector; the refinement maps the abstract queue to `functors \o
pendingFunctors`.

**Epoller** has the poller, the Channels and the kernel's interest set, each
with its own idea of who is registered. The life of a Channel is that of a
connection: built by the base loop's thread, registered and removed on the io
loop's, destroyed by whoever drops the last reference. Nothing keeps it in this
order: the loop's code updates and removes a Channel as long as it has a
reference (`held`), also behind a removal, as a late `startRead` or `forceClose`
does, and the last reference may go while the Channel is registered. Such a
Channel is one of the `orphans`: its entries stay behind, and the kernel's goes
with the descriptor. Descriptors and Channel addresses are reused, those of
orphans too. `epoll_wait` returns at most `eventsSize` descriptors,
and `eventsSize` doubles when it was full. `EPOLL_CTL_*` are external, and fail
as the kernel would fail them.

**ByteStream** is what a connection promises to `send`: bytes taken in whole
messages, transmitted in order, cut only where the stream breaks.

**TcpConnection** has one connection, its io loop as seen from it (poll, the
events of its channel in the order of `handleEventWithGuard`, the functors in
the order of queueing), other threads, the server's map on the base loop, and
the socket with its send buffer and its peer. At any moment the base loop may
return and the server be destroyed (`DestroyServer`): what the base loop had
queued is lost, and a connection still in the map gets a `connectDestroyed`
without a `handleClose`. Writes take a part, fail because the socket is broken,
or fail otherwise (`EAGAIN`, or an error the code only logs before it buffers
the message). User callbacks run at the three
places where the code calls them and may call the connection again. The memory
that a caller hands to `send` is taken to keep the message until the functor has
run (see section 5).

**ByteQueue** is what a Buff promises: a sequence of bytes.

**Buff** writes each member function as an operator on a record of `buf_`, its
size and the two indices; the actions apply them. Bytes outside the content keep
what was there, as in the code.

**EventLoopThread** composes: `Loop == INSTANCE EventLoop` is the loop on the
new thread's stack, driven by that thread's steps, with the owner as its caller.
It adds `startLoop`'s handshake with spurious wakeups of the condition variable,
`Thread::start`'s semaphore, and the destructor, whose accesses to `loop_`
without the lock are separate steps. An owner that uses a loop which has been
destroyed becomes "undefined".

**Acceptor** has the listening socket's queue, the spare descriptor, and
`handleRead`. When `accept` finds no descriptor, its three system calls are
steps of their own, because other threads open and close descriptors between
them. Its operators take the number of free descriptors from whoever uses it.

**TcpServer** composes: Acceptor on the base loop, the pool's round robin,
`connections_`, and loops seen as "handle events, run what was queued, test
`quit_`". A connection is its registration with the poller and the references
that keep it: the entry of the map, each queued functor that binds its
`shared_ptr`, and the pointer the user keeps; when the last goes, so does its
descriptor. The user may have called `shutdown` in a callback, and calls
`forceClose` and `startRead` (`UserOps`) from any thread, also on a connection
that has been closed; a channel that is registered behind its removal makes the
connection's stage "again". Entries of the map have names, cut off as
`newConnection`'s `buf[64]` cuts them off. The destructor is the
sequence of the code and of the members' destruction: a functor for every
connection, quit and join for every thread, the acceptor. It runs on the base
loop's thread behind `loop()`, as in the example. An io loop's
`removeConnection` may come at any moment of it.

**Logger** has the one shared level, and the macros of several threads as the
steps: store the level, print the label of the stored level, print the rest.

`TcpConnectionMC` and `BuffMC` add a symmetry and a set of strings for TLC;
`*Proofs` extend the module they prove about.

## 3. What is checked

Properties, beyond one type invariant for each module:

| Property | Says |
|---|---|
| `EventLoop!NoLostWakeup` | a loop asleep with functors pending has a wakeup on its way; `EarlyTasks`, queued before `loop()`, are the exception the code has |
| `EventLoop!QuitIsSeen`, `QuitStops` | the same of `quit_`; and the loop does stop |
| `EventLoop!ImplementsTaskQueue` | at most once, in order, none after the end, across the swap |
| `EventLoop!FunctorsRun`, `AllFunctorsRun` | every functor runs unless the loop ends, without timeout; the early ones with it |
| `Epoller!Agreement` | Channel, `channels_` and kernel agree on each registered Channel |
| `Epoller!NoDanglingPointer` | a pointer in `channels_`, in the kernel or in `activeChannels_` is to a Channel that is there, but for Channels destroyed while registered (which `~Channel` asserts they are not, and section 5 shows they are); the kernel forgets those with the descriptor. With reuse of descriptors and of addresses (an address where an orphan was is excepted from then on, since the old pointer is still in `channels_`) |
| `Epoller!CtlNeverFails` | no `epoll_ctl` is rejected (the code only logs it) |
| `Epoller!NoStarvation` | a ready channel is reported in the end |
| `TcpConnection!ImplementsByteStream` | both writers together are a FIFO of whole messages |
| `TcpConnection!WatchedIffBuffered` | write interest exactly while something is buffered, until the connection is being closed by `handleClose` or the server's destructor |
| `TcpConnection!ShutdownAfterFlush`, `ShutdownCompletes` | the write end is shut down behind what is buffered, unless the connection is being closed or has been reset; and it is shut down |
| `TcpConnection!EndIsNoticed` | a peer's end is noticed by a connection that reads, although a failed `read` only fetches the error away |
| `TcpConnection!CloseCompletes` | the three hops of a close all happen, and happen again when `handleClose` is called again behind a removal; unless the base loop has stopped |
| `Buff!ImplementsByteQueue` | content is the FIFO of bytes through moves and growth |
| `Buff!Compact` | memory is bounded by what is held, not by what has passed |
| `EventLoopThread!StartedLoopExists`, `StartReturns` | `startLoop` returns, and what it returns exists |
| `EventLoopThread!ObjectOutlivesThread` | the thread's last access is before the object's end |
| `EventLoopThread!JoinReturns` | a destructor that quits a running loop returns |
| `TcpServer!RegisteredIsHeld` | what the poller of a running loop has a raw pointer to is in the map, or that loop has its `connectDestroyed` queued, or it is a channel registered anew by a `forceClose` behind `shutdown` and a close, and the base loop has its removal queued, if that loop has not been told to quit |
| `TcpServer!MapIsComplete` | `connections_` has every connection that has not been closed |
| `TcpServer!LifeInOrder`, `ClosedIsReleased` | established before destroyed, and destroyed once closed, over three queues |
| `TcpServer!ServerOutlivesItsLoops` | no loop that may call `removeConnection` on the raw `this` runs when the server is gone |
| `TcpServer!DestructorReturns` | no thread is left to wait for |
| `TcpServer!Balanced` | round robin |
| `TcpServer!SpareIsKept`, `PeersAreAnswered` | the spare descriptor comes back, and nobody waits forever for want of one, unless another thread takes it |

### Runs and their bounds

- **EventLoop**: two callers, three functors, one early. Two callers contend for
  the mutex with each other and with the loop; with three functors one can be in
  the local vector, one in the queue and one on its way. A caller quits at most
  once, so the eventfd's counter stays small without a bound of its own.
- **Epoller**: two Channel addresses, two descriptors, an event list that starts
  with one entry. Two of each are what reuse needs (old and new owner of the
  same descriptor, old and new descriptor of the same address); one entry and
  two channels make the list overflow and grow (0.5 million states).
- **TcpConnection_safety**: another thread, two messages of two bytes, room for
  two bytes in the send buffer, high-water mark 3, one call of each of the
  counted kinds: direct, partial and buffered writes, the mark crossed, and each
  call before, between and behind the others (3.9 million states).
- **TcpConnection_live**: one message and a one-byte send buffer, under fairness
  (0.4 million states).
- **Buff**: two buffers, one byte of reserve and one of room, strings of up to
  two of two bytes, extrabuf of two: a write fits, needs a move, or needs
  growth; a read fits, spills, or is split between the room and extrabuf. (That
  a read is limited by both together is in the model and in the proofs; strings
  of three bytes, which the run would need, take too long.)
- **EventLoopThread**: an owner, two functors, one queued by the init callback.
- **TcpServer**: a pool of none, one or two threads, two peers, descriptors for
  the spare and one more, one other thread's descriptor, one hangup, and two
  uses of the user's: keep a pointer (with or without `shutdown`) and call
  `forceClose`, or keep two. That is what a connection takes to be registered
  behind its removal and removed again. The second peer finds no descriptor, or
  the one that the first has released; both loops of the pool get one. One digit
  is room enough to tell two connections apart.
- **TcpConnection_send_lost**, **EventLoopThread_quit_lost**,
  **TcpServer_teardown**, **TcpServer_reregistered** and **Logger** show the
  findings of section 5.

Bounds that no code has: each functor or message is handed over once; a Buff
holds at most `MaxContent`; `MaxCalls` counts `forceClose`, `startRead`,
`stopRead`; a caller of EventLoop quits once; `startLoop` is called once, as the
pool does; the user of TcpServer keeps pointers and calls `MaxUses` times.

### Fairness

The threads of a program are scheduled and user code returns: weak fairness of
the loop thread's steps and of a call that has begun. Nobody is obliged to call,
to send, to close or to destroy. `epoll_wait` is fair only when the eventfd is
readable: neither the 10-second timeout nor another descriptor helps a property,
except `AllFunctorsRun`, which says that it needs the timeout. In Epoller, the
kernel reports as many of the ready channels as fit, and nothing is assumed of
which. Strong fairness of `FunctorsDone` says that a loop does not
run functors forever. In TcpConnection the io loop runs, and the base loop
until it is stopped, and a peer that has not
reset the connection reads what it was sent, else no shutdown could complete;
who reads again and again has read all input in the end, since a peer that has
closed sends no more (strong fairness of the read that empties the socket).
In TcpServer a turn of the base loop calls `Acceptor::handleRead` at most once
and ends, and the next poll reports the listening socket again: strong fairness
of the loops and of the acceptor against each other. `LOG_ERROR` before the test
of `errno` may change it; such a call is a stutter, and the fairness says that
it does not do so forever. That a sleeping loop is woken is EventLoop's
`NoLostWakeup`.

## 4. What is proved

For every set of threads, functors, channels, finite set of descriptors, and
every size, with the assumptions named in the modules and no other:

- **TaskQueueProofs** and **ByteStreamProofs** say what the two abstract
  specifications promise, so that implementing them means something. In
  TaskQueue no functor runs twice, and of those queued only the oldest may run
  next, and none behind the stop (a functor is in one place only: not handed
  over, queued once, or run once). In ByteStream, for messages of any lengths
  whose bytes can be told apart (`AllDiffer`, which TcpConnection's bytes
  satisfy), no byte goes out twice, the bytes of a message follow each other
  from the first with nothing in between, and nothing goes out behind a break
  (what has gone out and what is queued are one flow of whole messages, wherever
  it is cut).
- **EventLoopProofs**: `TypeCorrect`, `WakeupNotLost`, `QuitNotLost`,
  `Refinement`, and through it `RunOnce` and `OldestFirst`, TaskQueue's
  promises. `NoLostWakeup` is not inductive, since it speaks of `epoll_wait`
  only. `WakeInv` says it of every point between the swap and the next poll; it
  needs `CallingInv`: `callingPendingFunctors_` is true exactly while functors
  run, which is why a functor that queues another wakes its own loop. `LocalInv`
  (the local vector is empty elsewhere) makes the swap a stutter of the abstract
  queue.
- **EpollerProofs**: `TypeCorrect`, `ViewsAgree`, `PointersLive`, `CtlSucceeds`,
  all of them with updates and removals behind a removal and with Channels
  destroyed while registered. The four invariants hold only together, with: an
  open descriptor belongs to one Channel (`OwnDescriptor`; that is why the
  kernel cannot find an orphan's entry under a new descriptor), a Channel that
  is not registered has a new index (`IdleIsNew`: else the update behind a
  removal would be a MOD that fails), and no Channel is active outside the loop
  over `activeChannels_` (`ActiveInv`: a removal is always a functor).
- **BuffProofs**: `TypeCorrect`, `StaysCompact`, `Refinement`. A lemma for each
  member function says what becomes of the content; `makeSpace` is split at the
  code's own condition. The inductive invariant is well-formedness with the
  bound on the size: the vector grows only when the room on both sides would not
  do, and then the content leaves the bound intact.
- **EventLoopThreadProofs**: `TypeCorrect`, `StartedLoop`, `ObjectOutlives`,
  `OwnerIsHeard`. The invariant ties `loop_` to the thread being in `loop()`,
  and a loop that has returned to `quit_`. The lemma `IsALoop` says that the
  loop on the thread's stack behaves as an EventLoop whose one caller is the
  owner; with it, what EventLoopProofs has of every loop holds of this one: its
  type, which `TypeCorrect` states with the thread's, and, as `OwnerIsHeard`,
  that neither a functor of the owner's nor the destructor's `quit()` leaves it
  asleep.
- **TcpConnectionProofs**: `TypeCorrect`, `Watched`, `Flushed`, `Refinement`,
  and through it ByteStream's promises, `SentOnce`, `SentWhole` and
  `SilentBehindShutdown`. `WatchedIffBuffered` is not inductive alone.
  `CloseInv` adds that whatever still has to be done in the middle of a close
  belongs to one (a user callback that is called from `handleClose` or
  `connectDestroyed` has `closed` set), and that a socket error comes of a
  reset, so that a write that fails on it finds nobody to write to. `BatchInv`
  says that the local vector is empty when the loop swaps. The refinement maps
  ByteStream's messages not taken yet to `Waiting`: those nobody has sent, those
  in a call of `send`, and those in a queued `sendInLoop`. `PlacesInv` says that
  a message is in one of these places only, and once; its proof first says how
  each step moves the line of functors (`Moves`: nothing, one more at the end,
  the first one gone), and then what that does to one message. Of the constants
  it needs the named assumptions; `IdleIsNoFunctor` only says that the mark for
  "no call" is not itself a functor.
- **TcpServerProofs**: `TypeCorrect`, `RegisteredHeld`, `MapComplete`,
  `InOrder`, `ServerOutlives`, `TurnsAreFair`, `SpareKept`. The invariant comes
  in layers, each using those before it:
  - `TypeInv`: the types, with the acceptor's queue. `nextConnId_` stays within
    its bound because no more peers wait than have come.
  - `LoopsInv`: which loops are there at each point of the destructor; joined
    threads have destroyed theirs. `ServerOutlivesItsLoops` follows.
  - `TurnsInv`: in the middle of a round the loops before `next_` have one
    connection more, the others as many as each other. `Balanced` follows.
  - `QueueInv`: each functor is in the loop it is for, a connection that has
    been made has its `connectEstablished` in that loop, once, and whatever
    destroys it stands behind. `LifeInOrder` follows.
  - `PathInv`: a connection that is to be established, or registered, is in
    `connections_`, or its own loop has a functor that takes it out of the
    poller, or it is registered anew and the base loop's queue has its removal
    (`OnPath`). `RegisteredIsHeld` follows, which counts on that removal only
    while the base loop has not been told to quit.
  - `SpareInv`: descriptors are counted. No connection comes back to life, so
    that the one the acceptor gives up is there when it wants it again.

  Two hypotheses stand in the theorems, because without them the properties are
  false. `NamesFit` (in `RegisteredHeld`, `MapComplete`, `SpareKept`): the
  numbers of connections are printed whole behind the server's name; section 5
  says what happens under a long name. It also says that a power of ten is a
  number, which the provers do not know. `"startReadInLoop" \notin UserOps` (in
  `RegisteredHeld`, `SpareKept`): the user does not call `startRead` on a
  connection that may be closed; `TcpServer_reregistered` shows why. Neither is
  needed for the order of a connection's life, the turns or the destructor.

Every invariant and every refinement of the passing runs is proved, and so is
LifeInOrder, and TLC checks on the instance of the run what the theorem says of
all. Only model-checked is liveness: its proof is about fairness, and so about
ENABLED, which TLAPS does not reason about here (`QuitStops`, `FunctorsRun`,
`AllFunctorsRun`, `NoStarvation`, `ShutdownCompletes`, `EndIsNoticed`,
`CloseCompletes`, `StartReturns`, `JoinReturns`, `PeersAreAnswered`,
`ClosedIsReleased`, `DestructorReturns`). No module declares a RECURSIVE
operator, and no proof is by induction over data: what a Buff does is stated by
index instead.

## 5. Findings

Each is a run that ends in a violation of what a comment, an assertion or the
example says.

- `TcpConnection_send_lost`: `send` before another thread's `shutdown` may never
  be written: the state is set at once, and `handleWrite` shuts down before the
  queued `sendInLoop` runs.
- `EventLoopThread_quit_lost`: a destructor right behind `startLoop` sets `quit_`,
  `loop()` resets it, `join()` hangs. The header says that `startLoop` returns
  when the thread has begun to poll; it has not.
- `TcpServer_teardown`: the destructor queues `connectDestroyed` to an io loop and
  then quits it; a loop at the end of its turn returns without running it, and
  `~Channel` finds its channel still registered, which it asserts not to be. The
  connection was open, and its end is told to nobody.
- `TcpServer_reregistered`: `startRead` does not look at `state_`. Behind
  `connectDestroyed` its functor registers the removed channel once more, and
  nothing takes it out again: the poller's raw pointer outlives the connection,
  which `~Channel` asserts it does not. (`forceClose`, which does look, registers
  it too when the connection is still `kDisconnecting`, but queues a removal to
  the base loop, which brings a second `connectDestroyed`: `RegisteredIsHeld`
  holds of it as long as the base loop runs.)
- `Logger`: the macros store the level in the one Logger and read it back; in
  between another thread may have stored its own, and a line carries the wrong
  level.

Noticed while modelling, without a run, because no interleaving is needed or
nothing in the repository says otherwise:

- The example tells a new connection from a broken one by `connected()`
  (muduo_test.cc:28-48), but `handleClose` leaves `state_` as it is, so a peer's
  close is reported as a new connection (tcpConnection.cc:339); and
  `connectDestroyed` tells nobody when the state is `kDisconnecting`.
- `send` of another thread binds the caller's pointer and copies nothing
  (tcpConnection.cc:90), against tcpConnection.h:53; and `send(Buff*)` does not
  empty the buffer then.
- A server whose name has 61 characters or more leaves no room for a
  connection's number in `buf[64]` (tcpServer.cc:65): all connections get one
  name, and each new one drops the one before from `connections_`, which cuts it
  off while it is open. `MapIsComplete` fails with NameRoom = 0. Shorter names
  leave 61 minus their length digits, which is a bound on the connections.
- `shutdown`, `startRead`, `stopRead` and `send` bind the raw `this`: the user
  must keep its pointer until they have run. TcpServer has a user who calls
  `startRead` and drops the pointer; the functor is then not run, since what it
  would do is undefined.
- A `forceClose` on a connection that is `kDisconnecting` and has been removed
  registers it anew and queues its removal to the base loop. If that loop has
  been told to quit, nothing takes the channel out again: `RegisteredIsHeld`
  excepts this, and `TcpServer_teardown` and `TcpServer_reregistered` show the
  same end on other ways.
- A connection whose last reference is in the base loop's queue is destroyed
  behind its io loop, which `~Channel` asks for its thread (channel.cc:30).
- `quit` sets `quit_` before it wakes the loop, so that the loop may be gone when
  it writes to its eventfd (eventLoop.cc:111).
- A loop quit at once by its own init callback's functors sets `loop_` back to
  null before `startLoop` looks, which then waits forever (`StartReturns`
  excepts it).
- `IgnoreSigPipe` is declared and never instantiated; the models take SIGPIPE to
  be ignored by the host program.

## 6. Plan

In this order. What comes first is what the rest is built on.

1. *Done*: TaskQueue, EventLoop; Epoller; ByteStream, TcpConnection; ByteQueue,
   Buff; EventLoopThread; the proofs of section 4.
2. *Done*: Acceptor and TcpServer with the pool; Logger; in TcpServer the
   references that keep a connection, the user's pointers, and the names.
3. *Done*: the proofs about TcpServer and TcpConnection.
4. *Done*: what the abstract specifications promise, and by the refinements the
   same of EventLoop and TcpConnection.
5. Left for later: a server destroyed while its base loop runs, whose queued
   `removeConnectionInLoop` then has a dead `this`.

## 7. What is not modelled

- Time: the poll's timeout is a step that may be taken, `Timestamp` is left out.
- Addresses, formatting, `getTcpInfo`, and what `Socket` does to a descriptor's
  options: no other step reads them. `bind` and `listen` that fail end the
  program. This is why Socket stays partly modelled.
- `EventLoop`'s creation (`eventfd` and `epoll_create` failing ends the program)
  and its destructor.
- Errors of `eventfd` reads and writes, which are only logged; running out of
  memory; signals other than EINTR in `epoll_wait`.
- Data races as such: an unsynchronised pointer or flag is read and written in
  one piece, in any order of the threads' steps.
- Code that reads only: `findCRLF`, `findEOL`, `hasChannel`, `getLoopForHash`,
  `getAllLoops`, the accessors.

# A TLA+ verification project for mymuduo

mymuduo (`src/mymuduo/`) is a multi-threaded TCP network library after muduo:
one event loop per thread, epoll behind it, and a server that spreads
connections over a pool of loops. This directory holds TLA+ modules that model
it, TLC configurations that check them on small instances, and TLAPS proofs of
the properties that matter most. `PROJECT.json` maps every definition to the
lines it models and lists runs, mutants, findings, hazards and theorems.

## 1. Inventory

| component | state | operations | what is hard |
|---|---|---|---|
| **EventLoop** | `m_pendingFunctors` (under `m_mutex`), `m_quit`, `m_callingPendingFunctors`, the eventfd `m_wakeUpFd`, `m_activeChannels` | `loop`, `quit`, `runInLoop`, `queueInLoop`, `wakeUp`, `handRead`, `doPendingFunctors` | other threads push and wake while the loop swaps, drains the eventfd and polls: lost wake-ups, order across swaps |
| **EventLoopThread**, Thread | `m_loop` (under `m_mutex` and `m_cond`), a semaphore, the `std::thread` | `startLoop`, `threadFunc`, destructor; `start`, `join` | the loop lives on the thread's stack: publication, quit and destruction race |
| **TimerQueue**, Timer | `timers_`, `activeTimers_`, `cancelingTimers_`, the timerfd, heap-allocated Timers | `addTimer`, `cancel`, `handleRead`, `getExpired`, `reset`, `insert`, destructor | callbacks that cancel and add timers, addresses that are reused, a timerfd on the monotonic clock that must be armed for timers of the wall clock |
| **Channel, EpollPoller** | `m_index`, `m_events`, `m_channel_map`, the kernel's epoll set, the event list | `enable…`, `disable…`, `remove`, `updateChannel`, `removeChannel`, `poll` | three records of one fact must agree while descriptors are reused; an error of `epoll_ctl` ends the process |
| **TcpServer, TcpConnection** | `m_state`, the channel, reference counts, `m_connections` | `start`, accept, `connectEstablished`, `send`, `shutdown`, `handleRead`, `handleClose`, `removeConnection`, `connectDestroyed`, `~TcpServer` | a connection passes through two loops and any number of user threads; raw and shared pointers mix |
| **EventLoopThreadPool** | the loops, `m_next` | `start`, `getNextLoop` | the wrap of `m_next` and the balance of the loops; loops are stopped one by one while functors are queued |
| **Acceptor, Socket** | the listening socket and its channel | `listen`, `handleRead` | accept at the descriptor limit |
| **Kfifo** | a ring with free-running 32-bit counters and a mutex | `initBuffer`, `freeBuffer`, `resetBuffer`, `writeBuffer`, `readBuffer`, `readFd`, `writeFd` | wraps of positions and counters, a full ring, the mutex |
| **Buffer** | a vector, a reader and a writer index | `append`, `makeSpace`, `retrieve…`, `readFd`, `writeFd` | moves and enlargements after any history |
| Timestamp | a number | `now`, `<`, `addTime`, formatting | the wall clock may be set (the clock of `TimerQueue`) |
| Logger, CurrentThread, InetAddress, SocketOps | none that matters here | formatting, wrappers of system calls | – (not modelled) |

How they interact. A loop calls the handlers of its active channels, then the
functors queued to it. Everything a thread wants of another thread's loop goes
through `runInLoop`/`queueInLoop` and the eventfd: the server hands an accepted
connection to an i/o loop (`connectEstablished`), that loop hands a closed one
back to the base loop (`removeConnectionInLoop`), and the base loop hands it to
the i/o loop again (`connectDestroyed`). `addTimer`, `cancel`, `send` and
`shutdown` use the same path when called from other threads. `EventLoopThread`
creates and ends the loops; `~TcpServer` destroys connections and then, through
the thread pool, the loops.

What makes each component correct: no wake-up is lost and functors run in order
(EventLoop); a published loop exists, starting and destroying return
(EventLoopThread); the two timer sets agree, each Timer has one owner, due
timers fire and cancelled ones are not restarted (TimerQueue); index, map and
kernel agree (EpollPoller); no polled channel dangles, each connection is
reported up and down once, and is freed, waiting connections are accepted, a
shutdown takes effect and loops are balanced (TcpServer); the buffers are FIFOs.

## 2. Modules

| module | models | uses |
|---|---|---|
| `TaskQueue` | the abstract promise of a loop: a FIFO of tasks, each run once, until it closes | – |
| `EventLoop`, `EventLoopProofs` | EventLoop.cpp; theorems | refines `TaskQueue` |
| `EventLoopThread`, `EventLoopThreadProofs` | EventLoopThread.cpp and Thread.cpp, composed with the loop; theorems | extends `EventLoop` |
| `TimerQueue`, `TimerQueueProofs` | TimerQueue.cpp, Timer.h, the clock of Timestamp.h; theorems | the loop's queue as a sequence |
| `EpollPoller`, `EpollPollerProofs` | Channel.h, EpollPoller.cpp, the kernel's epoll set; theorems | – |
| `TcpServer`, `MCTcpServer`, `TcpServerProofs` | TcpServer.cpp, TcpConnection.cpp, Acceptor.cpp, Socket.cpp, EventLoopThreadPool.cpp, the events of Channel.cpp; theorems | the loops' skeleton |
| `BoundedFifo` | the abstract promise of a byte buffer | – |
| `Kfifo`, `KfifoProofs` | kfifo.cpp; theorems | refines `BoundedFifo` |
| `Buffer`, `BufferProofs` | Buffer.h, Buffer.cpp; theorems | refines `BoundedFifo` |
| `SharedLemmas` | lemmas on queues, parts of sequences and least numbers, for all proofs | TLAPS |

**EventLoop.** One action per access to shared state, so that threads
interleave at each of them: `queueInLoop` is the push under the mutex
(`QueueInLoop`) and the decision to wake (`WakeIfNeeded`), `quit` is the store
(`Quit`) and the wake-up (`QuitWakeUp`); the loop thread goes through
`EnterLoop`, `CheckQuit`, `PollReady`/`PollTimeout`, `HandRead`/`HandleEvent`,
`BeginPendingFunctors`, `SwapFunctors`, `RunFunctor`, `EndPendingFunctors`.
Callbacks are user code: while one runs (`handler`, `functor`), and before
`loop()` is called, the loop thread itself may queue and quit. `queued`, `ran`,
`inlined` and `early` are history variables. Each functor is submitted once,
which bounds the model and lets properties name it.

**EventLoopThread.** The owner's and the started thread's program counters, and
`m_loop` as a flag; the actions of `EventLoop` are taken between construction and
the return of `loop()`. The owner and other threads use the loop only between
`startLoop` and the destructor, as the thread pool does. Callbacks may
quit the loop themselves.

**TimerQueue.** The heap is a function from addresses to Timers, so that an
address can be reused and a stale pointer noticed. `HandleRead` is the part of
`handleRead` up to the callbacks, `RunCallback`/`EndCallback` one callback, in
which timers may be added and cancelled, `Reset` the rest. Calls of other
threads are a queued functor each; `addTimer` there has a second step, the read
of the sequence number (`ReturnTimerId`). Expirations are times of the wall
clock, `wall`, which saturates at `MaxTime` and may be set forward and back
(`SetClock`); the timerfd has its own clock and `armed` counts the ticks it has
left, 0 being `Readable`. `skew` sums up how far the wall clock was set forward.
`Destroy` is `~TimerQueue` after the loop has returned, with functors still
queued.

**EpollPoller.** `registered` and `interest` are the kernel's set; each
`epoll_ctl` operator sets `failed` where the kernel would return an error.
`Close` comes after `remove`, at any time, also while handlers of other channels
run. Neither `Channel` nor `EpollPoller` enforces this; it is the duty of the
owners, and each of them does it. Whether an owner can go while its own channel is
polled or about to be called is a question about the owners, which `TcpServer`
answers (`PolledConnectionsLive`). A `DEL` that fails is only logged by the code,
while `failed` counts it like the others: the model is the stricter one there.

**TcpServer.** Shared pointers are not counted but derived: `Alive(c)` says that
`m_connections`, a queued or swapped functor, or a user thread refers to `c`.
Functors of `send` and `shutdown` do not count: they hold a raw `this`. A call by
a user thread has two steps, the check of `m_state` (`BeginCall`) and the rest
(`FinishCall`). Each loop is poll – events – functors; the loop's queue itself is
the business of `EventLoop`. `KeepPointers` says that user threads keep a
connection while a call of theirs is queued; `RingUsed` that some data goes
through the ring. `Start` chooses the number of i/o loops (`setThreadNum`): with
none, everything runs in the base loop and `runInLoop` calls directly what it
would queue otherwise. It is one step: the acceptor listens only after every
`startLoop` has returned, and what goes on inside that call is the subject of
`EventLoopThread`. `accept` needs one of `MaxFds` descriptors, which
`~Socket` gives back when the last pointer to a connection goes; without one it
fails (`AcceptFails`), and the connection stays in the backlog, which epoll
reports again. A thread that calls `Kfifo::writeBuffer` or `readBuffer` locks a
`std::mutex` twice and, with glibc, blocks: such a loop is `hung`. Nothing behind
that call can be reached, so `enableWriting` and `handleWrite` are absent.

**Kfifo, Buffer.** The memory, the indices and the arithmetic on them, with the
counters modulo `2^Width`. What a second lock of the mutex does is undefined;
`Kfifo` allows both outcomes, the thread blocks or goes on, so that the ring's
arithmetic is checked too. `last` records what a call took from or gave to its
caller or the socket, for the comparison with `BoundedFifo`; `writeFd` sends the
oldest bytes and leaves them in place. `overrun` notes a write behind the memory:
`readFd` may leave more unread bytes than the ring has room for, `getRemainLen`
(kfifo.cpp:80) then underflows, and the second `memcpy` of the next `writeBuffer`
(kfifo.cpp:102) is longer than the whole buffer. The model ends there, since what
the program does afterwards is anybody's guess.

## 3. Runs

Passing runs (distinct states):

| run | shows |
|---|---|
| `EventLoop` (186 000) | `NoLostWakeup`, `FifoOrder` with two workers, three functors, one i/o channel and an eventfd that is full at 2; `QueuedRuns` and `QuitStops`: the eventfd alone gets functors run and the loop stopped, the 10 s poll time-out is not needed; `ImplementsTaskQueue` |
| `ThreadLife` (8 300) | `PublishedLoopLives`, `NoOrphanThread`, `StartLoopReturns`, `DestructorReturnsFromRunningLoop`, with callbacks that may quit the loop |
| `TimerQueue` (261 000) | `SameTimers`, `OneOwner`, `ArmedForEarliest`, `CancelledNotRestarted`, `OnlyOwnIdStops`, `ActiveTimerFires` with two timers at two addresses, one setting of the wall clock, and destruction at any idle moment |
| `PollerSafety` (102 000) | `TypeOK`, `IndexTellsEpoll`, `MapTellsIndex`, `NoEpollFailure`, `ListBounded` with three channels on two descriptors |
| `ServerLife` (79 000) | `TypeOK` (`m_next` is an index of the pool), `PolledConnectionsLive`, `CallbacksOnce`, `ClosedConnectionFreed`, `WaitingConnectionAccepted`, `ShutdownTakesEffect`: two connections that compete for one descriptor, two user threads that shut down, message callbacks that send and shut down, the peers, one or two loops, `~TcpServer` |
| `ServerStop` (4 150 000) | `DownUnlessDropped`, `LoopsBalanced` and `SilentOnceDown`, with two connections in up to two i/o loops that are stopped one after the other, and a user thread that sends |
| `KfifoRing` (87 000) | `FifoSteps`: the ring is a `BoundedFifo` as long as `readFd` finds room and `writeFd` does not reach the end; `WritesInside`: only a `readFd` that does not fit leads to a write behind the memory; `LeastPowerOfTwo` |
| `BufferFifo` (15 800) | `ImplementsFifo`: the vector buffer is a FIFO; `SizeBounded`; `TypeOK`, the order of the indices |

Runs in which TLC finds that a comment says what the code does not do:

| run | the code |
|---|---|
| `ThreadJoinHangs` | `quit()` between publication and `loop()` is overwritten by `m_quit = false`; the destructor joins for ever |
| `TimerIdRace` | `addTimer` reads the Timer after handing it to another thread that may have deleted it |
| `ServerRawThis` | functors of `send`/`shutdown` may run on a destroyed connection (`KeepPointers = FALSE`) |
| `ServerRingHangs` | a send the kernel does not take at once hangs the loop in `Kfifo::writeBuffer` |

The exceptions that some passing properties name are behaviours of the code too:
`startLoop` waits for ever if a callback quits the loop before it looks
(`StartLoopReturns`); `connectDestroyed` is dropped by a loop that has taken its
last batch when it is told to quit, and does not report a connection that is
being shut down (`DownUnlessDropped`); `readFd` overwrites unread bytes when it
gets more than is free before the end of the ring, after which a `writeBuffer` may
write behind the memory of the ring (`WritesInside`), and `writeFd` sends what lies
behind the ring when its bytes wrap (`FifoSteps`); a `shutdown` that races
`handleClose` makes a closed connection `kDisconnecting`, and a send is written to it
again (`SilentOnceDown`); setting the wall clock forward
delays timers by as much (`ArmedForEarliest`); timers whose `addTimerInLoop` was
still queued are leaked by `~TimerQueue` (`OneOwner`). A timer of the
batch that is being called back is called even if an earlier callback of the
batch cancels it: `CancelledNotRestarted` only says that it does not come back.
In `EventLoopThread`, `DestructorWakeUp` can follow `ExitThread`: `quit()` then uses
a loop that its own store to `m_quit` allowed to end.

Each property of a passing run has a mutant: a definition that breaks the code
in a plausible way (a dropped wake-up, a missing `remove`, an index not wrapped),
under which TLC finds the property violated.

**Bounds and why they are enough.** Two workers and the loop thread are all the
roles that races over the queue have; three functors give a batch, a functor
queued by it and one queued meanwhile; `EventfdMax = 2` reaches the full counter.
Two timers at two addresses make a batch of two, and reuse an address while its
old id is still held; `MaxTime = 3` has room for a due time before, at and
after the one that a setting of the clock (`MaxSteps = 1`) jumps to, and a queue
of one still puts another thread's add or cancel before, between and after every
step of the loop.
Three channels on two descriptors reuse a descriptor, and an event list of
initial size 1 is doubled as often as it can be. In `TcpServer` each hazard is about one connection
and the actors around it. In `ServerLife` two user threads
that shut down race each other, the message callbacks, the peers, the base loop
and `~TcpServer`; the second connection and `MaxFds = 1` make an accept fail and
succeed later. `ServerStop` has two connections in two loops, for the order in
which loops are stopped, and sends of a user thread that come at any time;
there no loop hangs in the ring (`RingUsed = FALSE`), which would only keep the
server from stopping. Its two connections find a descriptor each, so that no
accept fails there and none follows the wrap of `m_next` in a pool of two:
`LoadsBalanced` proves `LoopsBalanced` for these cases as well.
`MaxQueue` stops only user threads from adding to a queue. Counters of 3 bits
with buffers up to 4 wrap after a few calls; byte values 0 and 1 tell positions
apart because all sequences are tried. Deadlock is not checked where the system
may stop (a loop that has quit, a server that is gone, a thread that blocks, a
bound on what may be created).

**Fairness.** The threads run (weak fairness of their steps), a thread inside a
library call finishes it, and user callbacks end after finitely many calls
(strong fairness of their last step). `epoll_wait` returns when the eventfd is
readable; only `EventLoopThread` relies on the poll time-out, which functors
queued before `loop()` need.
`TimerQueue` assumes that the clock advances and that a loop gets round to its
queue and to a readable timerfd. `TcpServer` assumes that level-triggered epoll
reports an end of file as long as it is asked for and a backlog as long as it is
not empty, and that user threads finish calls and release connections. Nothing is assumed of peers or of when
calls are made.

## 4. Proofs

All theorems hold for every value of the constants that satisfies the named
assumptions of the modules. These say what the bounds and the sets are, and
four things that the proofs need and the code has: the loops of the pool are
different from each other and from the base loop (`ServerAssumption`); there
are finitely many descriptors (`EpollAssumption`); a ring's size asked for is at
most half the range of the counters and the counters have at least 3 bits
(`KfifoAssumption`; the code has 32). With 1 bit `RoundUp(0)` has no value, with
2 a ring may be as large as the range of the counters, and then a full ring
looks empty: `LeastPowerOfTwo` and `FifoSteps` are only true because the counters
can tell `bufferSize` from 0.

Every safety invariant, every action property and both refinements that the
passing runs check are theorems:

| module | theorems |
|---|---|
| `EventLoopProofs` | `WakeupNotLost`, `QueueIsFifo`, `LoopImplementsTaskQueue` |
| `EventLoopThreadProofs` | `ThreadRunsEventLoop`, `ThreadLoopIsFifo`, `ThreadWakeupNotLost`, `LoopPointerNeverDangles`, `NoThreadOutlivesOwner` |
| `TimerQueueProofs` | `ListsAgree`, `TimersHaveOneOwner`, `CancelIsFinal`, `StaleIdsStopNothing`, `TimerfdArmedInTime` |
| `EpollPollerProofs` | `PollerTypesCorrect`, `EpollNeverFails`, `IndexIsKernelState`, `MapIsIndex`, `EventListBounded` |
| `TcpServerProofs` | `ServerTypesCorrect`, `PolledNeverDangles`, `CalledBackOnce`, `DownWhenGone`, `NothingSentOnceDown`, `LoadsBalanced` |
| `KfifoProofs` | `SizeIsLeastPower`, `RingIsFifo`, `RingWritesInside` |
| `BufferProofs` | `BufferTypesCorrect`, `VectorBounded`, `BufferIsFifo` |

`EventLoopProofs`:

- The lemma `TypeCorrect`, on which the others rest: `TypeOK` is inductive.
- `WakeupNotLost`: `Spec => []NoLostWakeup`. `NoLostWakeup` speaks of two points of
  the loop only and is not inductive. `WakeInv` adds: `calling` is true exactly
  between the entry and the end of `doPendingFunctors` (`CallingInv`); where the
  loop thread can be inside a call (`CallerInv`); that pending functors are
  announced not only at poll but at every point from which the loop reaches poll
  without a swap (`PollInv`, `BatchInv`) – the argument of the algorithm:
  whoever pushes after the swap either is another thread, which always writes the
  eventfd, or is a functor, which sees `calling`; and `handRead`, which empties
  the eventfd, always comes before the swap that takes what it announced.
- `QueueIsFifo`: `Spec => []FifoOrder`, inductive with the types (`FifoInv`).
- `LoopImplementsTaskQueue`: every behaviour of the loop is one of `TaskQueue!Spec`
  under the mapping `todo <- functors \o pending`, `done <- ran`,
  `open <- pc # "stopped"`; a push, a functor start and the stop are steps of the
  queue, everything else, the swap included, stutters.

`EventLoopThreadProofs`. `ThreadRunsEventLoop` says that the composition adds no
behaviour to the loop: `ThreadSpec => Spec`. So what holds of a loop holds of the
loop in its thread (`ThreadLoopIsFifo`, `ThreadWakeupNotLost`). For the handshake
over `m_loop`, `HandshakeInv` relates the owner's place to the child's: `m_loop` is
set exactly while the loop is published and not left (`LoopPointer`), without
`startLoop` there is no thread (`NotStarted`), and `startLoop` returns only after
the publication (`OwnerSawLoop`). `NoOrphanThread` is not inductive alone: the
destructor does not join when it finds `m_loop` null, and only the other parts
tell that null then means a thread that was never started or has left its loop.

`TimerQueueProofs`. `TimerInv` is: the types, `SameTimers`, a Timer exists exactly
while the functor queue, the list or the expired batch has its address
(`LiveIffOwned`), these are disjoint and no two queued functors add the same
address (`OwnersDisjoint`), sequence numbers have been given out
(`NumberedInOrder`), there is a batch only while callbacks run
(`BatchWhileCalling`), and a timer of the batch that was cancelled is in
`cancelingTimers_` (`CancelRemembered`). `OneOwner` counts owners and follows from
`LiveIffOwned` and `OwnersDisjoint`; `CancelledNotRestarted` needs `NumberedInOrder`, since a new
Timer at an old address must differ from the cancelled one by its number.
`TimerfdArmedInTime` follows the two clocks step by step, with `SkewBounded`, and
needs that a non-empty list has an earliest timer. `StaleIdsStopNothing` is about
steps: `CancelInLoop` takes out what has both its address and its number, and
`Reset` leaves out what `cancelingTimers_` names, which are only ids that were
cancelled while the batch was called back (`BatchCancelNoted`).

`EpollPollerProofs`. `EpollNeverFails`, `IndexIsKernelState` and `MapIsIndex` come
from the inductive `PollerInv`: types (`PollerTypes`),
a channel whose `m_index` is not `kNew` is live (`KnownLive`), live
channels have different descriptors (`LiveFdsDiffer`), an entry for a descriptor
is one of a channel with that descriptor (`OwnFd`), and the three statements
themselves, none of which is inductive alone: that ADD does not fail needs
the kernel to know no channel of that descriptor, which only `KnownLive` and
`LiveFdsDiffer` together give. `EventListBounded` adds a count: the channels that
one `epoll_wait` reports have different descriptors (`ReportedFew`), so a list that
was filled had no more entries than there are descriptors.

`TcpServerProofs`. None of the server's properties is inductive, because what
happens to a connection next lies in the functors queued for it. `ServerInv`
says, for each connection, that its functors are queued where they belong
(`FunctorsAtHome`), which of them are still to come in each state (`NotYetUp`,
`PolledIsUp`, `Untouched`, `StateSaysUp`), and of the loops that a connection's
`connectEstablished` precedes its `connectDestroyed` in the queue
(`FunctorsOrdered`), that reported events are those of channels still registered
(`ActiveIsFresh`), that a loop shares what its batch refers to (`BatchShared`), that
user threads hold connections that were up (`WorkersHoldUp`), and how far the
server has come (`ServerPhases`). `PolledNeverDangles` then reads: an added channel
has a connection that is in `m_connections` or has a `connectDestroyed` waiting,
either of which keeps it alive. `LoadsBalanced` has an invariant of its own,
`RoundRobin`: the loops before `m_next` were given one connection more than the
others, which `m_next` and its wrap preserve. `NothingSentOnceDown` adds that a
connection that waits for `connectEstablished` was not reported down
(`ConnectingNotDown`): so `m_state` of one that was is `kDisconnected`
(`DownState`), where `sendInLoop` gives up, and no other step queues its
callbacks (`SilentStep`).

`BufferProofs`. `BufferInv` is the order of the indices, the bound on the content
and `SizeBounded`. `CopyBytes`, `CopyFollows` and `EnlargeKeeps` say what the copies
inside the vector do to the readable part; `AppendIsConcatenation` and
`ReceiveIsConcatenation` put them together, so that every step maps to a step of
`BoundedFifo` (`BufferIsFifo`).

`KfifoProofs`. `RingInv` is the types, `LeastPowerOfTwo`, and that a size is a power
of two smaller than `2^Width`. The arithmetic is the substance: the shifts of
`RoundUp` count binary digits (`ShiftsCountDigits`, `RoundUpIsLeast`), a size that
is a power of two divides the range of the counters (`AllocatedDivides`), so a
counter that wraps keeps its position (`SamePlace`), the difference of the wrapped
counters is the number of unread bytes (`AdvanceWrite`, `AdvanceRead`), and two
`memcpy`s are a walk round the ring (`LoadIs`, `StoreIs`) that does not meet an unread
byte (`TakeBehind`, with `ModDiffers`). `RingIsFifo` is then one lemma per operation.
`RingWritesInside` needs in addition that what `writeBuffer` takes fits into what
is free (`TakeStaysIntact`).

Two devices get round what the provers lack. There is no induction over
numbers: `LeastNumber` in `SharedLemmas` gives the least element of a non-empty
set of naturals, taken from the library's well-founded order of finite sets, and
replaces induction by a least counterexample (for the earliest timer and for the
digits of a number).
Nor do they know powers: `2^i` is the number of subsets of `1..i`, and `PowerSum`
proves `2^(i+j) = 2^i * 2^j` by a bijection between subsets and pairs of them.

Only model-checked: all liveness (`QueuedRuns`, `QuitStops`, `StartLoopReturns`,
`DestructorReturnsFromRunningLoop`, `ActiveTimerFires`, `ClosedConnectionFreed`,
`WaitingConnectionAccepted`, `ShutdownTakesEffect`), since the prover has neither
fairness nor `ENABLED`.

## 5. Not modelled

The logger, addresses, socket options and time formatting have no state that
another part reads; `SocketOps` has no caller. The programs in `tmuduo/` are
examples: what their callbacks do is nondeterministic here.

- `TcpConnection::handleWrite` and the end of `sendInLoop` (`enableWriting`). Both
  lie behind `Kfifo::writeBuffer`, whose second lock of the mutex blocks the
  thread (`ServerRingHangs`); a model of them would be of code that no execution
  of this build reaches. The high-water callback is queued before that point and
  is in the model. `Kfifo!WriteFd` and `FifoSteps` say what `handleWrite` would
  send: the same bytes again, since nobody moves `read`.
- The payload of `send`, whose cross-thread functor keeps a pointer into the
  caller's string.
- Connection callbacks that send or shut down. Message callbacks do, and functors of
  user threads; the connection callbacks are only counted.
- Signals. A `write()` after `shutdownWrite` raises SIGPIPE; the model takes the
  application to ignore it, as the test for EPIPE in `sendInLoop` does.
- Sequence numbers of timers that wrap after 2^32 timers, and ring sizes above
  2^31, which no caller asks for.
- Errors after which the process ends (`LOG_FATAL`), except those of `epoll_ctl`,
  which `NoEpollFailure` excludes.

`PROJECT.json` lists the hazards among these with the reason.

## 6. Plan

Done, in this order: the loop with its abstract queue and proofs, the thread
that runs it, timers, the poller with its proofs, the server, the buffers; then
failing accepts, `TcpServer::start` with the balance of the pool, the second clock
and destruction of the timer queue, and what the buffers send.

After that, proofs of every safety property and refinement that the passing runs check.

Left: facts that the liveness properties rest on and that are safety properties
themselves, so that they can be proved (what a waiting connection, a queued
functor or a listed timer still has in front of it); and that the functors that
`TcpServer` queues to a loop find the promises of `TaskQueue`, which links the
server to `EventLoop` by a refinement instead of by its skeleton.

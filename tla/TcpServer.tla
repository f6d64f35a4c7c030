----------------------------- MODULE TcpServer -----------------------------
(***************************************************************************)
(* The life of the connections of a TcpServer (src/mymuduo/TcpServer.cpp,  *)
(* TcpConnection.cpp, with Channel.cpp and EpollPoller.cpp): accepted in   *)
(* the base loop, established in an i/o loop, closed there, removed from   *)
(* m_connections in the base loop, and destroyed in the i/o loop again.    *)
(*                                                                         *)
(* A TcpConnection lives as long as some shared_ptr refers to it: the one  *)
(* in m_connections, the ones bound into queued or running functors, and   *)
(* the ones user code keeps.  The poller and its list of active channels   *)
(* hold raw pointers; so do the functors of send and shutdown.             *)
(*                                                                         *)
(* Each loop is the sequential skeleton of EventLoop::loop (poll, events,  *)
(* functors); its queue and wake-up are verified in module EventLoop.      *)
(***************************************************************************)
EXTENDS Naturals, Sequences, FiniteSets, Functions

CONSTANTS
  Conns,          \* connections, each accepted at most once
  Base,           \* the base loop
  Pool,           \* i/o loops that the thread pool may start, in order
  Workers,        \* user threads that keep connections and call send, shutdown
  WorkerOps,      \* which of "send" and "shutdown" they call
  KeepPointers,   \* they keep a connection while a call of theirs is queued
  RingUsed,       \* some data goes through Kfifo::writeBuffer or readBuffer
  MaxFds,         \* descriptors that the process has left for connections
  MaxQueue        \* bound on a loop's queue when a worker adds to it

ASSUME ServerAssumption ==
  /\ Pool \in Seq(Range(Pool)) /\ IsInjective(Pool)
  /\ Base \notin Range(Pool)
  /\ WorkerOps \subseteq {"send", "shutdown"}
  /\ {KeepPointers, RingUsed} \subseteq BOOLEAN
  /\ {MaxFds, MaxQueue} \subseteq Nat

Loops == {Base} \cup Range(Pool)

VARIABLES
  state,          \* m_state of each connection, "none" before it is accepted
  loopOf,         \* m_eventLoop of each connection
  index,          \* m_index of its channel: kNew, kAdded, kDeleted
  events,         \* m_events of its channel
  connections,    \* m_connections
  threads,        \* how many i/o loops the pool has started (setThreadNum)
  next,           \* m_next of the thread pool
  queue,          \* m_pendingFunctors of each loop
  batch,          \* functors swapped out and not run yet
  refs,           \* connections that the swapped-out functors share
  phase,          \* where each loop is in EventLoop::loop
  active,         \* m_activeChannels not handled yet, with their event
  peerClosed,     \* connections whose peer has closed
  writeShut,      \* connections on which shutdownWrite was called
  ups, downs,     \* history: connection callbacks, connected and disconnected
  call,           \* the call that a worker is inside, after its state check
  held,           \* connections that a worker keeps a shared_ptr to
  quit,           \* i/o loops told to quit
  server          \* "new", "up" after start, "closing" in ~TcpServer, "gone"

connVars == <<state, loopOf, index, events, peerClosed, writeShut, ups, downs>>
loopVars == <<queue, batch, refs, phase, active>>
serverVars == <<connections, threads, next, quit, server>>
workerVars == <<call, held>>
vars == <<connVars, loopVars, serverVars, workerVars>>

States == {"none", "kConnecting", "kConnected", "kDisconnecting", "kDisconnected"}
\* m_eventloops: the i/o loops that the pool has started.
IoLoops == {Pool[i] : i \in 1..threads}

Indices == {"kNew", "kAdded", "kDeleted"}
Ops == {"establish", "remove", "destroy", "complete", "highwater", "send", "shutdown"}
Functor == [op : Ops, conn : Conns]
NoCall == [op |-> "none"]
Kinds == {"message", "close", "hangup"}
Events == [kind : Kinds \cup {"accept"}, conn : Conns]

TypeOK ==
  /\ state \in [Conns -> States]
  /\ loopOf \in [Conns -> Loops]
  /\ index \in [Conns -> Indices]
  /\ events \in [Conns -> SUBSET {"read"}]
  /\ connections \subseteq Conns
  /\ threads \in 0..Len(Pool)
  /\ next \in Nat /\ (next = 0 \/ next < threads)
  /\ queue \in [Loops -> Seq(Functor)]
  /\ batch \in [Loops -> Seq(Functor)]
  /\ refs \in [Loops -> SUBSET Conns]
  /\ phase \in [Loops -> {"poll", "events", "functors", "hung", "stopped"}]
  /\ active \in [Loops -> SUBSET Events]
  /\ peerClosed \subseteq Conns
  /\ writeShut \subseteq Conns
  /\ ups \in [Conns -> Nat]
  /\ downs \in [Conns -> Nat]
  /\ call \in [Workers -> Functor \cup {NoCall}]
  /\ held \in [Workers -> SUBSET Conns]
  /\ quit \subseteq Range(Pool)
  /\ server \in {"new", "up", "closing", "gone"}

Init ==
  /\ state = [c \in Conns |-> "none"]
  /\ loopOf = [c \in Conns |-> Base]
  /\ index = [c \in Conns |-> "kNew"]
  /\ events = [c \in Conns |-> {}]
  /\ connections = {}
  /\ threads = 0
  /\ next = 0
  /\ queue = [l \in Loops |-> << >>]
  /\ batch = [l \in Loops |-> << >>]
  /\ refs = [l \in Loops |-> {}]
  /\ phase = [l \in Loops |-> "poll"]
  /\ active = [l \in Loops |-> {}]
  /\ peerClosed = {}
  /\ writeShut = {}
  /\ ups = [c \in Conns |-> 0]
  /\ downs = [c \in Conns |-> 0]
  /\ call = [w \in Workers |-> NoCall]
  /\ held = [w \in Workers |-> {}]
  /\ quit = {}
  /\ server = "new"

-----------------------------------------------------------------------------
(* Functors and lifetime.                                                  *)

Bind(op, c) == [op |-> op, conn |-> c]

\* Functors bound to a shared_ptr; those of send and shutdown bind a raw this.
Shares(f) == f.op \notin {"send", "shutdown"}

SharedBy(s) == {f.conn : f \in {g \in Range(s) : Shares(g)}}

\* The functors of loop l exist: an i/o loop dies with its thread.
QueueExists(l) == l = Base \/ phase[l] # "stopped"

\* Some shared_ptr refers to c.
Alive(c) ==
  \/ c \in connections
  \/ \E l \in Loops : c \in refs[l] \/ (QueueExists(l) /\ c \in SharedBy(queue[l]))
  \/ \E w \in Workers : c \in held[w]

\* Descriptors of connections: ~Socket closes one with its connection.
OpenFds == {c \in Conns : Alive(c)}

Push(l, f) == queue' = [queue EXCEPT ![l] = Append(@, f)]

-----------------------------------------------------------------------------
(* Channel and EpollPoller.                                                *)

\* EpollPoller::updateChannel: the index after an update with interest ev.
UpdatedIndex(i, ev) == IF i = "kAdded" /\ ev = {} THEN "kDeleted" ELSE "kAdded"

\* enableReading and disableAll set the interest and update the poller.
SetEvents(c, ev) ==
  /\ events' = [events EXCEPT ![c] = ev]
  /\ index' = [index EXCEPT ![c] = UpdatedIndex(@, ev)]

\* What epoll_wait may report for c: readable data, end of file, a hang-up when
\* reading is not asked for.  Writing is never asked for: see SendInLoop.
ReadyEvents(c) ==
  IF index[c] # "kAdded" THEN {}
  ELSE {[kind |-> k, conn |-> c] : k \in
         {j \in Kinds :
            \/ j = "message" /\ "read" \in events[c]
            \/ j = "close" /\ "read" \in events[c] /\ c \in peerClosed
            \/ j = "hangup" /\ "read" \notin events[c] /\ c \in peerClosed \cap writeShut}}

\* The listening socket, registered with the base loop, has a connection to accept.
AcceptEvents(l) ==
  {[kind |-> "accept", conn |-> c] :
     c \in {d \in Conns : l = Base /\ server = "up" /\ state[d] = "none"}}

\* Everything that epoll_wait may report to loop l.
Reportable(l) ==
  AcceptEvents(l) \cup UNION {ReadyEvents(c) : c \in {d \in Conns : loopOf[d] = l}}

-----------------------------------------------------------------------------
(* TcpConnection.                                                          *)

\* connectEstablished; the callback may hand the connection to user threads.
ConnectEstablished(c) ==
  /\ state' = [state EXCEPT ![c] = "kConnected"]
  /\ SetEvents(c, {"read"})
  /\ ups' = [ups EXCEPT ![c] = @ + 1]
  /\ \E W \in SUBSET Workers :
       held' = [w \in Workers |-> IF w \in W THEN held[w] \cup {c} ELSE held[w]]

\* A connectDestroyed that calls back whatever the state of the connection.
AlwaysCallsBack(c) ==
  /\ state' = [state EXCEPT ![c] = "kDisconnected"]
  /\ events' = [events EXCEPT ![c] = {}]
  /\ downs' = [downs EXCEPT ![c] = @ + 1]
  /\ index' = [index EXCEPT ![c] = "kNew"]

\* A connectDestroyed that leaves the channel with the poller.
DestroyedKeepsChannel(c) ==
  IF state[c] = "kConnected"
    THEN /\ state' = [state EXCEPT ![c] = "kDisconnected"]
         /\ SetEvents(c, {})
         /\ downs' = [downs EXCEPT ![c] = @ + 1]
    ELSE UNCHANGED <<state, events, index, downs>>

\* connectDestroyed: disableAll and the callback if still connected; remove.
ConnectDestroyed(c) ==
  /\ IF state[c] = "kConnected"
       THEN /\ state' = [state EXCEPT ![c] = "kDisconnected"]
            /\ events' = [events EXCEPT ![c] = {}]
            /\ downs' = [downs EXCEPT ![c] = @ + 1]
       ELSE UNCHANGED <<state, events, downs>>
  /\ index' = [index EXCEPT ![c] = "kNew"]

\* Kfifo::writeBuffer and readBuffer hold the mutex when getRemainLen and
\* getReadableLen lock it again: the thread that calls them never goes on.
BlockOnRing(l) ==
  /\ RingUsed
  /\ phase' = [phase EXCEPT ![l] = "hung"]

\* A sendInLoop that trusts the check of send.
SendUnchecked(c) ==
  \/ UNCHANGED <<queue, phase>>
  \/ /\ c \notin writeShut
     /\ \/ Push(loopOf[c], Bind("complete", c)) /\ UNCHANGED phase
        \/ /\ UNCHANGED queue \/ Push(loopOf[c], Bind("highwater", c))
           /\ BlockOnRing(loopOf[c])

\* sendInLoop.  Once kDisconnected it gives up.  Else write() takes everything, and
\* a write-complete callback (if one is set) is queued; or it fails for good, as
\* after shutdownWrite; or something is left, and the thread, having queued the
\* high-water callback if that much is left, blocks in writeBuffer before it can
\* ask for EPOLLOUT: isWriting() is always false.
SendInLoop(c) ==
  \/ UNCHANGED <<queue, phase>>
  \/ /\ state[c] # "kDisconnected"
     /\ c \notin writeShut
     /\ \/ Push(loopOf[c], Bind("complete", c)) /\ UNCHANGED phase
        \/ /\ UNCHANGED queue \/ Push(loopOf[c], Bind("highwater", c))
           /\ BlockOnRing(loopOf[c])

\* shutdownInLoop; isWriting() is false.
ShutdownInLoop(c) == writeShut' = writeShut \cup {c}

\* A removeConnectionInLoop that does not erase the connection.
RemoveKeepsConnection(c) ==
  /\ Push(loopOf[c], Bind("destroy", c))
  /\ UNCHANGED connections

\* TcpServer::removeConnectionInLoop.
RemoveConnectionInLoop(c) ==
  /\ connections' = connections \ {c}
  /\ Push(loopOf[c], Bind("destroy", c))

\* A handleClose that does not call m_closeCallback.
CloseWithoutCallback(c) ==
  /\ state' = [state EXCEPT ![c] = "kDisconnected"]
  /\ SetEvents(c, {})
  /\ downs' = [downs EXCEPT ![c] = @ + 1]
  /\ UNCHANGED <<connections, queue>>

\* handleClose, with TcpServer::removeConnection as m_closeCallback: runInLoop
\* removes the connection at once in the base loop.
HandleClose(c) ==
  /\ state' = [state EXCEPT ![c] = "kDisconnected"]
  /\ SetEvents(c, {})
  /\ downs' = [downs EXCEPT ![c] = @ + 1]
  /\ IF loopOf[c] = Base
       THEN RemoveConnectionInLoop(c)
       ELSE Push(Base, Bind("remove", c)) /\ UNCHANGED connections

\* handleError only logs.
HandleError == UNCHANGED <<state, writeShut, queue, phase>>

\* handleRead with data or an error.  m_messageCallback may do nothing, read from
\* the ring, send or shut down.
HandleMessage(c) ==
  \/ HandleError
  \/ BlockOnRing(loopOf[c]) /\ UNCHANGED <<state, writeShut, queue>>
  \/ /\ state[c] = "kConnected"
     /\ SendInLoop(c)
     /\ UNCHANGED <<state, writeShut>>
  \/ /\ state[c] = "kConnected"
     /\ state' = [state EXCEPT ![c] = "kDisconnecting"]
     /\ ShutdownInLoop(c)
     /\ UNCHANGED <<queue, phase>>

-----------------------------------------------------------------------------
(* The loops.                                                              *)

\* epoll_wait returns: events, or a wake-up for queued functors or quit.
Poll(l) ==
  /\ phase[l] = "poll"
  /\ \E S \in SUBSET Reportable(l) :
       /\ \A e, d \in S : e # d => e.conn # d.conn /\ "accept" \notin {e.kind} \cap {d.kind}
       /\ S # {} \/ queue[l] # << >> \/ l \in quit
       /\ active' = [active EXCEPT ![l] = S]
  /\ phase' = [phase EXCEPT ![l] = "events"]
  /\ UNCHANGED <<connVars, queue, batch, refs, serverVars, workerVars>>

\* Channel::handleEvent, guarded by the tie, calls the handler for the event.
HandleEvent(l, e) ==
  LET c == e.conn
  IN  /\ phase[l] = "events"
      /\ e \in active[l]
      /\ active' = [active EXCEPT ![l] = @ \ {e}]
      /\ \/ /\ e.kind = "message"
            /\ HandleMessage(c)
            /\ UNCHANGED <<index, events, downs, connections>>
         \/ /\ e.kind \in {"close", "hangup"}
            /\ HandleClose(c)
            /\ UNCHANGED <<writeShut, phase>>
      /\ UNCHANGED <<loopOf, peerClosed, ups, batch, refs, threads, next, quit, server,
                     workerVars>>

\* A getNextLoop that does not wrap m_next, and one that does not move it.
NextUnwrapped == next + 1
NextStuck == next

\* EventLoopThreadPool::getNextLoop.
NextLoop == IF threads = 0 THEN Base ELSE Pool[next + 1]
NextIndex == IF next + 1 < threads THEN next + 1 ELSE 0

\* Acceptor::handleRead calls accept, with c first in the backlog.
Accept(c) ==
  LET e == [kind |-> "accept", conn |-> c]
  IN  /\ phase[Base] = "events"
      /\ e \in active[Base]
      /\ active' = [active EXCEPT ![Base] = @ \ {e}]

\* accept fails with EMFILE, which is only logged: c stays in the backlog.
AcceptFails(c) ==
  /\ Accept(c)
  /\ Cardinality(OpenFds) >= MaxFds
  /\ UNCHANGED <<connVars, queue, batch, refs, phase, serverVars, workerVars>>

\* accept returns a descriptor; TcpServer::newConnection, in the base loop.
NewConnection(c) ==
  /\ Accept(c)
  /\ Cardinality(OpenFds) < MaxFds
  /\ loopOf' = [loopOf EXCEPT ![c] = NextLoop]
  /\ next' = NextIndex
  /\ connections' = connections \cup {c}
  /\ IF NextLoop = Base
       THEN ConnectEstablished(c) /\ UNCHANGED queue
       ELSE /\ state' = [state EXCEPT ![c] = "kConnecting"]
            /\ Push(NextLoop, Bind("establish", c))
            /\ UNCHANGED <<index, events, ups, held>>
  /\ UNCHANGED <<peerClosed, writeShut, downs, batch, refs, phase, threads, quit, server,
                 call>>

\* doPendingFunctors: swap.
Swap(l) ==
  /\ phase[l] = "events"
  /\ active[l] = {}
  /\ phase' = [phase EXCEPT ![l] = "functors"]
  /\ batch' = [batch EXCEPT ![l] = queue[l]]
  /\ refs' = [refs EXCEPT ![l] = SharedBy(queue[l])]
  /\ queue' = [queue EXCEPT ![l] = << >>]
  /\ UNCHANGED <<connVars, active, serverVars, workerVars>>

RunFunctor(l) ==
  LET f == Head(batch[l])
      c == f.conn
  IN  /\ phase[l] = "functors"
      /\ batch[l] # << >>
      /\ batch' = [batch EXCEPT ![l] = Tail(@)]
      /\ \/ /\ f.op = "establish"
            /\ ConnectEstablished(c)
            /\ UNCHANGED <<downs, writeShut, connections, queue, phase>>
         \/ /\ f.op = "remove"
            /\ RemoveConnectionInLoop(c)
            /\ UNCHANGED <<state, index, events, ups, downs, writeShut, phase, held>>
         \/ /\ f.op = "destroy"
            /\ ConnectDestroyed(c)
            /\ UNCHANGED <<ups, writeShut, connections, queue, phase, held>>
         \/ /\ f.op = "complete"
            /\ UNCHANGED <<state, index, events, ups, downs, writeShut, connections, queue,
                           phase, held>>
         \/ /\ f.op = "send"
            /\ SendInLoop(c)
            /\ UNCHANGED <<state, index, events, ups, downs, writeShut, connections, held>>
         \/ /\ f.op = "shutdown"
            /\ ShutdownInLoop(c)
            /\ UNCHANGED <<state, index, events, ups, downs, connections, queue, phase,
                           held>>
      /\ UNCHANGED <<loopOf, peerClosed, refs, active, threads, next, quit, server, call>>

\* doPendingFunctors returns, which destroys the swapped vector; while (!m_quit).
EndBatch(l) ==
  /\ phase[l] = "functors"
  /\ batch[l] = << >>
  /\ refs' = [refs EXCEPT ![l] = {}]
  /\ phase' = [phase EXCEPT ![l] = IF l \in quit THEN "stopped" ELSE "poll"]
  /\ UNCHANGED <<connVars, queue, batch, active, serverVars, workerVars>>

-----------------------------------------------------------------------------
(* Peers and user threads.                                                 *)

PeerClose(c) ==
  /\ state[c] # "none"
  /\ peerClosed' = peerClosed \cup {c}
  /\ UNCHANGED <<state, loopOf, index, events, writeShut, ups, downs, loopVars,
                 serverVars, workerVars>>

\* send or shutdown called by worker w: the check of m_state.
BeginCall(w, op, c) ==
  /\ call[w] = NoCall
  /\ c \in held[w]
  /\ op \in WorkerOps
  /\ state[c] = "kConnected"
  /\ call' = [call EXCEPT ![w] = Bind(op, c)]
  /\ UNCHANGED <<connVars, loopVars, serverVars, held>>

\* A shutdown that sets the state and queues nothing.
ShutdownUnqueued(w) ==
  LET c == call[w].conn
  IN  /\ call[w] # NoCall
      /\ state' = IF call[w].op = "shutdown"
                    THEN [state EXCEPT ![c] = "kDisconnecting"] ELSE state
      /\ call' = [call EXCEPT ![w] = NoCall]
      /\ UNCHANGED <<loopOf, index, events, peerClosed, writeShut, ups, downs, loopVars,
                     serverVars, held>>

\* The rest of it: shutdown sets kDisconnecting; both queue a functor bound to
\* the raw this, in a loop that is not the worker's.
FinishCall(w) ==
  LET c == call[w].conn
  IN  /\ call[w] # NoCall
      /\ Len(queue[loopOf[c]]) < MaxQueue
      /\ state' = IF call[w].op = "shutdown"
                    THEN [state EXCEPT ![c] = "kDisconnecting"] ELSE state
      /\ Push(loopOf[c], call[w])
      /\ call' = [call EXCEPT ![w] = NoCall]
      /\ UNCHANGED <<loopOf, index, events, peerClosed, writeShut, ups, downs,
                     batch, refs, phase, active, serverVars, held>>

\* A call for c is queued or about to run.
CallQueued(c) ==
  \E l \in Loops : \E f \in Range(queue[l]) \cup Range(batch[l]) :
    f.conn = c /\ ~ Shares(f)

\* Worker w drops its shared_ptr.
Release(w, c) ==
  /\ c \in held[w]
  /\ call[w] = NoCall
  /\ KeepPointers => ~ CallQueued(c)
  /\ held' = [held EXCEPT ![w] = @ \ {c}]
  /\ UNCHANGED <<connVars, loopVars, serverVars, call>>

-----------------------------------------------------------------------------
(* The server: started and destroyed by the base loop's thread.            *)

\* TcpServer::start, after setThreadNum(n); a second call does nothing.  The pool
\* starts its loops (module EventLoopThread), then the acceptor listens.
Start(n) ==
  /\ server = "new"
  /\ server' = "up"
  /\ threads' = n
  /\ UNCHANGED <<connVars, loopVars, connections, next, quit, workerVars>>

\* ~TcpServer, after loop() has returned.
BeginDestructor ==
  /\ server \in {"new", "up"}
  /\ phase[Base] = "poll"
  /\ server' = "closing"
  /\ phase' = [phase EXCEPT ![Base] = "stopped"]
  /\ UNCHANGED <<connVars, queue, batch, refs, active, connections, threads, next, quit,
                 workerVars>>

\* A destructor that only lets go of its connections.
DestroyUnqueued(c) ==
  /\ server = "closing"
  /\ c \in connections
  /\ connections' = connections \ {c}
  /\ UNCHANGED <<connVars, loopVars, threads, next, quit, server, workerVars>>

\* The body: connectDestroyed is run in the loop of each connection.
DestroyConnection(c) ==
  /\ server = "closing"
  /\ c \in connections
  /\ connections' = connections \ {c}
  /\ IF loopOf[c] = Base
       THEN ConnectDestroyed(c) /\ UNCHANGED queue
       ELSE /\ Push(loopOf[c], Bind("destroy", c))
            /\ UNCHANGED <<state, index, events, downs>>
  /\ UNCHANGED <<loopOf, peerClosed, writeShut, ups, batch, refs, phase, active,
                 threads, next, quit, server, workerVars>>

\* The thread pool is destroyed: each i/o loop is told to quit and joined.
QuitLoop(l) ==
  /\ server = "closing"
  /\ connections = {}
  /\ l \in IoLoops \ quit
  /\ \A k \in quit : phase[k] = "stopped"
  /\ quit' = quit \cup {l}
  /\ UNCHANGED <<connVars, loopVars, connections, threads, next, server, workerVars>>

EndDestructor ==
  /\ server = "closing"
  /\ connections = {}
  /\ \A l \in IoLoops : phase[l] = "stopped"
  /\ server' = "gone"
  /\ UNCHANGED <<connVars, loopVars, connections, threads, next, quit, workerVars>>

-----------------------------------------------------------------------------
LoopStep(l) ==
  \/ Poll(l) \/ (\E e \in active[l] : HandleEvent(l, e))
  \/ Swap(l) \/ RunFunctor(l) \/ EndBatch(l)

HandleAccept == \E c \in Conns : NewConnection(c) \/ AcceptFails(c)

WorkerStep(w) ==
  \/ \E c \in Conns, op \in WorkerOps : BeginCall(w, op, c)
  \/ FinishCall(w)
  \/ \E c \in Conns : Release(w, c)

ServerStep ==
  \/ (\E n \in 0..Len(Pool) : Start(n))
  \/ BeginDestructor \/ (\E c \in Conns : DestroyConnection(c))
  \/ (\E l \in IoLoops : QuitLoop(l)) \/ EndDestructor

Next ==
  \/ \E c \in Conns : PeerClose(c)
  \/ HandleAccept
  \/ \E l \in Loops : LoopStep(l)
  \/ \E w \in Workers : WorkerStep(w)
  \/ ServerStep

Spec == Init /\ [][Next]_vars

(***************************************************************************)
(* Fairness: every loop keeps running, and epoll, which is level-          *)
(* triggered, reports an end of file that it is asked for and a backlog    *)
(* that is not empty; user threads finish their calls and let go of        *)
(* connections.                                                            *)
(***************************************************************************)
PollReports(l) ==
  /\ Poll(l)
  /\ \A e \in Reportable(l) : e.kind = "close" => e \in active'[l]
  /\ AcceptEvents(l) # {} => AcceptEvents(l) \cap active'[l] # {}

Fairness ==
  /\ WF_vars(HandleAccept)
  /\ \A l \in Loops :
       /\ SF_vars(PollReports(l))
       /\ WF_vars(\E e \in active[l] : HandleEvent(l, e))
       /\ WF_vars(Swap(l)) /\ WF_vars(RunFunctor(l)) /\ WF_vars(EndBatch(l))
  /\ \A w \in Workers :
       /\ WF_vars(FinishCall(w))
       /\ \A c \in Conns : SF_vars(Release(w, c))

FairSpec == Spec /\ Fairness

-----------------------------------------------------------------------------
(* Properties.                                                             *)

(***************************************************************************)
(* The raw pointers of the poller never dangle: a channel registered with  *)
(* epoll, or reported by it and not handled yet, belongs to a connection   *)
(* that is still referenced (Channel::handleEvent dereferences it before   *)
(* the tie is locked).                                                     *)
(***************************************************************************)
PolledConnectionsLive ==
  \A c \in Conns :
    LET l == loopOf[c]
        reported == \E k \in Kinds : [kind |-> k, conn |-> c] \in active[l]
    IN  phase[l] # "stopped" /\ (index[c] = "kAdded" \/ reported) => Alive(c)

(***************************************************************************)
(* The connection callback reports "connected" at most once and then       *)
(* "disconnected" at most once, whichever of handleClose, connectDestroyed *)
(* and ~TcpServer comes first.                                             *)
(***************************************************************************)
CallbacksOnce == \A c \in Conns : downs[c] <= ups[c] /\ ups[c] <= 1

(***************************************************************************)
(* A connection that its peer closed is eventually reported down, as often *)
(* as it was reported up, and freed: no shared_ptr is left behind in       *)
(* m_connections or in a queue, whatever shutdown calls race the close.    *)
(* That takes loops that do not block in the ring, and a server that is    *)
(* not being destroyed.                                                    *)
(***************************************************************************)
ClosedConnectionFreed ==
  \A c \in Conns :
    c \in peerClosed ~> \/ ~ Alive(c) /\ downs[c] = ups[c]
                        \/ server # "up"
                        \/ \E l \in Loops : phase[l] = "hung"

(***************************************************************************)
(* An accept that fails at the descriptor limit is only a delay: once the  *)
(* other connections' peers have closed, a connection in the backlog is    *)
(* accepted, because closing them frees their descriptors and the backlog  *)
(* is reported again and again.                                            *)
(***************************************************************************)
WaitingConnectionAccepted ==
  \A c \in Conns :
    /\ state[c] = "none" /\ server = "up"
    /\ Conns \ {c} \subseteq peerClosed
    ~> \/ state[c] # "none"
       \/ server # "up"
       \/ \E l \in Loops : phase[l] = "hung"

(***************************************************************************)
(* A shutdown takes effect: whoever called it, and whatever close races    *)
(* it, a connection in kDisconnecting has its write side closed, so that   *)
(* the peer learns of it.                                                  *)
(***************************************************************************)
ShutdownTakesEffect ==
  \A c \in Conns :
    state[c] = "kDisconnecting" ~> \/ c \in writeShut
                                   \/ server # "up"
                                   \/ \E l \in Loops : phase[l] = "hung"

(***************************************************************************)
(* Once a connection was reported down, nothing more is written to it: a   *)
(* send whose check of kConnected came before the close gives up when its  *)
(* functor runs, and queues neither the write-complete nor the high-water  *)
(* callback, however the check, the close and the functor interleave.  The *)
(* exception is a shutdown that raced the close and made the connection    *)
(* kDisconnecting again.                                                   *)
(***************************************************************************)
SilentOnceDown ==
  [][\A c \in Conns, l \in Loops, op \in {"complete", "highwater"} :
       downs[c] > 0 /\ state[c] # "kDisconnecting"
         => queue'[l] # Append(queue[l], Bind(op, c))]_vars

(***************************************************************************)
(* getNextLoop spreads the connections evenly: whatever accepts fail and   *)
(* connections close in between, no i/o loop was given two more than       *)
(* another.                                                                *)
(***************************************************************************)
LoopsBalanced ==
  LET given(l) == Cardinality({c \in Conns : state[c] # "none" /\ loopOf[c] = l})
  IN  \A k, l \in IoLoops : given(k) <= given(l) + 1

(***************************************************************************)
(* When ~TcpServer and the thread pool's destructor are through, every     *)
(* connection reported as connected has been reported as disconnected,     *)
(* with two exceptions: its connectDestroyed was queued to a loop that had *)
(* taken its last batch when it was told to quit, and was dropped with the *)
(* loop; or shutdown had been called on it, and connectDestroyed calls     *)
(* back in kConnected only.                                                *)
(***************************************************************************)
DownUnlessDropped ==
  server = "gone" =>
    \A c \in Conns :
      \/ ups[c] = downs[c]
      \/ Bind("destroy", c) \in Range(queue[loopOf[c]])
      \/ state[c] = "kDisconnecting"

\* A functor of send or shutdown runs on a connection that still exists.
CallsFindConnection ==
  \A l \in Loops : \A f \in Range(batch[l]) : Alive(f.conn)

\* A loop that handles events or runs functors comes back to poll, or stops: a
\* send whose data the kernel does not take at once is buffered and goes on.
LoopReturnsToPoll ==
  \A l \in Loops :
    phase[l] \in {"events", "functors"} ~> phase[l] \in {"poll", "stopped"}
=============================================================================

-------------------------- MODULE TcpServerProofs --------------------------
(***************************************************************************)
(* Proofs about TcpServer for any number of connections, i/o loops,        *)
(* workers, descriptors and any queue bound.                               *)
(***************************************************************************)
EXTENDS TcpServer, SharedLemmas

-----------------------------------------------------------------------------
(* What a loop still has to run.                                           *)

\* The functors of loop l that were not started yet, in the order they will be.
Pending(l) == batch[l] \o queue[l]
Todo(l) == Range(Pending(l))

\* In p, connectEstablished of c comes once, and before any connectDestroyed of c.
EstablishFirst(p, c) ==
  \A i, j \in DOMAIN p :
    /\ p[i] = Bind("establish", c)
    /\ p[j] \in {Bind("establish", c), Bind("destroy", c)}
    => i <= j

Ordered(p) == \A c \in Conns : EstablishFirst(p, c)

\* Bound functors are told apart by their operation and their connection.
LEMMA BindFacts ==
  ASSUME NEW op \in Ops, NEW c \in Conns
  PROVE  /\ Bind(op, c) \in Functor
         /\ Bind(op, c).op = op /\ Bind(op, c).conn = c
BY DEF Bind, Functor

\* queueInLoop(f) when b is swapped out and q is pending.
LEMMA OnPush ==
  ASSUME NEW b \in Seq(Functor), NEW q \in Seq(Functor), NEW f \in Functor
  PROVE  /\ Range(b \o Append(q, f)) = Range(b \o q) \cup {f}
         /\ /\ Ordered(b \o q)
            /\ f.op = "establish" => \A g \in Range(b \o q) : g.conn # f.conn
            => Ordered(b \o Append(q, f))
<1> DEFINE p == b \o q
           r == Append(p, f)
           n == Len(p)
<1>1. p \in Seq(Functor) /\ b \o Append(q, f) = r
  BY ConcatProperties, ConcatAppend
<1> HIDE DEF p
<1>2. Range(r) = Range(p) \cup {f}
  BY <1>1, RangeOfAppend
<1>3. DOMAIN p = 1..n /\ n \in Nat
  BY <1>1, LenProperties
<1>4. DOMAIN r = 1..(n + 1)
  BY <1>1, AppendProperties, LenProperties
<1>5. (\A i \in 1..n : r[i] = p[i] /\ p[i] \in Range(p)) /\ r[n + 1] = f
  <2>1. (\A i \in 1..n : r[i] = p[i]) /\ r[n + 1] = f
    BY <1>1, <1>3, AppendProperties
  <2>2. \A i \in 1..n : p[i] \in Range(p)
    BY <1>3 DEF Range
  <2> QED
    BY <2>1, <2>2
<1>6. 1..(n + 1) = (1..n) \cup {n + 1}
  BY <1>3
<1> HIDE DEF r, n
<1>7. ASSUME Ordered(p), f.op = "establish" => \A g \in Range(p) : g.conn # f.conn,
             NEW c \in Conns
      PROVE  EstablishFirst(r, c)
  <2> SUFFICES ASSUME NEW i \in 1..(n + 1), NEW j \in 1..(n + 1),
                      r[i] = Bind("establish", c),
                      r[j] \in {Bind("establish", c), Bind("destroy", c)}
               PROVE  i <= j
    BY <1>4 DEF EstablishFirst
  <2>1. CASE j = n + 1
    BY <1>3, <2>1
  <2>2. CASE i \in 1..n /\ j \in 1..n
    BY <1>3, <1>5, <1>7, <2>2 DEF Ordered, EstablishFirst
  <2>3. CASE i = n + 1 /\ j \in 1..n
    <3>1. f.op = "establish" /\ f.conn = c
      BY <1>5, <2>3 DEF Bind
    <3>2. r[j].conn = c /\ r[j] \in Range(p)
      BY <1>5, <2>3 DEF Bind
    <3>3. QED
      BY <1>7, <3>1, <3>2
  <2>4. QED
    BY <1>6, <2>1, <2>2, <2>3
<1>8. QED
  BY <1>1, <1>2, <1>7 DEF Ordered, p

\* doPendingFunctors starts the next functor of b while q is pending.
LEMMA OnPop ==
  ASSUME NEW b \in Seq(Functor), NEW q \in Seq(Functor), b # << >>
  PROVE  /\ Head(b) \in Functor /\ Tail(b) \in Seq(Functor)
         /\ Range(b \o q) = {Head(b)} \cup Range(Tail(b) \o q)
         /\ Range(Tail(b)) \subseteq Range(b)
         /\ Ordered(b \o q) => Ordered(Tail(b) \o q)
         /\ Ordered(b \o q) => \A c \in Conns :
              /\ Head(b) = Bind("establish", c)
                   => Bind("establish", c) \notin Range(Tail(b) \o q)
              /\ Head(b) = Bind("destroy", c)
                   => Bind("establish", c) \notin Range(b \o q)
<1> DEFINE p == b \o q
           r == Tail(b) \o q
           n == Len(p)
<1>1. Head(b) \in Functor /\ Tail(b) \in Seq(Functor)
  BY HeadTailProperties
<1>2. p \in Seq(Functor) /\ p # << >> /\ Head(p) = Head(b) /\ Tail(p) = r
  BY HeadTailOfConcat, ConcatProperties
<1>3. Range(Tail(b)) \subseteq Range(b)
  BY RangeOfTail
<1> HIDE DEF p, r
<1>4. Range(p) = {Head(p)} \cup Range(Tail(p))
  BY <1>2, RangeOfTail
<1>5. DOMAIN p = 1..n /\ n \in Nat /\ n # 0
  BY <1>2, LenProperties, EmptySeq
<1>6. DOMAIN r = 1..(n - 1) /\ \A i \in 1..(n - 1) : r[i] = p[i + 1] /\ i + 1 \in 1..n
  BY <1>2, <1>5, HeadTailProperties, LenProperties
<1>7. p[1] = Head(p) /\ 1 \in 1..n
  BY <1>2, <1>5, HeadTailProperties
<1> HIDE DEF n
<1>8. ASSUME Ordered(p), NEW c \in Conns PROVE EstablishFirst(r, c)
  <2> SUFFICES ASSUME NEW i \in 1..(n - 1), NEW j \in 1..(n - 1),
                      r[i] = Bind("establish", c),
                      r[j] \in {Bind("establish", c), Bind("destroy", c)}
               PROVE  i <= j
    BY <1>6 DEF EstablishFirst
  <2>1. i + 1 <= j + 1
    BY <1>5, <1>6, <1>8 DEF Ordered, EstablishFirst
  <2>2. QED
    BY <1>5, <2>1
<1>9. ASSUME Ordered(p), NEW c \in Conns, Head(p) = Bind("establish", c)
      PROVE  Bind("establish", c) \notin Range(r)
  <2> SUFFICES ASSUME NEW i \in 1..(n - 1), r[i] = Bind("establish", c) PROVE FALSE
    BY <1>6 DEF Range
  <2>1. i + 1 <= 1
    BY <1>5, <1>6, <1>7, <1>9 DEF Ordered, EstablishFirst
  <2>2. QED
    BY <1>5, <2>1
<1>10. ASSUME Ordered(p), NEW c \in Conns, Head(p) = Bind("destroy", c)
       PROVE  Bind("establish", c) \notin Range(p)
  <2> SUFFICES ASSUME NEW i \in 1..n, p[i] = Bind("establish", c) PROVE FALSE
    BY <1>5 DEF Range
  <2>1. i <= 1
    BY <1>5, <1>7, <1>10 DEF Ordered, EstablishFirst
  <2>2. i = 1
    BY <1>5, <2>1
  <2>3. QED
    BY <1>7, <1>10, <2>2 DEF Bind
<1>11. QED
  BY <1>1, <1>2, <1>3, <1>4, <1>8, <1>9, <1>10 DEF Ordered, p, r

-----------------------------------------------------------------------------
(* The inductive invariant.                                                *)

\* A functor is queued in the loop it is meant for, for an accepted connection.
FunctorsAtHome(c) ==
  \A l \in Loops : \A op \in Ops : Bind(op, c) \in Todo(l) =>
    /\ l = IF op = "remove" THEN Base ELSE loopOf[c]
    /\ op = "establish" => l # Base
    /\ state[c] # "none"

\* m_connections or a queued connectDestroyed will bring c to its end.
WillEnd(c) == c \in connections \/ Bind("destroy", c) \in Todo(loopOf[c])

\* A connection that waits for connectEstablished was not called back yet.
NotYetUp(c) ==
  Bind("establish", c) \in Todo(loopOf[c]) => ups[c] = 0 /\ downs[c] = 0 /\ WillEnd(c)

\* A channel that epoll knows belongs to a connection that is up.
PolledIsUp(c) == index[c] = "kAdded" => ups[c] = 1 /\ downs[c] = 0 /\ WillEnd(c)

\* A connection that was never accepted has no history.
Untouched(c) ==
  state[c] = "none" => /\ ups[c] = 0 /\ downs[c] = 0
                       /\ loopOf[c] = Base
                       /\ c \notin connections

\* m_state says whether a connection is up, except after shutdown.
StateSaysUp(c) ==
  /\ state[c] = "kConnected" => ups[c] = 1 /\ downs[c] = 0
  /\ ups[c] = 1 /\ downs[c] = 0 =>
       state[c] = "kDisconnecting" \/ (state[c] = "kConnected" /\ index[c] = "kAdded")

\* What holds of each connection by itself.
ConnInv(c) ==
  /\ FunctorsAtHome(c)
  /\ NotYetUp(c)
  /\ PolledIsUp(c)
  /\ Untouched(c)
  /\ StateSaysUp(c)
  /\ downs[c] <= ups[c] /\ ups[c] <= 1

ConnsInv == \A c \in Conns : ConnInv(c)

FunctorsOrdered == \A l \in Loops : Ordered(Pending(l))

\* An event that was reported and not handled is still to be handled by its loop.
ActiveOf(l) ==
  /\ phase[l] \notin {"events", "hung"} => active[l] = {}
  /\ \A e \in active[l] :
       /\ e.kind \in Kinds => loopOf[e.conn] = l /\ index[e.conn] = "kAdded"
       /\ e.kind = "accept" => l = Base /\ state[e.conn] = "none" /\ server # "new"
       /\ \A d \in active[l] : e # d => e.conn # d.conn

ActiveIsFresh == \A l \in Loops : ActiveOf(l)

\* Only a loop inside doPendingFunctors has a batch, whose connections it shares.
BatchShared ==
  \A l \in Loops :
    /\ phase[l] \in {"poll", "events", "stopped"} => batch[l] = << >>
    /\ SharedBy(batch[l]) \subseteq refs[l]

\* User threads have connections that were up, and call on what they hold.
WorkersHoldUp ==
  \A w \in Workers :
    /\ \A c \in held[w] : ups[c] = 1
    /\ call[w] # NoCall => call[w].conn \in held[w] /\ call[w].op \in WorkerOps

\* The server's phases, and the loops that connections are given.
ServerPhases ==
  /\ server = "new" => threads = 0 /\ \A c \in Conns : state[c] = "none"
  /\ server \in {"closing", "gone"} => phase[Base] = "stopped"
  /\ server = "gone" => connections = {} /\ \A l \in IoLoops : phase[l] = "stopped"
  /\ \A c \in Conns : loopOf[c] \in {Base} \cup IoLoops

ServerInv ==
  /\ TypeOK
  /\ ConnsInv
  /\ FunctorsOrdered
  /\ ActiveIsFresh
  /\ BatchShared
  /\ WorkersHoldUp
  /\ ServerPhases

-----------------------------------------------------------------------------
(* Type correctness.                                                       *)

\* The loops of the pool are loops, and none of them is the base loop.
LEMMA PoolFacts ==
  /\ Len(Pool) \in Nat
  /\ Base \in Loops
  /\ Range(Pool) \subseteq Loops
  /\ \A i \in 1..Len(Pool) : Pool[i] \in Range(Pool) /\ Pool[i] # Base
  /\ \A i, j \in 1..Len(Pool) : Pool[i] = Pool[j] => i = j
<1>1. Pool \in Seq(Range(Pool)) /\ IsInjective(Pool) /\ Base \notin Range(Pool)
  BY ServerAssumption
<1>2. Len(Pool) \in Nat /\ DOMAIN Pool = 1..Len(Pool)
  BY <1>1, LenProperties
<1>3. QED
  BY <1>1, <1>2 DEF Loops, Range, IsInjective

\* getNextLoop returns a started loop, and m_next stays in range.
LEMMA NextLoopFacts ==
  ASSUME TypeOK
  PROVE  /\ NextLoop \in {Base} \cup IoLoops /\ NextLoop \in Loops
         /\ threads # 0 => NextLoop \in IoLoops /\ NextLoop # Base
         /\ NextIndex \in Nat /\ (NextIndex = 0 \/ NextIndex < threads)
         /\ IoLoops \subseteq Range(Pool)
<1>1. threads \in 0..Len(Pool) /\ next \in Nat /\ (next = 0 \/ next < threads)
  BY DEF TypeOK
<1>2. threads # 0 => next + 1 \in 1..threads /\ next + 1 \in 1..Len(Pool)
  BY <1>1, PoolFacts
<1>3. IoLoops \subseteq Range(Pool)
  BY <1>1, PoolFacts DEF IoLoops
<1>4. threads # 0 => NextLoop \in IoLoops /\ NextLoop # Base
  BY <1>2, PoolFacts DEF NextLoop, IoLoops
<1>5. threads = 0 => NextLoop = Base
  BY DEF NextLoop
<1>6. NextIndex \in Nat /\ (NextIndex = 0 \/ NextIndex < threads)
  BY <1>1, PoolFacts DEF NextIndex
<1>7. QED
  BY <1>3, <1>4, <1>5, <1>6, PoolFacts

\* queueInLoop keeps the queues typed.
LEMMA PushTypes ==
  ASSUME TypeOK, NEW l \in Loops, NEW f \in Functor, Push(l, f)
  PROVE  queue' \in [Loops -> Seq(Functor)]
<1>1. Append(queue[l], f) \in Seq(Functor)
  BY AppendProperties DEF TypeOK
<1>2. QED
  BY <1>1 DEF TypeOK, Push

\* The operations of a connection keep the types of what they change.
LEMMA ConnOpTypes ==
  ASSUME TypeOK, NEW c \in Conns
  PROVE  /\ ConnectEstablished(c) =>
              /\ state' \in [Conns -> States] /\ index' \in [Conns -> Indices]
              /\ events' \in [Conns -> SUBSET {"read"}] /\ ups' \in [Conns -> Nat]
              /\ held' \in [Workers -> SUBSET Conns]
         /\ ConnectDestroyed(c) =>
              /\ state' \in [Conns -> States] /\ index' \in [Conns -> Indices]
              /\ events' \in [Conns -> SUBSET {"read"}] /\ downs' \in [Conns -> Nat]
         /\ SendInLoop(c) =>
              /\ queue' \in [Loops -> Seq(Functor)]
              /\ phase' \in [Loops -> {"poll", "events", "functors", "hung", "stopped"}]
         /\ RemoveConnectionInLoop(c) =>
              connections' \subseteq Conns /\ queue' \in [Loops -> Seq(Functor)]
         /\ HandleClose(c) =>
              /\ state' \in [Conns -> States] /\ index' \in [Conns -> Indices]
              /\ events' \in [Conns -> SUBSET {"read"}] /\ downs' \in [Conns -> Nat]
              /\ connections' \subseteq Conns /\ queue' \in [Loops -> Seq(Functor)]
<1>1. \A i \in Indices : \A ev : UpdatedIndex(i, ev) \in Indices
  BY DEF UpdatedIndex, Indices
<1>2. \A ev \in SUBSET {"read"} : SetEvents(c, ev) =>
        index' \in [Conns -> Indices] /\ events' \in [Conns -> SUBSET {"read"}]
  BY <1>1 DEF SetEvents, TypeOK
<1>3. ASSUME ConnectEstablished(c)
      PROVE  /\ state' \in [Conns -> States] /\ index' \in [Conns -> Indices]
             /\ events' \in [Conns -> SUBSET {"read"}] /\ ups' \in [Conns -> Nat]
             /\ held' \in [Workers -> SUBSET Conns]
  <2>1. index' \in [Conns -> Indices] /\ events' \in [Conns -> SUBSET {"read"}]
    BY <1>2, <1>3 DEF ConnectEstablished
  <2>2. state' \in [Conns -> States] /\ ups' \in [Conns -> Nat]
    BY <1>3 DEF ConnectEstablished, TypeOK, States
  <2>3. held' \in [Workers -> SUBSET Conns]
    BY <1>3 DEF ConnectEstablished, TypeOK
  <2>4. QED
    BY <2>1, <2>2, <2>3
<1>4. ASSUME ConnectDestroyed(c)
      PROVE  /\ state' \in [Conns -> States] /\ index' \in [Conns -> Indices]
             /\ events' \in [Conns -> SUBSET {"read"}] /\ downs' \in [Conns -> Nat]
  <2>1. index' \in [Conns -> Indices]
    BY <1>4 DEF ConnectDestroyed, TypeOK, Indices
  <2>2. CASE state[c] = "kConnected"
    <3>1. /\ state' = [state EXCEPT ![c] = "kDisconnected"]
          /\ events' = [events EXCEPT ![c] = {}]
          /\ downs' = [downs EXCEPT ![c] = @ + 1]
      BY <1>4, <2>2 DEF ConnectDestroyed
    <3>2. state' \in [Conns -> States]
      BY <3>1 DEF TypeOK, States
    <3>3. events' \in [Conns -> SUBSET {"read"}]
      BY <3>1 DEF TypeOK
    <3>4. downs' \in [Conns -> Nat]
      BY <3>1 DEF TypeOK
    <3>5. QED
      BY <2>1, <3>2, <3>3, <3>4
  <2>3. CASE state[c] # "kConnected"
    BY <1>4, <2>1, <2>3 DEF ConnectDestroyed, TypeOK
  <2>4. QED
    BY <2>2, <2>3
<1>5. loopOf[c] \in Loops /\ Base \in Loops
  BY PoolFacts DEF TypeOK
<1>6. \A op \in Ops : Bind(op, c) \in Functor
  BY BindFacts
<1>7. ASSUME SendInLoop(c)
      PROVE  /\ queue' \in [Loops -> Seq(Functor)]
             /\ phase' \in [Loops -> {"poll", "events", "functors", "hung", "stopped"}]
  <2>1. queue' = queue \/ \E op \in {"complete", "highwater"} : Push(loopOf[c], Bind(op, c))
    BY <1>7 DEF SendInLoop
  <2>2. phase' = phase \/ phase' = [phase EXCEPT ![loopOf[c]] = "hung"]
    BY <1>7 DEF SendInLoop, BlockOnRing
  <2>3. queue' \in [Loops -> Seq(Functor)]
    BY <1>5, <1>6, <2>1, PushTypes DEF TypeOK, Ops
  <2>4. QED
    BY <2>2, <2>3 DEF TypeOK
<1>8. ASSUME RemoveConnectionInLoop(c)
      PROVE  connections' \subseteq Conns /\ queue' \in [Loops -> Seq(Functor)]
  BY <1>5, <1>6, <1>8, PushTypes DEF RemoveConnectionInLoop, TypeOK, Ops
<1>9. ASSUME HandleClose(c)
      PROVE  /\ state' \in [Conns -> States] /\ index' \in [Conns -> Indices]
             /\ events' \in [Conns -> SUBSET {"read"}] /\ downs' \in [Conns -> Nat]
             /\ connections' \subseteq Conns /\ queue' \in [Loops -> Seq(Functor)]
  <2>1. index' \in [Conns -> Indices] /\ events' \in [Conns -> SUBSET {"read"}]
    BY <1>2, <1>9 DEF HandleClose
  <2>2. state' \in [Conns -> States] /\ downs' \in [Conns -> Nat]
    BY <1>9 DEF HandleClose, TypeOK, States
  <2>3. connections' \subseteq Conns /\ queue' \in [Loops -> Seq(Functor)]
    BY <1>5, <1>6, <1>8, <1>9, PushTypes DEF HandleClose, TypeOK, Ops
  <2>4. QED
    BY <2>1, <2>2, <2>3
<1>10. QED
  BY <1>3, <1>4, <1>7, <1>8, <1>9

\* Every step of a loop, of a user thread and of the server keeps the types.
LEMMA TypeStep == TypeOK /\ ServerPhases /\ [Next]_vars => TypeOK'
<1> SUFFICES ASSUME TypeOK, ServerPhases, [Next]_vars PROVE TypeOK'
  OBVIOUS
<1> USE DEF connVars, loopVars, serverVars, workerVars
<1>1. ASSUME NEW c \in Conns, PeerClose(c) PROVE TypeOK'
  BY <1>1 DEF PeerClose, TypeOK
<1>2. ASSUME NEW c \in Conns, NewConnection(c) PROVE TypeOK'
  <2>1. active' \in [Loops -> SUBSET Events]
    BY <1>2, PoolFacts DEF NewConnection, Accept, TypeOK
  <2>2. loopOf' \in [Conns -> Loops]
    BY <1>2, NextLoopFacts DEF NewConnection, TypeOK
  <2>3. next' \in Nat /\ (next' = 0 \/ next' < threads')
    BY <1>2, NextLoopFacts DEF NewConnection
  <2>4. CASE NextLoop = Base
    <3>1. ConnectEstablished(c) /\ queue' = queue
      BY <1>2, <2>4 DEF NewConnection
    <3>2. /\ state' \in [Conns -> States] /\ index' \in [Conns -> Indices]
          /\ events' \in [Conns -> SUBSET {"read"}] /\ ups' \in [Conns -> Nat]
          /\ held' \in [Workers -> SUBSET Conns]
      BY <3>1, ConnOpTypes
    <3>3. QED
      BY <1>2, <2>1, <2>2, <2>3, <3>1, <3>2 DEF NewConnection, TypeOK
  <2>5. CASE NextLoop # Base
    <3>1. Bind("establish", c) \in Functor
      BY BindFacts DEF Ops
    <3>2. queue' \in [Loops -> Seq(Functor)]
      BY <1>2, <2>5, <3>1, NextLoopFacts, PushTypes DEF NewConnection
    <3>3. state' \in [Conns -> States]
      BY <1>2, <2>5 DEF NewConnection, TypeOK, States
    <3>4. QED
      BY <1>2, <2>1, <2>2, <2>3, <2>5, <3>2, <3>3 DEF NewConnection, TypeOK
  <2>6. QED
    BY <2>4, <2>5
<1>3. ASSUME NEW c \in Conns, AcceptFails(c) PROVE TypeOK'
  <2>1. active' \in [Loops -> SUBSET Events]
    BY <1>3, PoolFacts DEF AcceptFails, Accept, TypeOK
  <2>2. QED
    BY <1>3, <2>1 DEF AcceptFails, TypeOK
<1>4. ASSUME NEW l \in Loops, Poll(l) PROVE TypeOK'
  <2>1. Reportable(l) \subseteq Events
    BY DEF Reportable, AcceptEvents, ReadyEvents, Events, Kinds
  <2>2. active' \in [Loops -> SUBSET Events]
    BY <1>4, <2>1 DEF Poll, TypeOK
  <2>3. phase' \in [Loops -> {"poll", "events", "functors", "hung", "stopped"}]
    BY <1>4 DEF Poll, TypeOK
  <2>4. QED
    BY <1>4, <2>2, <2>3 DEF Poll, TypeOK
<1>5. ASSUME NEW l \in Loops, NEW e \in active[l], HandleEvent(l, e) PROVE TypeOK'
  <2>1. e.conn \in Conns
    BY DEF TypeOK, Events
  <2>2. active' \in [Loops -> SUBSET Events]
    BY <1>5 DEF HandleEvent, TypeOK
  <2>3. CASE e.kind \in {"close", "hangup"}
    <3>1. HandleClose(e.conn)
      BY <1>5, <2>3 DEF HandleEvent
    <3>2. /\ state' \in [Conns -> States] /\ index' \in [Conns -> Indices]
          /\ events' \in [Conns -> SUBSET {"read"}] /\ downs' \in [Conns -> Nat]
          /\ connections' \subseteq Conns /\ queue' \in [Loops -> Seq(Functor)]
      BY <2>1, <3>1, ConnOpTypes
    <3>3. QED
      BY <1>5, <2>2, <2>3, <3>2 DEF HandleEvent, TypeOK
  <2>4. CASE e.kind = "message"
    <3>1. HandleMessage(e.conn) /\ UNCHANGED <<index, events, downs, connections>>
      BY <1>5, <2>4 DEF HandleEvent
    <3>2. /\ queue' \in [Loops -> Seq(Functor)]
          /\ phase' \in [Loops -> {"poll", "events", "functors", "hung", "stopped"}]
      BY <2>1, <3>1, ConnOpTypes DEF HandleMessage, HandleError, BlockOnRing, TypeOK
    <3>3. writeShut' \subseteq Conns
      BY <2>1, <3>1 DEF HandleMessage, HandleError, ShutdownInLoop, TypeOK
    <3>4. state' \in [Conns -> States]
      BY <2>1, <3>1 DEF HandleMessage, HandleError, TypeOK, States
    <3>5. QED
      BY <1>5, <2>2, <3>1, <3>2, <3>3, <3>4 DEF HandleEvent, TypeOK
  <2>5. QED
    BY <1>5, <2>3, <2>4 DEF HandleEvent
<1>6. ASSUME NEW l \in Loops, Swap(l) PROVE TypeOK'
  <2>1. queue[l] \in Seq(Functor) /\ << >> \in Seq(Functor)
    BY EmptySeq DEF TypeOK
  <2>2. SharedBy(queue[l]) \subseteq Conns
    <3>1. Range(queue[l]) \subseteq Functor
      BY <2>1, RangeOfSeq
    <3>2. \A f \in Functor : f.conn \in Conns
      BY DEF Functor
    <3>3. QED
      BY <3>1, <3>2 DEF SharedBy
  <2>3. /\ queue' \in [Loops -> Seq(Functor)] /\ batch' \in [Loops -> Seq(Functor)]
        /\ refs' \in [Loops -> SUBSET Conns]
        /\ phase' \in [Loops -> {"poll", "events", "functors", "hung", "stopped"}]
    BY <1>6, <2>1, <2>2 DEF Swap, TypeOK
  <2>4. QED
    BY <1>6, <2>3 DEF Swap, TypeOK
<1>7. ASSUME NEW l \in Loops, RunFunctor(l) PROVE TypeOK'
  <2> DEFINE f == Head(batch[l])
             c == f.conn
  <2>1. f \in Functor /\ Tail(batch[l]) \in Seq(Functor)
    BY <1>7, HeadTailProperties DEF RunFunctor, TypeOK
  <2>2. c \in Conns
    BY <2>1 DEF Functor
  <2>3. batch' \in [Loops -> Seq(Functor)]
    BY <1>7, <2>1 DEF RunFunctor, TypeOK
  <2>4. UNCHANGED <<loopOf, peerClosed, refs, active, threads, next, quit, server, call>>
    BY <1>7 DEF RunFunctor
  <2>5. CASE f.op = "establish"
    <3>1. ConnectEstablished(c) /\ UNCHANGED <<downs, writeShut, connections, queue, phase>>
      BY <1>7, <2>5 DEF RunFunctor
    <3>2. QED
      BY <2>2, <2>3, <2>4, <3>1, ConnOpTypes DEF TypeOK
  <2>6. CASE f.op = "remove"
    <3>1. RemoveConnectionInLoop(c)
          /\ UNCHANGED <<state, index, events, ups, downs, writeShut, phase, held>>
      BY <1>7, <2>6 DEF RunFunctor
    <3>2. QED
      BY <2>2, <2>3, <2>4, <3>1, ConnOpTypes DEF TypeOK
  <2>7. CASE f.op = "destroy"
    <3>1. ConnectDestroyed(c)
          /\ UNCHANGED <<ups, writeShut, connections, queue, phase, held>>
      BY <1>7, <2>7 DEF RunFunctor
    <3>2. QED
      BY <2>2, <2>3, <2>4, <3>1, ConnOpTypes DEF TypeOK
  <2>8. CASE f.op = "send"
    <3>1. SendInLoop(c)
          /\ UNCHANGED <<state, index, events, ups, downs, writeShut, connections, held>>
      BY <1>7, <2>8 DEF RunFunctor
    <3>2. QED
      BY <2>2, <2>3, <2>4, <3>1, ConnOpTypes DEF TypeOK
  <2>9. CASE f.op \in {"complete", "shutdown"}
    <3>1. /\ UNCHANGED <<state, index, events, ups, downs, connections, queue, phase, held>>
          /\ writeShut' \subseteq writeShut \cup {c}
      BY <1>7, <2>9 DEF RunFunctor, ShutdownInLoop
    <3>2. QED
      BY <2>2, <2>3, <2>4, <3>1 DEF TypeOK
  <2>10. QED
    BY <1>7, <2>5, <2>6, <2>7, <2>8, <2>9 DEF RunFunctor
<1>8. ASSUME NEW l \in Loops, EndBatch(l) PROVE TypeOK'
  BY <1>8 DEF EndBatch, TypeOK
<1>9. ASSUME NEW w \in Workers, WorkerStep(w) PROVE TypeOK'
  <2>1. ASSUME NEW c \in Conns, NEW op \in WorkerOps, BeginCall(w, op, c) PROVE TypeOK'
    <3>1. Bind(op, c) \in Functor
      BY ServerAssumption, BindFacts DEF Ops
    <3>2. QED
      BY <2>1, <3>1 DEF BeginCall, TypeOK
  <2>2. CASE FinishCall(w)
    <3>1. call[w] \in Functor /\ call[w].conn \in Conns
      BY <2>2 DEF FinishCall, TypeOK, Functor
    <3>2. queue' \in [Loops -> Seq(Functor)]
      BY <2>2, <3>1, PushTypes DEF FinishCall, TypeOK
    <3>3. state' \in [Conns -> States] /\ call' \in [Workers -> Functor \cup {NoCall}]
      BY <2>2, <3>1 DEF FinishCall, TypeOK, States
    <3>4. QED
      BY <2>2, <3>2, <3>3 DEF FinishCall, TypeOK
  <2>3. ASSUME NEW c \in Conns, Release(w, c) PROVE TypeOK'
    BY <2>3 DEF Release, TypeOK
  <2>4. QED
    BY <1>9, <2>1, <2>2, <2>3 DEF WorkerStep
<1>10. ASSUME NEW n \in 0..Len(Pool), Start(n) PROVE TypeOK'
  <2>1. next = 0
    BY <1>10 DEF Start, ServerPhases, TypeOK
  <2>2. QED
    BY <1>10, <2>1 DEF Start, TypeOK
<1>11. CASE BeginDestructor
  BY <1>11 DEF BeginDestructor, TypeOK
<1>12. ASSUME NEW c \in Conns, DestroyConnection(c) PROVE TypeOK'
  <2>1. CASE loopOf[c] = Base
    <3>1. ConnectDestroyed(c) /\ UNCHANGED queue
      BY <1>12, <2>1 DEF DestroyConnection
    <3>2. QED
      BY <1>12, <3>1, ConnOpTypes DEF DestroyConnection, TypeOK
  <2>2. CASE loopOf[c] # Base
    <3>1. Bind("destroy", c) \in Functor
      BY BindFacts DEF Ops
    <3>2. queue' \in [Loops -> Seq(Functor)]
      BY <1>12, <2>2, <3>1, PushTypes DEF DestroyConnection, TypeOK
    <3>3. QED
      BY <1>12, <2>2, <3>2 DEF DestroyConnection, TypeOK
  <2>3. QED
    BY <2>1, <2>2
<1>13. ASSUME NEW l \in IoLoops, QuitLoop(l) PROVE TypeOK'
  BY <1>13, NextLoopFacts DEF QuitLoop, TypeOK
<1>14. CASE EndDestructor
  BY <1>14 DEF EndDestructor, TypeOK
<1>15. CASE UNCHANGED vars
  BY <1>15 DEF vars, TypeOK
<1>16. QED
  BY <1>1, <1>2, <1>3, <1>4, <1>5, <1>6, <1>7, <1>8, <1>9, <1>10, <1>11, <1>12, <1>13,
     <1>14, <1>15 DEF Next, HandleAccept, LoopStep, ServerStep

-----------------------------------------------------------------------------
(* The queues under a step.                                                *)

\* Nothing is queued and no functor is started.
LEMMA QueuesKept ==
  ASSUME UNCHANGED <<queue, batch>>
  PROVE  /\ \A l \in Loops : Todo(l)' = Todo(l)
         /\ FunctorsOrdered => FunctorsOrdered'
BY DEF Todo, Pending, FunctorsOrdered, Ordered, EstablishFirst, Bind

\* queueInLoop adds f to what loop k has to run, and f comes last.
LEMMA PushEffect ==
  ASSUME TypeOK, NEW k \in Loops, NEW f \in Functor, Push(k, f), UNCHANGED batch
  PROVE  /\ Todo(k)' = Todo(k) \cup {f}
         /\ \A l \in Loops \ {k} : Todo(l)' = Todo(l)
         /\ /\ FunctorsOrdered
            /\ f.op = "establish" => \A g \in Todo(k) : g.conn # f.conn
            => FunctorsOrdered'
<1>1. /\ queue[k] \in Seq(Functor) /\ batch[k] \in Seq(Functor)
      /\ queue'[k] = Append(queue[k], f) /\ batch'[k] = batch[k]
      /\ \A l \in Loops \ {k} : queue'[l] = queue[l] /\ batch'[l] = batch[l]
  BY DEF TypeOK, Push
<1>2. Pending(k)' = batch[k] \o Append(queue[k], f)
  BY <1>1 DEF Pending
<1>3. \A l \in Loops \ {k} : Pending(l)' = Pending(l)
  BY <1>1 DEF Pending
<1>4. Todo(k)' = Todo(k) \cup {f}
  BY <1>1, <1>2, OnPush DEF Todo, Pending
<1>5. \A l \in Loops \ {k} : Todo(l)' = Todo(l)
  BY <1>3 DEF Todo
<1>6. ASSUME FunctorsOrdered, f.op = "establish" => \A g \in Todo(k) : g.conn # f.conn
      PROVE  FunctorsOrdered'
  <2>1. Ordered(batch[k] \o Append(queue[k], f))
    BY <1>1, <1>6, OnPush DEF FunctorsOrdered, Todo, Pending
  <2>2. Ordered(Pending(k)')
    BY <1>2, <2>1
  <2>3. \A l \in Loops \ {k} : Ordered(Pending(l)')
    BY <1>3, <1>6 DEF FunctorsOrdered
  <2>4. \A l \in Loops : Ordered(Pending(l)')
    BY <2>2, <2>3
  <2>5. QED
    BY <2>4 DEF FunctorsOrdered, Ordered, EstablishFirst, Bind
<1>7. QED
  BY <1>4, <1>5, <1>6

\* What loop k still has to run once l has taken the head of its batch.
After(k, l) == IF k = l THEN Range(Tail(batch[l]) \o queue[l]) ELSE Todo(k)

\* What is left is still ordered.
LEMMA AfterFacts ==
  ASSUME TypeOK, FunctorsOrdered, NEW l \in Loops, batch[l] # << >>,
         batch' = [batch EXCEPT ![l] = Tail(@)]
  PROVE  /\ queue \in [Loops -> Seq(Functor)] /\ batch[l] \in Seq(Functor)
         /\ Head(batch[l]) \in Functor
         /\ \A k \in Loops : /\ batch'[k] \in Seq(Functor)
                             /\ After(k, l) = Range(batch'[k] \o queue[k])
                             /\ Ordered(batch'[k] \o queue[k])
<1>1. /\ queue \in [Loops -> Seq(Functor)] /\ batch \in [Loops -> Seq(Functor)]
      /\ Tail(batch[l]) \in Seq(Functor) /\ Head(batch[l]) \in Functor
  BY HeadTailProperties DEF TypeOK
<1>2. batch'[l] = Tail(batch[l]) /\ \A k \in Loops \ {l} : batch'[k] = batch[k]
  BY <1>1
<1>3. \A k \in Loops : batch'[k] \in Seq(Functor)
  BY <1>1, <1>2
<1>4. \A k \in Loops : After(k, l) = Range(batch'[k] \o queue[k])
  BY <1>2 DEF After, Todo, Pending
<1>5. \A k \in Loops : Ordered(batch'[k] \o queue[k])
  <2>1. Ordered(batch[l] \o queue[l])
    BY DEF FunctorsOrdered, Pending
  <2>2. Ordered(batch'[l] \o queue[l])
    BY <1>1, <1>2, <2>1, OnPop
  <2>3. \A k \in Loops \ {l} : Ordered(batch'[k] \o queue[k])
    BY <1>2 DEF FunctorsOrdered, Pending
  <2>4. QED
    BY <2>2, <2>3
<1>6. QED
  BY <1>1, <1>3, <1>4, <1>5

\* doPendingFunctors starts the head of the batch of loop l.
LEMMA PopEffect ==
  ASSUME TypeOK, FunctorsOrdered, NEW l \in Loops, batch[l] # << >>,
         batch' = [batch EXCEPT ![l] = Tail(@)]
  PROVE  /\ Head(batch[l]) \in Functor
         /\ Todo(l) = {Head(batch[l])} \cup After(l, l)
         /\ \A k \in Loops \ {l} : After(k, l) = Todo(k)
         /\ \A c \in Conns :
              /\ Head(batch[l]) = Bind("establish", c)
                   => Bind("establish", c) \notin After(l, l)
              /\ Head(batch[l]) = Bind("destroy", c) => Bind("establish", c) \notin Todo(l)
         /\ UNCHANGED queue =>
              FunctorsOrdered' /\ \A k \in Loops : Todo(k)' = After(k, l)
<1>1. /\ queue[l] \in Seq(Functor) /\ batch[l] \in Seq(Functor)
      /\ Head(batch[l]) \in Functor
  BY AfterFacts
<1>2. Ordered(batch[l] \o queue[l])
  BY DEF FunctorsOrdered, Pending
<1>3. Todo(l) = {Head(batch[l])} \cup After(l, l)
  BY <1>1, OnPop DEF Todo, Pending, After
<1>4. \A c \in Conns :
        /\ Head(batch[l]) = Bind("establish", c)
             => Bind("establish", c) \notin After(l, l)
        /\ Head(batch[l]) = Bind("destroy", c) => Bind("establish", c) \notin Todo(l)
  BY <1>1, <1>2, OnPop DEF Todo, Pending, After
<1>5. ASSUME UNCHANGED queue
      PROVE  FunctorsOrdered' /\ \A k \in Loops : Todo(k)' = After(k, l)
  <2>1. \A k \in Loops : Pending(k)' = batch'[k] \o queue[k]
    BY <1>5 DEF Pending
  <2>2. \A k \in Loops : /\ After(k, l) = Range(batch'[k] \o queue[k])
                         /\ Ordered(batch'[k] \o queue[k])
    BY AfterFacts
  <2>3. \A k \in Loops : Ordered(Pending(k)')
    BY <2>1, <2>2
  <2>4. FunctorsOrdered'
    BY <2>3 DEF FunctorsOrdered, Ordered, EstablishFirst, Bind
  <2>5. QED
    BY <2>1, <2>2, <2>4 DEF Todo
<1>6. \A k \in Loops \ {l} : After(k, l) = Todo(k)
  BY DEF After
<1>7. QED
  BY <1>1, <1>3, <1>4, <1>5, <1>6

\* The functor that is started queues g, which is not a connectEstablished.
LEMMA PopPushEffect ==
  ASSUME TypeOK, FunctorsOrdered, NEW l \in Loops, batch[l] # << >>,
         batch' = [batch EXCEPT ![l] = Tail(@)],
         NEW m \in Loops, NEW g \in Functor, Push(m, g), g.op # "establish"
  PROVE  /\ FunctorsOrdered'
         /\ Todo(m)' = After(m, l) \cup {g}
         /\ \A k \in Loops \ {m} : Todo(k)' = After(k, l)
<1>1. /\ queue \in [Loops -> Seq(Functor)]
      /\ \A k \in Loops : /\ batch'[k] \in Seq(Functor)
                          /\ After(k, l) = Range(batch'[k] \o queue[k])
                          /\ Ordered(batch'[k] \o queue[k])
  BY AfterFacts
<1>2. queue'[m] = Append(queue[m], g) /\ \A k \in Loops \ {m} : queue'[k] = queue[k]
  BY <1>1 DEF Push
<1>3. Pending(m)' = batch'[m] \o Append(queue[m], g)
  BY <1>2 DEF Pending
<1>4. \A k \in Loops \ {m} : Pending(k)' = batch'[k] \o queue[k]
  BY <1>2 DEF Pending
<1>5. \A b, q \in Seq(Functor) :
        /\ Range(b \o Append(q, g)) = Range(b \o q) \cup {g}
        /\ Ordered(b \o q) => Ordered(b \o Append(q, g))
  BY OnPush
<1>6. Range(batch'[m] \o Append(queue[m], g)) = Range(batch'[m] \o queue[m]) \cup {g}
  BY <1>1, <1>5
<1>7. Ordered(batch'[m] \o Append(queue[m], g))
  BY <1>1, <1>5
<1>8. Todo(m)' = After(m, l) \cup {g}
  BY <1>1, <1>3, <1>6 DEF Todo
<1>9. \A k \in Loops \ {m} : Todo(k)' = After(k, l)
  BY <1>1, <1>4 DEF Todo
<1>10. \A k \in Loops : Ordered(Pending(k)')
  BY <1>1, <1>3, <1>4, <1>7
<1>11. FunctorsOrdered'
  BY <1>10 DEF FunctorsOrdered, Ordered, EstablishFirst, Bind
<1>12. QED
  BY <1>8, <1>9, <1>11

\* The swap moves the pending functors to the batch, which is empty.
LEMMA SwapEffect ==
  ASSUME TypeOK, BatchShared, FunctorsOrdered, NEW l \in Loops, Swap(l)
  PROVE  FunctorsOrdered' /\ \A k \in Loops : Todo(k)' = Todo(k)
<1>1. batch[l] = << >> /\ queue[l] \in Seq(Functor)
  BY DEF BatchShared, Swap, TypeOK
<1>2. /\ batch'[l] = queue[l] /\ queue'[l] = << >>
      /\ \A k \in Loops \ {l} : batch'[k] = batch[k] /\ queue'[k] = queue[k]
  BY DEF Swap, TypeOK
<1>3. << >> \o queue[l] = queue[l] /\ queue[l] \o << >> = queue[l]
  BY <1>1, ConcatEmptySeq
<1>4. Pending(l)' = Pending(l)
  BY <1>1, <1>2, <1>3 DEF Pending
<1>5. \A k \in Loops \ {l} : Pending(k)' = Pending(k)
  BY <1>2 DEF Pending
<1>6. \A k \in Loops : Pending(k)' = Pending(k)
  BY <1>4, <1>5
<1>7. \A k \in Loops : Ordered(Pending(k)')
  BY <1>6 DEF FunctorsOrdered
<1>8. QED
  BY <1>6, <1>7 DEF FunctorsOrdered, Todo, Ordered, EstablishFirst, Bind

-----------------------------------------------------------------------------
(* What a step does to one connection.                                     *)

\* Functors that change neither the life of a connection nor its callbacks.
PlainOps == {"complete", "highwater", "send", "shutdown"}

(***************************************************************************)
(* A step that leaves the life of c alone: it may take functors of c other *)
(* than connectDestroyed away, queue one that calls user code, send or     *)
(* shut down, and shut c down.                                             *)
(***************************************************************************)
LEMMA ConnFrame ==
  ASSUME NEW c \in Conns, ConnInv(c),
         \/ state'[c] = state[c]
         \/ state'[c] = "kDisconnecting" /\ state[c] # "none" /\ ups[c] = 1,
         loopOf'[c] = loopOf[c], index'[c] = index[c],
         ups'[c] = ups[c], downs'[c] = downs[c],
         c \in connections' <=> c \in connections,
         \A l \in Loops, op \in Ops : Bind(op, c) \in Todo(l)' =>
           \/ Bind(op, c) \in Todo(l)
           \/ op \in PlainOps /\ l = loopOf[c] /\ state[c] # "none",
         \A l \in Loops : Bind("destroy", c) \in Todo(l) => Bind("destroy", c) \in Todo(l)',
         loopOf[c] \in Loops
  PROVE  ConnInv(c)'
<1>1. state'[c] = "none" <=> state[c] = "none"
  OBVIOUS
<1>2. FunctorsAtHome(c)'
  <2> SUFFICES ASSUME NEW l \in Loops, NEW op \in Ops, Bind(op, c) \in Todo(l)'
               PROVE  /\ l = IF op = "remove" THEN Base ELSE loopOf'[c]
                      /\ op = "establish" => l # Base
                      /\ state'[c] # "none"
    BY DEF FunctorsAtHome, Loops, Bind
  <2>1. CASE Bind(op, c) \in Todo(l)
    BY <1>1, <2>1 DEF ConnInv, FunctorsAtHome
  <2>2. CASE op \in PlainOps /\ l = loopOf[c] /\ state[c] # "none"
    BY <1>1, <2>2 DEF PlainOps
  <2>3. QED
    BY <2>1, <2>2
<1>3. WillEnd(c) => WillEnd(c)'
  BY DEF WillEnd, Bind
<1>4. NotYetUp(c)'
  <2>1. Bind("establish", c) \in Todo(loopOf[c])' => Bind("establish", c) \in Todo(loopOf[c])
    BY DEF Ops, PlainOps
  <2>2. QED
    BY <1>3, <2>1 DEF ConnInv, NotYetUp, Bind
<1>5. PolledIsUp(c)'
  BY <1>3 DEF ConnInv, PolledIsUp
<1>6. Untouched(c)'
  BY <1>1 DEF ConnInv, Untouched
<1>7. StateSaysUp(c)'
  BY DEF ConnInv, StateSaysUp
<1>8. QED
  BY <1>2, <1>4, <1>5, <1>6, <1>7 DEF ConnInv

\* Bound functors are equal when they bind the same operation and connection.
LEMMA BindDiffers ==
  ASSUME NEW op \in Ops, NEW p \in Ops, NEW c \in Conns, NEW d \in Conns,
         Bind(op, c) = Bind(p, d)
  PROVE  op = p /\ c = d
BY DEF Bind

\* A step that changes no connection and no functor.
LEMMA ConnsKept ==
  ASSUME TypeOK, ConnsInv, UNCHANGED <<state, loopOf, index, ups, downs, connections>>,
         \A l \in Loops : Todo(l)' = Todo(l)
  PROVE  ConnsInv'
<1>1. ASSUME NEW c \in Conns PROVE ConnInv(c)'
  <2>1. ConnInv(c) /\ loopOf[c] \in Loops
    BY <1>1 DEF ConnsInv, TypeOK
  <2>2. /\ state'[c] = state[c] /\ loopOf'[c] = loopOf[c] /\ index'[c] = index[c]
        /\ ups'[c] = ups[c] /\ downs'[c] = downs[c]
        /\ c \in connections' <=> c \in connections
    OBVIOUS
  <2>3. \A l \in Loops, op \in Ops : Bind(op, c) \in Todo(l)' => Bind(op, c) \in Todo(l)
    OBVIOUS
  <2>4. \A l \in Loops : Bind("destroy", c) \in Todo(l) => Bind("destroy", c) \in Todo(l)'
    OBVIOUS
  <2>5. QED
    BY <1>1, <2>1, <2>2, <2>3, <2>4, ConnFrame
<1>2. QED
  BY <1>1 DEF ConnsInv

\* A step whose functors, if any, are those of c leaves the other connections alone.
LEMMA OtherConns ==
  ASSUME TypeOK, ConnsInv, NEW c \in Conns,
         \A d \in Conns \ {c} :
           /\ state'[d] = state[d] /\ loopOf'[d] = loopOf[d] /\ index'[d] = index[d]
           /\ ups'[d] = ups[d] /\ downs'[d] = downs[d]
           /\ d \in connections' <=> d \in connections
           /\ \A l \in Loops, op \in Ops : Bind(op, d) \in Todo(l)' <=> Bind(op, d) \in Todo(l),
         ConnInv(c)'
  PROVE  ConnsInv'
<1>1. ASSUME NEW d \in Conns \ {c} PROVE ConnInv(d)'
  <2>1. ConnInv(d) /\ loopOf[d] \in Loops
    BY <1>1 DEF ConnsInv, TypeOK
  <2>2. "destroy" \in Ops
    BY DEF Ops
  <2>3. \A l \in Loops : Bind("destroy", d) \in Todo(l) => Bind("destroy", d) \in Todo(l)'
    BY <1>1, <2>1, <2>2
  <2>4. /\ state'[d] = state[d] /\ loopOf'[d] = loopOf[d] /\ index'[d] = index[d]
        /\ ups'[d] = ups[d] /\ downs'[d] = downs[d]
        /\ d \in connections' <=> d \in connections
        /\ \A l \in Loops, op \in Ops : Bind(op, d) \in Todo(l)' => Bind(op, d) \in Todo(l)
    BY <1>1
  <2>5. QED
    BY <1>1, <2>1, <2>3, <2>4, ConnFrame
<1>2. QED
  BY <1>1 DEF ConnsInv

\* The functors of c stay at home when the ones that are added are.
LEMMA HomeKept ==
  ASSUME NEW c \in Conns, FunctorsAtHome(c), loopOf'[c] = loopOf[c],
         state[c] # "none" => state'[c] # "none",
         \A l \in Loops, op \in Ops : Bind(op, c) \in Todo(l)' =>
           \/ Bind(op, c) \in Todo(l)
           \/ /\ l = IF op = "remove" THEN Base ELSE loopOf[c]
              /\ op # "establish"
              /\ state'[c] # "none"
  PROVE  FunctorsAtHome(c)'
<1> SUFFICES ASSUME NEW l \in Loops, NEW op \in Ops, Bind(op, c) \in Todo(l)'
             PROVE  /\ l = IF op = "remove" THEN Base ELSE loopOf'[c]
                    /\ op = "establish" => l # Base
                    /\ state'[c] # "none"
  BY DEF FunctorsAtHome, Loops, Bind
<1>1. CASE Bind(op, c) \in Todo(l)
  BY <1>1 DEF FunctorsAtHome
<1>2. CASE Bind(op, c) \notin Todo(l)
  BY <1>2
<1>3. QED
  BY <1>1, <1>2

\* connectEstablished on a connection that was not called back before.
LEMMA EstablishedConn ==
  ASSUME TypeOK, NEW c \in Conns, ConnectEstablished(c), downs' = downs,
         ups[c] = 0, downs[c] = 0,
         FunctorsAtHome(c)', WillEnd(c)', Bind("establish", c) \notin Todo(loopOf[c])'
  PROVE  ConnInv(c)'
<1>1. /\ state'[c] = "kConnected" /\ index'[c] = "kAdded"
      /\ ups'[c] = 1 /\ downs'[c] = 0
  BY DEF ConnectEstablished, SetEvents, UpdatedIndex, TypeOK
<1>2. NotYetUp(c)'
  BY DEF NotYetUp, Bind
<1>3. PolledIsUp(c)'
  BY <1>1 DEF PolledIsUp
<1>4. Untouched(c)' /\ StateSaysUp(c)'
  BY <1>1 DEF Untouched, StateSaysUp
<1>5. downs'[c] <= ups'[c] /\ ups'[c] <= 1
  BY <1>1
<1>6. QED
  BY <1>2, <1>3, <1>4, <1>5 DEF ConnInv

\* connectDestroyed on a connection that was accepted and has nothing to establish.
LEMMA DestroyedConn ==
  ASSUME TypeOK, NEW c \in Conns, ConnInv(c), ConnectDestroyed(c), ups' = ups,
         state[c] # "none",
         FunctorsAtHome(c)', Bind("establish", c) \notin Todo(loopOf[c])'
  PROVE  ConnInv(c)'
<1>1. ups[c] \in Nat /\ downs[c] \in Nat /\ ups'[c] = ups[c]
  BY DEF TypeOK
<1>2. NotYetUp(c)'
  BY DEF NotYetUp, Bind
<1>3. index'[c] = "kNew"
  BY DEF ConnectDestroyed, TypeOK
<1>4. CASE state[c] = "kConnected"
  <2>1. ups[c] = 1 /\ downs[c] = 0
    BY <1>4 DEF ConnInv, StateSaysUp
  <2>2. state'[c] = "kDisconnected" /\ downs'[c] = 1
    BY <1>4, <2>1 DEF ConnectDestroyed, TypeOK
  <2>3. Untouched(c)' /\ StateSaysUp(c)'
    BY <1>1, <2>1, <2>2 DEF Untouched, StateSaysUp
  <2>4. PolledIsUp(c)'
    BY <1>3 DEF PolledIsUp
  <2>5. QED
    BY <1>1, <1>2, <2>1, <2>2, <2>3, <2>4 DEF ConnInv
<1>5. CASE state[c] # "kConnected"
  <2>1. state'[c] = state[c] /\ downs'[c] = downs[c]
    BY <1>5 DEF ConnectDestroyed
  <2>2. Untouched(c)' /\ StateSaysUp(c)'
    BY <1>1, <1>5, <2>1 DEF ConnInv, Untouched, StateSaysUp
  <2>3. PolledIsUp(c)'
    BY <1>3 DEF PolledIsUp
  <2>4. QED
    BY <1>1, <1>2, <2>1, <2>2, <2>3 DEF ConnInv
<1>6. QED
  BY <1>4, <1>5

-----------------------------------------------------------------------------
(* Every step keeps what holds of the connections.                         *)

\* The functors of c that push, and nothing else, adds.
LEMMA PushBind ==
  ASSUME TypeOK, NEW k \in Loops, NEW p \in Ops, NEW c \in Conns,
         Push(k, Bind(p, c)), UNCHANGED batch
  PROVE  /\ Bind(p, c) \in Todo(k)'
         /\ \A l \in Loops, op \in Ops :
              /\ Bind(op, c) \in Todo(l)' => Bind(op, c) \in Todo(l) \/ (l = k /\ op = p)
              /\ Bind(op, c) \in Todo(l) => Bind(op, c) \in Todo(l)'
              /\ \A d \in Conns \ {c} : Bind(op, d) \in Todo(l)' <=> Bind(op, d) \in Todo(l)
<1>1. Bind(p, c) \in Functor
  BY BindFacts
<1>2. Todo(k)' = Todo(k) \cup {Bind(p, c)} /\ \A l \in Loops \ {k} : Todo(l)' = Todo(l)
  BY <1>1, PushEffect
<1>3. \A op \in Ops, d \in Conns : Bind(op, d) = Bind(p, c) => op = p /\ d = c
  BY BindDiffers
<1>4. QED
  BY <1>2, <1>3

\* A connection in the backlog was never touched.
LEMMA BacklogFresh ==
  ASSUME TypeOK, ConnsInv, ActiveIsFresh, NEW c \in Conns, Accept(c)
  PROVE  /\ state[c] = "none" /\ ups[c] = 0 /\ downs[c] = 0 /\ loopOf[c] = Base
         /\ c \notin connections /\ index[c] # "kAdded" /\ server # "new"
         /\ phase[Base] = "events"
         /\ \A l \in Loops, op \in Ops : Bind(op, c) \notin Todo(l)
<1>1. state[c] = "none" /\ server # "new" /\ phase[Base] = "events"
  BY PoolFacts DEF Accept, ActiveIsFresh, ActiveOf
<1>2. ConnInv(c)
  BY DEF ConnsInv
<1>3. QED
  BY <1>1, <1>2 DEF ConnInv, FunctorsAtHome, Untouched, PolledIsUp

\* TcpServer::newConnection.
LEMMA NewConnectionStep ==
  ASSUME ServerInv, NEW c \in Conns, NewConnection(c)
  PROVE  ConnsInv'
<1> USE DEF ServerInv
<1>1. /\ state[c] = "none" /\ ups[c] = 0 /\ downs[c] = 0 /\ loopOf[c] = Base
      /\ c \notin connections /\ index[c] # "kAdded"
      /\ \A l \in Loops, op \in Ops : Bind(op, c) \notin Todo(l)
  BY BacklogFresh DEF NewConnection
<1>2. loopOf'[c] = NextLoop /\ NextLoop \in Loops
  BY NextLoopFacts DEF NewConnection, TypeOK
<1>3. \A d \in Conns \ {c} :
        /\ state'[d] = state[d] /\ loopOf'[d] = loopOf[d] /\ index'[d] = index[d]
        /\ ups'[d] = ups[d] /\ downs'[d] = downs[d]
        /\ d \in connections' <=> d \in connections
  BY DEF NewConnection, ConnectEstablished, SetEvents, TypeOK
<1>4. CASE NextLoop = Base
  <2>1. ConnectEstablished(c) /\ UNCHANGED <<queue, batch, downs>> /\ c \in connections'
    BY <1>4 DEF NewConnection
  <2>2. \A l \in Loops : Todo(l)' = Todo(l)
    BY <2>1, QueuesKept
  <2>3. \A l \in Loops, op \in Ops : Bind(op, c) \notin Todo(l)'
    BY <1>1, <2>2
  <2>4. FunctorsAtHome(c)'
    BY <2>3 DEF FunctorsAtHome, Loops, Bind
  <2>5. Bind("establish", c) \notin Todo(loopOf[c])'
    BY <1>2, <2>3 DEF Ops
  <2>6. WillEnd(c)'
    BY <2>1 DEF WillEnd
  <2>7. ConnInv(c)'
    BY <1>1, <2>1, <2>4, <2>5, <2>6, EstablishedConn
  <2>8. QED
    BY <1>3, <2>2, <2>7, OtherConns
<1>5. CASE NextLoop # Base
  <2>1. /\ state'[c] = "kConnecting" /\ index'[c] = index[c]
        /\ ups'[c] = 0 /\ downs'[c] = 0 /\ c \in connections'
        /\ Push(NextLoop, Bind("establish", c)) /\ UNCHANGED batch
    BY <1>1, <1>5 DEF NewConnection, TypeOK
  <2>2. "establish" \in Ops
    BY DEF Ops
  <2>3. \A l \in Loops, op \in Ops :
          /\ Bind(op, c) \in Todo(l)' => l = NextLoop /\ op = "establish"
          /\ \A d \in Conns \ {c} : Bind(op, d) \in Todo(l)' <=> Bind(op, d) \in Todo(l)
    BY <1>1, <1>2, <2>1, <2>2, PushBind
  <2>4. FunctorsAtHome(c)'
    <3> SUFFICES ASSUME NEW l \in Loops, NEW op \in Ops, Bind(op, c) \in Todo(l)'
                 PROVE  /\ l = IF op = "remove" THEN Base ELSE loopOf'[c]
                        /\ op = "establish" => l # Base
                        /\ state'[c] # "none"
      BY DEF FunctorsAtHome, Loops, Bind
    <3>1. QED
      BY <1>2, <1>5, <2>1, <2>3
  <2>5. WillEnd(c)' /\ NotYetUp(c)'
    BY <2>1 DEF WillEnd, NotYetUp
  <2>6. PolledIsUp(c)' /\ Untouched(c)' /\ StateSaysUp(c)'
    BY <1>1, <2>1 DEF PolledIsUp, Untouched, StateSaysUp
  <2>7. ConnInv(c)'
    BY <2>1, <2>4, <2>5, <2>6 DEF ConnInv
  <2>8. QED
    BY <1>3, <2>3, <2>7, OtherConns
<1>6. QED
  BY <1>4, <1>5

\* TcpConnection::handleClose, for an event that loop l has to handle.
LEMMA CloseStep ==
  ASSUME ServerInv, NEW l \in Loops, NEW e \in active[l], HandleEvent(l, e),
         e.kind \in {"close", "hangup"}
  PROVE  ConnsInv'
<1> USE DEF ServerInv
<1> DEFINE c == e.conn
<1>1. HandleClose(c) /\ UNCHANGED <<loopOf, ups, batch>>
  BY DEF HandleEvent
<1>2. c \in Conns /\ loopOf[c] = l /\ index[c] = "kAdded"
  BY DEF TypeOK, Events, ActiveIsFresh, ActiveOf, Kinds
<1> HIDE DEF c
<1>3. ConnInv(c)
  BY <1>2 DEF ConnsInv
<1>4. /\ ups[c] = 1 /\ downs[c] = 0 /\ state[c] # "none"
      /\ Bind("establish", c) \notin Todo(l)
  BY <1>2, <1>3 DEF ConnInv, PolledIsUp, Untouched, NotYetUp
<1>5. /\ state'[c] = "kDisconnected" /\ index'[c] = "kDeleted"
      /\ ups'[c] = 1 /\ downs'[c] = 1 /\ loopOf'[c] = l
  BY <1>1, <1>2, <1>4 DEF HandleClose, SetEvents, UpdatedIndex, TypeOK
<1>6. \A d \in Conns \ {c} :
        /\ state'[d] = state[d] /\ loopOf'[d] = loopOf[d] /\ index'[d] = index[d]
        /\ ups'[d] = ups[d] /\ downs'[d] = downs[d]
        /\ d \in connections' <=> d \in connections
  BY <1>1, <1>2 DEF HandleClose, RemoveConnectionInLoop, SetEvents, TypeOK
<1>7. \/ l = Base /\ Push(l, Bind("destroy", c))
      \/ l # Base /\ Push(Base, Bind("remove", c))
  BY <1>1, <1>2 DEF HandleClose, RemoveConnectionInLoop
<1>8. "destroy" \in Ops /\ "remove" \in Ops /\ "establish" \in Ops /\ Base \in Loops
  BY PoolFacts DEF Ops
<1>9. \A k \in Loops, op \in Ops :
        /\ Bind(op, c) \in Todo(k)' => \/ Bind(op, c) \in Todo(k)
                                       \/ op = "destroy" /\ k = l
                                       \/ op = "remove" /\ k = Base
        /\ \A d \in Conns \ {c} : Bind(op, d) \in Todo(k)' <=> Bind(op, d) \in Todo(k)
  <2>1. CASE l = Base /\ Push(l, Bind("destroy", c))
    BY <1>1, <1>2, <1>8, <2>1, PushBind
  <2>2. CASE l # Base /\ Push(Base, Bind("remove", c))
    BY <1>1, <1>2, <1>8, <2>2, PushBind
  <2>3. QED
    BY <1>7, <2>1, <2>2
<1>10. FunctorsAtHome(c)'
  <2>1. FunctorsAtHome(c)
    BY <1>3 DEF ConnInv
  <2>2. \A k \in Loops, op \in Ops : Bind(op, c) \in Todo(k)' =>
          \/ Bind(op, c) \in Todo(k)
          \/ /\ k = IF op = "remove" THEN Base ELSE loopOf[c]
             /\ op # "establish"
             /\ state'[c] # "none"
    BY <1>2, <1>5, <1>9
  <2>3. QED
    BY <1>2, <1>5, <2>1, <2>2, HomeKept
<1>11. Bind("establish", c) \notin Todo(loopOf[c])'
  BY <1>4, <1>5, <1>8, <1>9
<1>12. NotYetUp(c)'
  BY <1>11 DEF NotYetUp, Bind
<1>13. PolledIsUp(c)' /\ Untouched(c)' /\ StateSaysUp(c)'
  BY <1>5 DEF PolledIsUp, Untouched, StateSaysUp
<1>14. ConnInv(c)'
  BY <1>5, <1>10, <1>12, <1>13 DEF ConnInv
<1>15. QED
  BY <1>2, <1>6, <1>9, <1>14, OtherConns

\* A step that, of all functors, only queues one of PlainOps, may start any but
\* connectDestroyed, and may shut down c, which is up.
LEMMA PlainStep ==
  ASSUME TypeOK, ConnsInv, NEW c \in Conns,
         UNCHANGED <<loopOf, index, ups, downs, connections>>,
         \/ UNCHANGED state
         \/ /\ state' = [state EXCEPT ![c] = "kDisconnecting"]
            /\ state[c] # "none" /\ ups[c] = 1,
         \A l \in Loops, op \in Ops, d \in Conns : Bind(op, d) \in Todo(l)' =>
           \/ Bind(op, d) \in Todo(l)
           \/ d = c /\ op \in PlainOps /\ l = loopOf[c] /\ state[c] # "none",
         \A l \in Loops, d \in Conns :
           Bind("destroy", d) \in Todo(l) => Bind("destroy", d) \in Todo(l)'
  PROVE  ConnsInv'
<1>1. ASSUME NEW d \in Conns PROVE ConnInv(d)'
  <2>1. ConnInv(d) /\ loopOf[d] \in Loops
    BY <1>1 DEF ConnsInv, TypeOK
  <2>2. \/ state'[d] = state[d]
        \/ state'[d] = "kDisconnecting" /\ state[d] # "none" /\ ups[d] = 1
    BY <1>1 DEF TypeOK
  <2>3. /\ loopOf'[d] = loopOf[d] /\ index'[d] = index[d]
        /\ ups'[d] = ups[d] /\ downs'[d] = downs[d]
        /\ d \in connections' <=> d \in connections
    OBVIOUS
  <2>4. \A l \in Loops, op \in Ops : Bind(op, d) \in Todo(l)' =>
          \/ Bind(op, d) \in Todo(l)
          \/ op \in PlainOps /\ l = loopOf[d] /\ state[d] # "none"
    BY <1>1
  <2>5. \A l \in Loops : Bind("destroy", d) \in Todo(l) => Bind("destroy", d) \in Todo(l)'
    BY <1>1
  <2>6. QED
    BY <1>1, <2>1, <2>2, <2>3, <2>4, <2>5, ConnFrame
<1>2. QED
  BY <1>1 DEF ConnsInv

\* What sendInLoop may queue.
LEMMA SendEffect ==
  ASSUME NEW c \in Conns, SendInLoop(c)
  PROVE  \/ UNCHANGED queue
         \/ Push(loopOf[c], Bind("complete", c))
         \/ Push(loopOf[c], Bind("highwater", c))
BY DEF SendInLoop

\* TcpConnection::handleRead with data, for an event that loop l has to handle.
LEMMA MessageStep ==
  ASSUME ServerInv, NEW l \in Loops, NEW e \in active[l], HandleEvent(l, e),
         e.kind = "message"
  PROVE  ConnsInv'
<1> USE DEF ServerInv
<1> DEFINE c == e.conn
<1>1. HandleMessage(c) /\ UNCHANGED <<loopOf, index, ups, downs, connections, batch>>
  BY DEF HandleEvent
<1>2. c \in Conns /\ loopOf[c] = l /\ index[c] = "kAdded"
  BY DEF TypeOK, Events, ActiveIsFresh, ActiveOf, Kinds
<1> HIDE DEF c
<1>3. ups[c] = 1 /\ state[c] # "none"
  BY <1>2 DEF ConnsInv, ConnInv, PolledIsUp, Untouched
<1>4. UNCHANGED state \/ state' = [state EXCEPT ![c] = "kDisconnecting"]
  BY <1>1 DEF HandleMessage, HandleError
<1>5. \/ UNCHANGED queue
      \/ \E p \in {"complete", "highwater"} : Push(l, Bind(p, c))
  BY <1>1, <1>2, SendEffect DEF HandleMessage, HandleError
<1>6. CASE UNCHANGED queue
  <2>1. \A k \in Loops : Todo(k)' = Todo(k)
    BY <1>1, <1>6, QueuesKept
  <2>2. QED
    BY <1>1, <1>2, <1>3, <1>4, <2>1, PlainStep
<1>7. ASSUME NEW p \in {"complete", "highwater"}, Push(l, Bind(p, c)) PROVE ConnsInv'
  <2>1. p \in Ops /\ p \in PlainOps /\ "destroy" \in Ops
    BY <1>7 DEF Ops, PlainOps
  <2>2. \A k \in Loops, op \in Ops :
          /\ Bind(op, c) \in Todo(k)' => Bind(op, c) \in Todo(k) \/ (k = l /\ op = p)
          /\ Bind(op, c) \in Todo(k) => Bind(op, c) \in Todo(k)'
          /\ \A d \in Conns \ {c} : Bind(op, d) \in Todo(k)' <=> Bind(op, d) \in Todo(k)
    BY <1>1, <1>2, <1>7, <2>1, PushBind
  <2>3. \A k \in Loops, op \in Ops, d \in Conns : Bind(op, d) \in Todo(k)' =>
          \/ Bind(op, d) \in Todo(k)
          \/ d = c /\ op \in PlainOps /\ k = loopOf[c] /\ state[c] # "none"
    BY <1>2, <1>3, <2>1, <2>2
  <2>4. \A k \in Loops, d \in Conns :
          Bind("destroy", d) \in Todo(k) => Bind("destroy", d) \in Todo(k)'
    BY <1>2, <2>1, <2>2
  <2>5. QED
    BY <1>1, <1>2, <1>3, <1>4, <2>3, <2>4, PlainStep
<1>8. QED
  BY <1>5, <1>6, <1>7

\* The head of a batch is a bound functor that is at home.
LEMMA HeadBound ==
  ASSUME TypeOK, ConnsInv, FunctorsOrdered, NEW l \in Loops, RunFunctor(l)
  PROVE  \E p \in Ops, c \in Conns :
           /\ Head(batch[l]) = Bind(p, c) /\ Bind(p, c) \in Todo(l)
           /\ l = IF p = "remove" THEN Base ELSE loopOf[c]
           /\ p = "establish" => l # Base
           /\ state[c] # "none"
<1> DEFINE f == Head(batch[l])
<1>1. f \in Functor /\ f \in Todo(l)
  BY PopEffect DEF RunFunctor
<1> HIDE DEF f
<1>2. f.op \in Ops /\ f.conn \in Conns /\ f = Bind(f.op, f.conn)
  BY <1>1 DEF Functor, Bind
<1>3. FunctorsAtHome(f.conn) /\ Bind(f.op, f.conn) \in Todo(l)
  BY <1>1, <1>2 DEF ConnsInv, ConnInv
<1>4. QED
  BY <1>1, <1>2, <1>3 DEF FunctorsAtHome, f

\* What is left for the loops when l starts Bind(p, c), the head of its batch.
LEMMA PopBind ==
  ASSUME TypeOK, FunctorsOrdered, NEW l \in Loops, RunFunctor(l),
         NEW p \in Ops, NEW c \in Conns, Head(batch[l]) = Bind(p, c)
  PROVE  /\ \A k \in Loops, op \in Ops, d \in Conns :
              /\ Bind(op, d) \in After(k, l) => Bind(op, d) \in Todo(k)
              /\ Bind(op, d) \in Todo(k) /\ (op # p \/ d # c) => Bind(op, d) \in After(k, l)
         /\ p \in {"establish", "destroy"} => Bind("establish", c) \notin After(l, l)
         /\ UNCHANGED queue => \A k \in Loops : Todo(k)' = After(k, l)
<1>1. batch[l] # << >> /\ batch' = [batch EXCEPT ![l] = Tail(@)]
  BY DEF RunFunctor
<1>2. /\ Todo(l) = {Bind(p, c)} \cup After(l, l)
      /\ \A k \in Loops \ {l} : After(k, l) = Todo(k)
  BY <1>1, PopEffect
<1>3. \A op \in Ops, d \in Conns : Bind(op, d) = Bind(p, c) => op = p /\ d = c
  BY BindDiffers
<1>4. \A k \in Loops, op \in Ops, d \in Conns :
        /\ Bind(op, d) \in After(k, l) => Bind(op, d) \in Todo(k)
        /\ Bind(op, d) \in Todo(k) /\ (op # p \/ d # c) => Bind(op, d) \in After(k, l)
  BY <1>2, <1>3
<1>5. p = "establish" => Bind("establish", c) \notin After(l, l)
  BY <1>1, PopEffect
<1>6. p = "destroy" => Bind("establish", c) \notin After(l, l)
  <2>1. p = "destroy" => Bind("establish", c) \notin Todo(l)
    BY <1>1, PopEffect
  <2>2. QED
    BY <1>2, <2>1
<1>7. UNCHANGED queue => \A k \in Loops : Todo(k)' = After(k, l)
  BY <1>1, PopEffect
<1>8. QED
  BY <1>4, <1>5, <1>6, <1>7

\* The functor that is started queues another one for its connection.
LEMMA PopPushBind ==
  ASSUME TypeOK, FunctorsOrdered, NEW l \in Loops, RunFunctor(l), NEW c \in Conns,
         NEW m \in Loops, NEW q \in Ops, q # "establish", Push(m, Bind(q, c))
  PROVE  /\ Bind(q, c) \in Todo(m)'
         /\ \A k \in Loops, op \in Ops, d \in Conns :
              /\ Bind(op, d) \in Todo(k)' =>
                   Bind(op, d) \in After(k, l) \/ (d = c /\ op = q /\ k = m)
              /\ Bind(op, d) \in After(k, l) => Bind(op, d) \in Todo(k)'
<1>1. batch[l] # << >> /\ batch' = [batch EXCEPT ![l] = Tail(@)]
  BY DEF RunFunctor
<1>2. Bind(q, c) \in Functor /\ Bind(q, c).op # "establish"
  BY BindFacts
<1>3. /\ Todo(m)' = After(m, l) \cup {Bind(q, c)}
      /\ \A k \in Loops \ {m} : Todo(k)' = After(k, l)
  BY <1>1, <1>2, PopPushEffect
<1>4. \A op \in Ops, d \in Conns : Bind(op, d) = Bind(q, c) => op = q /\ d = c
  BY BindDiffers
<1>5. QED
  BY <1>3, <1>4

\* doPendingFunctors runs a functor.
LEMMA RunFunctorStep ==
  ASSUME ServerInv, NEW l \in Loops, RunFunctor(l)
  PROVE  ConnsInv'
<1> USE DEF ServerInv
<1>1. PICK p \in Ops, c \in Conns :
        /\ Head(batch[l]) = Bind(p, c) /\ Bind(p, c) \in Todo(l)
        /\ l = IF p = "remove" THEN Base ELSE loopOf[c]
        /\ p = "establish" => l # Base
        /\ state[c] # "none"
  BY HeadBound
<1>1a. Head(batch[l]).op = p /\ Head(batch[l]).conn = c
  BY <1>1, BindFacts
<1>2. /\ \A k \in Loops, op \in Ops, d \in Conns :
           /\ Bind(op, d) \in After(k, l) => Bind(op, d) \in Todo(k)
           /\ Bind(op, d) \in Todo(k) /\ (op # p \/ d # c) => Bind(op, d) \in After(k, l)
      /\ p \in {"establish", "destroy"} => Bind("establish", c) \notin After(l, l)
      /\ UNCHANGED queue => \A k \in Loops : Todo(k)' = After(k, l)
  BY <1>1, PopBind
<1>3. ConnInv(c) /\ FunctorsAtHome(c) /\ loopOf[c] \in Loops
  BY <1>1 DEF ConnsInv, ConnInv, TypeOK
<1>4. UNCHANGED loopOf
  BY DEF RunFunctor
<1>5. {"establish", "remove", "destroy", "complete", "highwater"} \subseteq Ops
  BY DEF Ops
<1>6. CASE p = "establish"
  <2>1. ConnectEstablished(c) /\ UNCHANGED <<downs, connections, queue>>
    BY <1>1a, <1>6 DEF RunFunctor
  <2>2. \A k \in Loops : Todo(k)' = After(k, l)
    BY <1>2, <2>1
  <2>3. ups[c] = 0 /\ downs[c] = 0 /\ WillEnd(c)
    BY <1>1, <1>3, <1>6 DEF ConnInv, NotYetUp
  <2>4. FunctorsAtHome(c)'
    <3>1. state'[c] # "none" /\ loopOf'[c] = loopOf[c]
      BY <1>1, <1>4, <2>1 DEF ConnectEstablished, TypeOK
    <3>2. \A k \in Loops, op \in Ops : Bind(op, c) \in Todo(k)' => Bind(op, c) \in Todo(k)
      BY <1>1, <1>2, <2>2
    <3>3. QED
      BY <1>1, <1>3, <3>1, <3>2, HomeKept
  <2>5. WillEnd(c)'
    <3>1. Bind("destroy", c) \in Todo(l) => Bind("destroy", c) \in Todo(l)'
      BY <1>1, <1>2, <1>5, <1>6, <2>2
    <3>2. QED
      BY <1>1, <1>4, <1>6, <2>1, <2>3, <3>1 DEF WillEnd, Bind
  <2>6. Bind("establish", c) \notin Todo(loopOf[c])'
    BY <1>1, <1>2, <1>4, <1>6, <2>2
  <2>7. ConnInv(c)'
    BY <1>1, <2>1, <2>3, <2>4, <2>5, <2>6, EstablishedConn
  <2>8. \A d \in Conns \ {c} :
          /\ state'[d] = state[d] /\ loopOf'[d] = loopOf[d] /\ index'[d] = index[d]
          /\ ups'[d] = ups[d] /\ downs'[d] = downs[d]
          /\ d \in connections' <=> d \in connections
          /\ \A k \in Loops, op \in Ops : Bind(op, d) \in Todo(k)' <=> Bind(op, d) \in Todo(k)
    BY <1>1, <1>2, <1>4, <2>1, <2>2 DEF ConnectEstablished, SetEvents, TypeOK
  <2>9. QED
    BY <1>1, <2>7, <2>8, OtherConns
<1>7. CASE p = "remove"
  <2>1. RemoveConnectionInLoop(c) /\ UNCHANGED <<state, index, ups, downs>>
    BY <1>1a, <1>7 DEF RunFunctor
  <2>2. connections' = connections \ {c} /\ Push(loopOf[c], Bind("destroy", c))
    BY <2>1 DEF RemoveConnectionInLoop
  <2>3. /\ Bind("destroy", c) \in Todo(loopOf[c])'
        /\ \A k \in Loops, op \in Ops, d \in Conns :
             /\ Bind(op, d) \in Todo(k)' =>
                  Bind(op, d) \in After(k, l) \/ (d = c /\ op = "destroy" /\ k = loopOf[c])
             /\ Bind(op, d) \in After(k, l) => Bind(op, d) \in Todo(k)'
    <3>1. PICK m \in Loops : m = loopOf[c] /\ Push(m, Bind("destroy", c))
      BY <1>3, <2>2
    <3>2. /\ Bind("destroy", c) \in Todo(m)'
          /\ \A k \in Loops, op \in Ops, d \in Conns :
               /\ Bind(op, d) \in Todo(k)' =>
                    Bind(op, d) \in After(k, l) \/ (d = c /\ op = "destroy" /\ k = m)
               /\ Bind(op, d) \in After(k, l) => Bind(op, d) \in Todo(k)'
      BY <1>1, <1>5, <3>1, PopPushBind
    <3>3. QED
      BY <1>4, <3>1, <3>2
  <2>4. FunctorsAtHome(c)'
    <3>1. \A k \in Loops, op \in Ops : Bind(op, c) \in Todo(k)' =>
            \/ Bind(op, c) \in Todo(k)
            \/ /\ k = IF op = "remove" THEN Base ELSE loopOf[c]
               /\ op # "establish"
               /\ state'[c] # "none"
      BY <1>1, <1>2, <2>1, <2>3
    <3>2. loopOf'[c] = loopOf[c] /\ (state[c] # "none" => state'[c] # "none")
      BY <1>4, <2>1
    <3>3. QED
      BY <1>1, <1>3, <3>1, <3>2, HomeKept
  <2>5. WillEnd(c)'
    BY <2>3 DEF WillEnd, Bind
  <2>6. NotYetUp(c)'
    <3>1. Bind("establish", c) \in Todo(loopOf[c])' => Bind("establish", c) \in Todo(loopOf[c])
      BY <1>1, <1>2, <1>3, <1>4, <1>5, <2>3
    <3>2. QED
      BY <1>3, <1>4, <2>1, <2>5, <3>1 DEF ConnInv, NotYetUp, Bind
  <2>7. PolledIsUp(c)' /\ Untouched(c)' /\ StateSaysUp(c)'
    BY <1>1, <1>3, <2>1, <2>5 DEF ConnInv, PolledIsUp, Untouched, StateSaysUp
  <2>8. ConnInv(c)'
    BY <1>3, <2>1, <2>4, <2>6, <2>7 DEF ConnInv
  <2>9. \A d \in Conns \ {c} :
          /\ state'[d] = state[d] /\ loopOf'[d] = loopOf[d] /\ index'[d] = index[d]
          /\ ups'[d] = ups[d] /\ downs'[d] = downs[d]
          /\ d \in connections' <=> d \in connections
          /\ \A k \in Loops, op \in Ops : Bind(op, d) \in Todo(k)' <=> Bind(op, d) \in Todo(k)
    BY <1>1, <1>2, <1>4, <2>1, <2>2, <2>3
  <2>10. QED
    BY <1>1, <2>8, <2>9, OtherConns
<1>8. CASE p = "destroy"
  <2>1. ConnectDestroyed(c) /\ UNCHANGED <<ups, connections, queue>>
    BY <1>1a, <1>8 DEF RunFunctor
  <2>2. \A k \in Loops : Todo(k)' = After(k, l)
    BY <1>2, <2>1
  <2>3. FunctorsAtHome(c)'
    <3>1. state'[c] # "none" /\ loopOf'[c] = loopOf[c]
      BY <1>1, <1>4, <2>1 DEF ConnectDestroyed, TypeOK
    <3>2. \A k \in Loops, op \in Ops : Bind(op, c) \in Todo(k)' => Bind(op, c) \in Todo(k)
      BY <1>1, <1>2, <2>2
    <3>3. QED
      BY <1>1, <1>3, <3>1, <3>2, HomeKept
  <2>4. Bind("establish", c) \notin Todo(loopOf[c])'
    BY <1>1, <1>2, <1>4, <1>8, <2>2
  <2>5. ConnInv(c)'
    BY <1>1, <1>3, <2>1, <2>3, <2>4, DestroyedConn
  <2>6. \A d \in Conns \ {c} :
          /\ state'[d] = state[d] /\ loopOf'[d] = loopOf[d] /\ index'[d] = index[d]
          /\ ups'[d] = ups[d] /\ downs'[d] = downs[d]
          /\ d \in connections' <=> d \in connections
          /\ \A k \in Loops, op \in Ops : Bind(op, d) \in Todo(k)' <=> Bind(op, d) \in Todo(k)
    BY <1>1, <1>2, <1>4, <2>1, <2>2 DEF ConnectDestroyed, TypeOK
  <2>7. QED
    BY <1>1, <2>5, <2>6, OtherConns
<1>9. CASE p \notin {"establish", "remove", "destroy"}
  <2>1. UNCHANGED <<state, loopOf, index, ups, downs, connections>>
    BY <1>1a, <1>9 DEF RunFunctor
  <2>2. \/ UNCHANGED queue
        \/ \E q \in {"complete", "highwater"} : Push(l, Bind(q, c))
    <3>1. UNCHANGED queue \/ SendInLoop(c)
      BY <1>1a, <1>9 DEF RunFunctor
    <3>2. QED
      BY <1>1, <1>9, <3>1, SendEffect
  <2>3. CASE UNCHANGED queue
    <3>1. \A k \in Loops : Todo(k)' = After(k, l)
      BY <1>2, <2>3
    <3>2. \A k \in Loops, op \in Ops, d \in Conns :
            Bind(op, d) \in Todo(k)' => Bind(op, d) \in Todo(k)
      BY <1>2, <3>1
    <3>3. \A k \in Loops, d \in Conns :
            Bind("destroy", d) \in Todo(k) => Bind("destroy", d) \in Todo(k)'
      BY <1>2, <1>5, <1>9, <3>1
    <3>4. QED
      BY <1>1, <2>1, <3>2, <3>3, PlainStep
  <2>4. ASSUME NEW q \in Ops, q \in {"complete", "highwater"}, Push(l, Bind(q, c))
        PROVE  ConnsInv'
    <3>1. q # "establish" /\ q \in PlainOps
      BY <2>4 DEF PlainOps
    <3>2. \A k \in Loops, op \in Ops, d \in Conns :
            /\ Bind(op, d) \in Todo(k)' =>
                 Bind(op, d) \in After(k, l) \/ (d = c /\ op = q /\ k = l)
            /\ Bind(op, d) \in After(k, l) => Bind(op, d) \in Todo(k)'
      BY <1>1, <2>4, <3>1, PopPushBind
    <3>3. l = loopOf[c]
      BY <1>1, <1>9
    <3>4. \A k \in Loops, op \in Ops, d \in Conns : Bind(op, d) \in Todo(k)' =>
            \/ Bind(op, d) \in Todo(k)
            \/ d = c /\ op \in PlainOps /\ k = loopOf[c] /\ state[c] # "none"
      BY <1>1, <1>2, <3>1, <3>2, <3>3
    <3>5. \A k \in Loops, d \in Conns :
            Bind("destroy", d) \in Todo(k) => Bind("destroy", d) \in Todo(k)'
      BY <1>2, <1>5, <1>9, <3>2
    <3>6. QED
      BY <1>1, <2>1, <3>4, <3>5, PlainStep
  <2>5. QED
    BY <1>5, <2>2, <2>3, <2>4
<1>10. QED
  BY <1>6, <1>7, <1>8, <1>9

\* The end of TcpConnection::send or shutdown in worker w.
LEMMA FinishCallStep ==
  ASSUME ServerInv, NEW w \in Workers, FinishCall(w)
  PROVE  ConnsInv'
<1> USE DEF ServerInv
<1>1. PICK p \in Ops, c \in Conns :
        /\ call[w] = Bind(p, c) /\ call[w].op = p /\ call[w].conn = c
        /\ p \in PlainOps /\ ups[c] = 1
  <2>1. call[w] \in Functor /\ call[w].op \in WorkerOps /\ ups[call[w].conn] = 1
    BY DEF FinishCall, WorkersHoldUp, TypeOK
  <2>2. call[w].op \in Ops /\ call[w].conn \in Conns
        /\ call[w] = Bind(call[w].op, call[w].conn)
    BY <2>1 DEF Functor, Bind
  <2>3. call[w].op \in PlainOps
    BY <2>1, ServerAssumption DEF PlainOps
  <2>4. QED
    BY <2>1, <2>2, <2>3
<1>2. ConnInv(c) /\ state[c] # "none"
  BY <1>1 DEF ConnsInv, ConnInv, Untouched
<1>3. PICK k \in Loops : k = loopOf[c] /\ Push(k, Bind(p, c))
  BY <1>1 DEF FinishCall, TypeOK
<1>4. /\ UNCHANGED <<loopOf, index, ups, downs, connections, batch>>
      /\ UNCHANGED state \/ state' = [state EXCEPT ![c] = "kDisconnecting"]
  BY <1>1 DEF FinishCall, serverVars
<1>5. \A l \in Loops, op \in Ops :
        /\ Bind(op, c) \in Todo(l)' => Bind(op, c) \in Todo(l) \/ (l = k /\ op = p)
        /\ Bind(op, c) \in Todo(l) => Bind(op, c) \in Todo(l)'
        /\ \A d \in Conns \ {c} : Bind(op, d) \in Todo(l)' <=> Bind(op, d) \in Todo(l)
  BY <1>3, <1>4, PushBind
<1>6. \A l \in Loops, op \in Ops, d \in Conns : Bind(op, d) \in Todo(l)' =>
        \/ Bind(op, d) \in Todo(l)
        \/ d = c /\ op \in PlainOps /\ l = loopOf[c] /\ state[c] # "none"
  BY <1>1, <1>2, <1>3, <1>5
<1>7. \A l \in Loops, d \in Conns :
        Bind("destroy", d) \in Todo(l) => Bind("destroy", d) \in Todo(l)'
  BY <1>5 DEF Ops
<1>8. QED
  BY <1>1, <1>2, <1>4, <1>6, <1>7, PlainStep

\* The body of ~TcpServer for one connection.
LEMMA DestroyConnectionStep ==
  ASSUME ServerInv, NEW c \in Conns, DestroyConnection(c)
  PROVE  ConnsInv'
<1> USE DEF ServerInv
<1>1. ConnInv(c) /\ FunctorsAtHome(c) /\ loopOf[c] \in Loops
  BY DEF ConnsInv, ConnInv, TypeOK
<1>2. state[c] # "none"
  BY <1>1 DEF DestroyConnection, ConnInv, Untouched
<1>3. UNCHANGED <<loopOf, ups, batch>> /\ connections' = connections \ {c}
  BY DEF DestroyConnection
<1>4. {"establish", "destroy"} \subseteq Ops
  BY DEF Ops
<1>5. CASE loopOf[c] = Base
  <2>1. ConnectDestroyed(c) /\ UNCHANGED queue
    BY <1>5 DEF DestroyConnection
  <2>2. \A l \in Loops : Todo(l)' = Todo(l)
    BY <1>3, <2>1, QueuesKept
  <2>3. FunctorsAtHome(c)'
    <3>1. state'[c] # "none" /\ loopOf'[c] = loopOf[c]
      BY <1>2, <1>3, <2>1 DEF ConnectDestroyed, TypeOK
    <3>2. QED
      BY <1>1, <2>2, <3>1, HomeKept
  <2>4. Bind("establish", c) \notin Todo(loopOf[c])'
    BY <1>1, <1>3, <1>4, <1>5, <2>2 DEF FunctorsAtHome
  <2>5. ConnInv(c)'
    BY <1>1, <1>2, <1>3, <2>1, <2>3, <2>4, DestroyedConn
  <2>6. \A d \in Conns \ {c} :
          /\ state'[d] = state[d] /\ loopOf'[d] = loopOf[d] /\ index'[d] = index[d]
          /\ ups'[d] = ups[d] /\ downs'[d] = downs[d]
          /\ d \in connections' <=> d \in connections
          /\ \A l \in Loops, op \in Ops : Bind(op, d) \in Todo(l)' <=> Bind(op, d) \in Todo(l)
    BY <1>3, <2>1, <2>2 DEF ConnectDestroyed, TypeOK
  <2>7. QED
    BY <2>5, <2>6, OtherConns
<1>6. CASE loopOf[c] # Base
  <2>1. PICK k \in Loops : k = loopOf[c] /\ Push(k, Bind("destroy", c))
    BY <1>1, <1>6 DEF DestroyConnection
  <2>2. UNCHANGED <<state, index, downs>>
    BY <1>6 DEF DestroyConnection
  <2>3. /\ Bind("destroy", c) \in Todo(k)'
        /\ \A l \in Loops, op \in Ops :
             /\ Bind(op, c) \in Todo(l)' => Bind(op, c) \in Todo(l) \/ (l = k /\ op = "destroy")
             /\ \A d \in Conns \ {c} : Bind(op, d) \in Todo(l)' <=> Bind(op, d) \in Todo(l)
    BY <1>3, <1>4, <2>1, PushBind
  <2>4. FunctorsAtHome(c)'
    <3>1. \A l \in Loops, op \in Ops : Bind(op, c) \in Todo(l)' =>
            \/ Bind(op, c) \in Todo(l)
            \/ /\ l = IF op = "remove" THEN Base ELSE loopOf[c]
               /\ op # "establish"
               /\ state'[c] # "none"
      BY <1>2, <2>1, <2>2, <2>3
    <3>2. loopOf'[c] = loopOf[c] /\ (state[c] # "none" => state'[c] # "none")
      BY <1>3, <2>2
    <3>3. QED
      BY <1>1, <3>1, <3>2, HomeKept
  <2>5. WillEnd(c)'
    <3>1. Bind("destroy", c) \in Todo(loopOf[c])'
      BY <1>3, <2>1, <2>3
    <3>2. QED
      BY <3>1 DEF WillEnd, Bind
  <2>6. NotYetUp(c)'
    <3>1. Bind("establish", c) \in Todo(loopOf[c])' => Bind("establish", c) \in Todo(loopOf[c])
      BY <1>1, <1>3, <1>4, <2>3
    <3>2. QED
      BY <1>1, <1>3, <2>2, <2>5, <3>1 DEF ConnInv, NotYetUp, Bind
  <2>7. PolledIsUp(c)' /\ Untouched(c)' /\ StateSaysUp(c)'
    BY <1>1, <1>2, <1>3, <2>2, <2>5 DEF ConnInv, PolledIsUp, Untouched, StateSaysUp
  <2>8. ConnInv(c)'
    BY <1>1, <1>3, <2>2, <2>4, <2>6, <2>7 DEF ConnInv
  <2>9. \A d \in Conns \ {c} :
          /\ state'[d] = state[d] /\ loopOf'[d] = loopOf[d] /\ index'[d] = index[d]
          /\ ups'[d] = ups[d] /\ downs'[d] = downs[d]
          /\ d \in connections' <=> d \in connections
          /\ \A l \in Loops, op \in Ops : Bind(op, d) \in Todo(l)' <=> Bind(op, d) \in Todo(l)
    BY <1>3, <2>2, <2>3
  <2>10. QED
    BY <2>8, <2>9, OtherConns
<1>7. QED
  BY <1>5, <1>6

\* Every step of the server keeps what holds of its connections.
LEMMA ConnsStep == ServerInv /\ [Next]_vars => ConnsInv'
<1> SUFFICES ASSUME ServerInv, [Next]_vars PROVE ConnsInv'
  OBVIOUS
<1> USE DEF connVars, loopVars, serverVars, workerVars
<1>1. CASE /\ UNCHANGED <<state, loopOf, index, ups, downs, connections>>
           /\ UNCHANGED <<queue, batch>>
  <2>1. \A l \in Loops : Todo(l)' = Todo(l)
    BY <1>1, QueuesKept
  <2>2. QED
    BY <1>1, <2>1, ConnsKept DEF ServerInv
<1>2. ASSUME NEW c \in Conns, PeerClose(c) \/ AcceptFails(c) PROVE ConnsInv'
  BY <1>1, <1>2 DEF PeerClose, AcceptFails
<1>3. ASSUME NEW l \in Loops, Poll(l) \/ EndBatch(l) PROVE ConnsInv'
  BY <1>1, <1>3 DEF Poll, EndBatch
<1>4. ASSUME NEW l \in Loops, NEW e \in active[l], HandleEvent(l, e) PROVE ConnsInv'
  <2>1. e.kind = "message" \/ e.kind \in {"close", "hangup"}
    BY <1>4 DEF HandleEvent
  <2>2. QED
    BY <1>4, <2>1, MessageStep, CloseStep
<1>5. ASSUME NEW l \in Loops, Swap(l) PROVE ConnsInv'
  <2>1. \A k \in Loops : Todo(k)' = Todo(k)
    BY <1>5, SwapEffect DEF ServerInv
  <2>2. QED
    BY <1>5, <2>1, ConnsKept DEF ServerInv, Swap
<1>6. ASSUME NEW w \in Workers, WorkerStep(w) PROVE ConnsInv'
  <2>1. ASSUME NEW c \in Conns, NEW op \in WorkerOps, BeginCall(w, op, c) PROVE ConnsInv'
    BY <1>1, <2>1 DEF BeginCall
  <2>2. ASSUME NEW c \in Conns, Release(w, c) PROVE ConnsInv'
    BY <1>1, <2>2 DEF Release
  <2>3. QED
    BY <1>6, <2>1, <2>2, FinishCallStep DEF WorkerStep
<1>7. ASSUME NEW n \in 0..Len(Pool), Start(n) PROVE ConnsInv'
  BY <1>1, <1>7 DEF Start
<1>8. CASE BeginDestructor \/ EndDestructor
  BY <1>1, <1>8 DEF BeginDestructor, EndDestructor
<1>9. ASSUME NEW l \in IoLoops, QuitLoop(l) PROVE ConnsInv'
  BY <1>1, <1>9 DEF QuitLoop
<1>10. CASE UNCHANGED vars
  BY <1>1, <1>10 DEF vars
<1>11. QED
  BY <1>2, <1>3, <1>4, <1>5, <1>6, <1>7, <1>8, <1>9, <1>10, NewConnectionStep,
     RunFunctorStep, DestroyConnectionStep DEF Next, HandleAccept, LoopStep, ServerStep

-----------------------------------------------------------------------------
(* Every step keeps the order of the functors.                             *)

\* Only newConnection queues a connectEstablished, for a connection without functors.
LEMMA OrderedStep == ServerInv /\ [Next]_vars => FunctorsOrdered'
<1> SUFFICES ASSUME ServerInv, [Next]_vars PROVE FunctorsOrdered'
  OBVIOUS
<1> USE DEF connVars, loopVars, serverVars, workerVars, ServerInv
<1>1. CASE UNCHANGED <<queue, batch>>
  BY <1>1, QueuesKept
<1>2. ASSUME NEW k \in Loops, NEW p \in Ops, NEW c \in Conns, p # "establish",
             Push(k, Bind(p, c)), UNCHANGED batch
      PROVE  FunctorsOrdered'
  <2>1. Bind(p, c) \in Functor /\ Bind(p, c).op # "establish"
    BY <1>2, BindFacts
  <2>2. QED
    BY <1>2, <2>1, PushEffect
<1>3. {"establish", "remove", "destroy", "complete", "highwater", "send", "shutdown"} = Ops
  BY DEF Ops
<1>4. \A c \in Conns : loopOf[c] \in Loops
  BY DEF TypeOK
<1>5. ASSUME NEW c \in Conns, PeerClose(c) \/ AcceptFails(c) PROVE FunctorsOrdered'
  BY <1>1, <1>5 DEF PeerClose, AcceptFails
<1>6. ASSUME NEW c \in Conns, NewConnection(c) PROVE FunctorsOrdered'
  <2>1. CASE UNCHANGED <<queue, batch>>
    BY <1>1, <2>1
  <2>2. CASE Push(NextLoop, Bind("establish", c)) /\ UNCHANGED batch
    <3>1. PICK k \in Loops : Push(k, Bind("establish", c))
      BY <2>2, NextLoopFacts
    <3>2. Bind("establish", c) \in Functor /\ Bind("establish", c).conn = c
      BY <1>3, <1>6, BindFacts
    <3>3. \A l \in Loops, op \in Ops : Bind(op, c) \notin Todo(l)
      BY <1>6, BacklogFresh DEF NewConnection
    <3>4. ASSUME NEW g \in Todo(k) PROVE g.conn # c
      <4>1. Todo(k) \subseteq Functor
        BY ConcatProperties, RangeOfSeq DEF Todo, Pending, TypeOK
      <4>2. g.op \in Ops /\ g = Bind(g.op, g.conn)
        BY <3>4, <4>1 DEF Functor, Bind
      <4>3. QED
        BY <3>3, <3>4, <4>2
    <3>5. QED
      BY <2>2, <3>1, <3>2, <3>4, PushEffect
  <2>3. QED
    BY <1>6, <2>1, <2>2 DEF NewConnection
<1>7. ASSUME NEW l \in Loops, Poll(l) \/ EndBatch(l) PROVE FunctorsOrdered'
  BY <1>1, <1>7 DEF Poll, EndBatch
<1>8. ASSUME NEW l \in Loops, NEW e \in active[l], HandleEvent(l, e)
      PROVE  FunctorsOrdered'
  <2>1. e.conn \in Conns /\ UNCHANGED batch
    BY <1>8 DEF HandleEvent, TypeOK, Events
  <2>2. PICK c \in Conns : c = e.conn
    BY <2>1
  <2>3. CASE HandleClose(c)
    <3>1. Push(loopOf[c], Bind("destroy", c)) \/ Push(Base, Bind("remove", c))
      BY <2>3 DEF HandleClose, RemoveConnectionInLoop
    <3>2. QED
      BY <1>2, <1>3, <1>4, <2>1, <3>1, PoolFacts
  <2>4. CASE HandleMessage(c)
    <3>1. \/ UNCHANGED queue
          \/ Push(loopOf[c], Bind("complete", c)) \/ Push(loopOf[c], Bind("highwater", c))
      BY <2>4, SendEffect DEF HandleMessage, HandleError
    <3>2. QED
      BY <1>1, <1>2, <1>3, <1>4, <2>1, <3>1
  <2>5. QED
    BY <1>8, <2>2, <2>3, <2>4 DEF HandleEvent
<1>9. ASSUME NEW l \in Loops, Swap(l) PROVE FunctorsOrdered'
  BY <1>9, SwapEffect
<1>10. ASSUME NEW l \in Loops, RunFunctor(l) PROVE FunctorsOrdered'
  <2>1. batch[l] # << >> /\ batch' = [batch EXCEPT ![l] = Tail(@)]
    BY <1>10 DEF RunFunctor
  <2>2. PICK p \in Ops, c \in Conns : Head(batch[l]) = Bind(p, c)
    BY <1>10, HeadBound
  <2>3. Head(batch[l]).conn = c
    BY <2>2, BindFacts
  <2>4. UNCHANGED queue \/ RemoveConnectionInLoop(c) \/ SendInLoop(c)
    BY <1>10, <2>3 DEF RunFunctor
  <2>5. \/ UNCHANGED queue
        \/ Push(loopOf[c], Bind("destroy", c))
        \/ Push(loopOf[c], Bind("complete", c)) \/ Push(loopOf[c], Bind("highwater", c))
    BY <2>4, SendEffect DEF RemoveConnectionInLoop
  <2>6. ASSUME NEW k \in Loops, NEW q \in Ops, q # "establish", Push(k, Bind(q, c))
        PROVE  FunctorsOrdered'
    <3>1. Bind(q, c) \in Functor /\ Bind(q, c).op # "establish"
      BY <2>6, BindFacts
    <3>2. QED
      BY <1>10, <2>1, <2>6, <3>1, PopPushEffect
  <2>7. UNCHANGED queue => FunctorsOrdered'
    BY <1>10, <2>1, PopEffect
  <2>8. QED
    BY <1>3, <1>4, <2>5, <2>6, <2>7
<1>11. ASSUME NEW w \in Workers, WorkerStep(w) PROVE FunctorsOrdered'
  <2>1. ASSUME NEW c \in Conns, NEW op \in WorkerOps, BeginCall(w, op, c)
        PROVE  FunctorsOrdered'
    BY <1>1, <2>1 DEF BeginCall
  <2>2. ASSUME NEW c \in Conns, Release(w, c) PROVE FunctorsOrdered'
    BY <1>1, <2>2 DEF Release
  <2>3. CASE FinishCall(w)
    <3>1. call[w] \in Functor /\ call[w].op \in WorkerOps
      BY <1>11, <2>3 DEF FinishCall, WorkersHoldUp, TypeOK
    <3>2. call[w].op # "establish"
      BY <3>1, ServerAssumption
    <3>3. PICK k \in Loops, f \in Functor : Push(k, f) /\ f.op # "establish"
      BY <2>3, <3>1, <3>2 DEF FinishCall, TypeOK, Functor
    <3>4. UNCHANGED batch
      BY <2>3 DEF FinishCall
    <3>5. QED
      BY <3>3, <3>4, PushEffect
  <2>4. QED
    BY <1>11, <2>1, <2>2, <2>3 DEF WorkerStep
<1>12. ASSUME NEW n \in 0..Len(Pool), Start(n) PROVE FunctorsOrdered'
  BY <1>1, <1>12 DEF Start
<1>13. CASE BeginDestructor \/ EndDestructor
  BY <1>1, <1>13 DEF BeginDestructor, EndDestructor
<1>14. ASSUME NEW c \in Conns, DestroyConnection(c) PROVE FunctorsOrdered'
  BY <1>1, <1>2, <1>3, <1>4, <1>14 DEF DestroyConnection
<1>15. ASSUME NEW l \in IoLoops, QuitLoop(l) PROVE FunctorsOrdered'
  BY <1>1, <1>15 DEF QuitLoop
<1>16. CASE UNCHANGED vars
  BY <1>1, <1>16 DEF vars
<1>17. QED
  BY <1>5, <1>6, <1>7, <1>8, <1>9, <1>10, <1>11, <1>12, <1>13, <1>14, <1>15, <1>16
     DEF Next, HandleAccept, LoopStep, ServerStep

-----------------------------------------------------------------------------
(* Every step keeps what holds of the user threads and of the batches.     *)

\* connectEstablished hands out a connection that is up then.
LEMMA WorkersStep == ServerInv /\ [Next]_vars => WorkersHoldUp'
<1> SUFFICES ASSUME ServerInv, [Next]_vars PROVE WorkersHoldUp'
  OBVIOUS
<1> USE DEF connVars, loopVars, serverVars, workerVars, ServerInv
<1>1. CASE UNCHANGED <<held, call, ups>>
  BY <1>1 DEF WorkersHoldUp
<1>2. ASSUME NEW c \in Conns, ConnectEstablished(c), ups[c] = 0, UNCHANGED call
      PROVE  WorkersHoldUp'
  <2>1. ups'[c] = 1 /\ \A d \in Conns \ {c} : ups'[d] = ups[d]
    BY <1>2 DEF ConnectEstablished, TypeOK
  <2>2. \A w \in Workers : held[w] \subseteq held'[w] /\ held'[w] \subseteq held[w] \cup {c}
    BY <1>2 DEF ConnectEstablished
  <2>3. \A w \in Workers : held[w] \subseteq Conns
    BY DEF TypeOK
  <2>4. QED
    BY <1>2, <2>1, <2>2, <2>3 DEF WorkersHoldUp
<1>3. ASSUME NEW c \in Conns, PeerClose(c) \/ AcceptFails(c) PROVE WorkersHoldUp'
  BY <1>1, <1>3 DEF PeerClose, AcceptFails
<1>4. ASSUME NEW c \in Conns, NewConnection(c) PROVE WorkersHoldUp'
  <2>1. ups[c] = 0 /\ UNCHANGED call
    BY <1>4, BacklogFresh DEF NewConnection
  <2>2. QED
    BY <1>1, <1>2, <1>4, <2>1 DEF NewConnection
<1>5. ASSUME NEW l \in Loops, Poll(l) \/ EndBatch(l) \/ Swap(l) PROVE WorkersHoldUp'
  BY <1>1, <1>5 DEF Poll, EndBatch, Swap
<1>6. ASSUME NEW l \in Loops, NEW e \in active[l], HandleEvent(l, e) PROVE WorkersHoldUp'
  BY <1>1, <1>6 DEF HandleEvent
<1>7. ASSUME NEW l \in Loops, RunFunctor(l) PROVE WorkersHoldUp'
  <2>1. PICK p \in Ops, c \in Conns :
          /\ Head(batch[l]) = Bind(p, c) /\ Bind(p, c) \in Todo(l)
          /\ l = IF p = "remove" THEN Base ELSE loopOf[c]
    BY <1>7, HeadBound
  <2>2. Head(batch[l]).op = p /\ Head(batch[l]).conn = c
    BY <2>1, BindFacts
  <2>3. CASE p = "establish"
    <3>1. ConnectEstablished(c) /\ UNCHANGED call
      BY <1>7, <2>2, <2>3 DEF RunFunctor
    <3>2. ups[c] = 0
      BY <2>1, <2>3 DEF ConnsInv, ConnInv, NotYetUp
    <3>3. QED
      BY <1>2, <3>1, <3>2
  <2>4. CASE p # "establish"
    BY <1>1, <1>7, <2>2, <2>4 DEF RunFunctor
  <2>5. QED
    BY <2>3, <2>4
<1>8. ASSUME NEW w \in Workers, WorkerStep(w) PROVE WorkersHoldUp'
  <2>1. ASSUME NEW c \in Conns, NEW op \in WorkerOps, BeginCall(w, op, c)
        PROVE  WorkersHoldUp'
    BY <2>1 DEF BeginCall, WorkersHoldUp, TypeOK, Bind
  <2>2. ASSUME NEW c \in Conns, Release(w, c) PROVE WorkersHoldUp'
    BY <2>2 DEF Release, WorkersHoldUp, TypeOK
  <2>3. CASE FinishCall(w)
    BY <2>3 DEF FinishCall, WorkersHoldUp, TypeOK
  <2>4. QED
    BY <1>8, <2>1, <2>2, <2>3 DEF WorkerStep
<1>9. ASSUME NEW n \in 0..Len(Pool), Start(n) PROVE WorkersHoldUp'
  BY <1>1, <1>9 DEF Start
<1>10. CASE BeginDestructor \/ EndDestructor
  BY <1>1, <1>10 DEF BeginDestructor, EndDestructor
<1>11. ASSUME NEW c \in Conns, DestroyConnection(c) PROVE WorkersHoldUp'
  BY <1>1, <1>11 DEF DestroyConnection
<1>12. ASSUME NEW l \in IoLoops, QuitLoop(l) PROVE WorkersHoldUp'
  BY <1>1, <1>12 DEF QuitLoop
<1>13. CASE UNCHANGED vars
  BY <1>1, <1>13 DEF vars
<1>14. QED
  BY <1>3, <1>4, <1>5, <1>6, <1>7, <1>8, <1>9, <1>10, <1>11, <1>12, <1>13
     DEF Next, HandleAccept, LoopStep, ServerStep

\* A loop that handles an event, or runs a functor, blocks itself at most.
LEMMA BlocksItself ==
  ASSUME ServerInv, NEW l \in Loops,
         RunFunctor(l) \/ \E e \in active[l] : HandleEvent(l, e)
  PROVE  /\ phase[l] \in {"events", "functors"}
         /\ UNCHANGED phase \/ phase' = [phase EXCEPT ![l] = "hung"]
<1> USE DEF ServerInv
<1>1. CASE RunFunctor(l)
  <2>1. PICK p \in Ops, c \in Conns :
          /\ Head(batch[l]) = Bind(p, c)
          /\ l = IF p = "remove" THEN Base ELSE loopOf[c]
    BY <1>1, HeadBound
  <2>2. Head(batch[l]).op = p /\ Head(batch[l]).conn = c
    BY <2>1, BindFacts
  <2>3. UNCHANGED phase \/ (p = "send" /\ SendInLoop(c))
    BY <1>1, <2>2 DEF RunFunctor
  <2>4. UNCHANGED phase \/ phase' = [phase EXCEPT ![l] = "hung"]
    BY <2>1, <2>3 DEF SendInLoop, BlockOnRing
  <2>5. QED
    BY <1>1, <2>4 DEF RunFunctor
<1>2. ASSUME NEW e \in active[l], HandleEvent(l, e)
      PROVE  /\ phase[l] \in {"events", "functors"}
             /\ UNCHANGED phase \/ phase' = [phase EXCEPT ![l] = "hung"]
  <2>1. phase[l] = "events"
    BY <1>2 DEF HandleEvent
  <2>2. e.kind = "message" => loopOf[e.conn] = l
    BY <1>2 DEF ActiveIsFresh, ActiveOf, Kinds
  <2>3. UNCHANGED phase \/ (e.kind = "message" /\ HandleMessage(e.conn))
    BY <1>2 DEF HandleEvent
  <2>4. QED
    BY <2>1, <2>2, <2>3 DEF HandleMessage, HandleError, SendInLoop, BlockOnRing
<1>3. QED
  BY <1>1, <1>2

\* doPendingFunctors swaps into an empty vector and empties it.
LEMMA BatchStep == ServerInv /\ [Next]_vars => BatchShared'
<1> SUFFICES ASSUME ServerInv, [Next]_vars PROVE BatchShared'
  OBVIOUS
<1> USE DEF connVars, loopVars, serverVars, workerVars, ServerInv
<1>1. CASE UNCHANGED <<phase, batch, refs>>
  BY <1>1 DEF BatchShared, SharedBy, Shares
<1>2. phase \in [Loops -> {"poll", "events", "functors", "hung", "stopped"}]
  BY DEF TypeOK
<1>3. ASSUME NEW l \in Loops, UNCHANGED <<batch, refs>>,
             \E p : /\ phase' = [phase EXCEPT ![l] = p]
                    /\ p \in {"poll", "events", "stopped"} =>
                         phase[l] \in {"poll", "events", "stopped"}
      PROVE  BatchShared'
  BY <1>2, <1>3 DEF BatchShared, SharedBy, Shares
<1>4. ASSUME NEW c \in Conns,
             PeerClose(c) \/ AcceptFails(c) \/ NewConnection(c) \/ DestroyConnection(c)
      PROVE BatchShared'
  BY <1>1, <1>4 DEF PeerClose, AcceptFails, NewConnection, DestroyConnection
<1>5. ASSUME NEW l \in Loops, Poll(l) PROVE BatchShared'
  BY <1>3, <1>5 DEF Poll
<1>6. ASSUME NEW l \in Loops, NEW e \in active[l], HandleEvent(l, e) PROVE BatchShared'
  <2>1. UNCHANGED <<batch, refs>>
    BY <1>6 DEF HandleEvent
  <2>2. UNCHANGED phase \/ phase' = [phase EXCEPT ![l] = "hung"]
    BY <1>6, BlocksItself
  <2>3. QED
    BY <1>1, <1>3, <1>6, <2>1, <2>2
<1>7. ASSUME NEW l \in Loops, Swap(l) PROVE BatchShared'
  <2> SUFFICES ASSUME NEW k \in Loops
               PROVE  /\ phase'[k] \in {"poll", "events", "stopped"} => batch'[k] = << >>
                      /\ SharedBy(batch'[k]) \subseteq refs'[k]
    BY DEF BatchShared, SharedBy, Shares
  <2>1. CASE k = l
    BY <1>2, <1>7, <2>1 DEF Swap, TypeOK
  <2>2. CASE k # l
    BY <1>7, <2>2 DEF Swap, TypeOK, BatchShared
  <2>3. QED
    BY <2>1, <2>2
<1>8. ASSUME NEW l \in Loops, RunFunctor(l) PROVE BatchShared'
  <2> SUFFICES ASSUME NEW k \in Loops
               PROVE  /\ phase'[k] \in {"poll", "events", "stopped"} => batch'[k] = << >>
                      /\ SharedBy(batch'[k]) \subseteq refs'[k]
    BY DEF BatchShared, SharedBy, Shares
  <2>1. /\ phase[l] = "functors" /\ batch[l] # << >> /\ UNCHANGED refs
        /\ batch' = [batch EXCEPT ![l] = Tail(@)]
    BY <1>8 DEF RunFunctor
  <2>2. UNCHANGED phase \/ phase' = [phase EXCEPT ![l] = "hung"]
    BY <1>8, BlocksItself
  <2>3. CASE k = l
    <3>1. batch[l] \in Seq(Functor) /\ batch'[l] = Tail(batch[l])
      BY <2>1 DEF TypeOK
    <3>2. Range(Tail(batch[l])) \subseteq Range(batch[l])
      BY <2>1, <3>1, RangeOfTail
    <3>3. SharedBy(Tail(batch[l])) \subseteq SharedBy(batch[l])
      BY <3>2 DEF SharedBy
    <3>4. phase'[l] \in {"functors", "hung"}
      BY <1>2, <2>1, <2>2
    <3>5. QED
      BY <2>1, <2>3, <3>1, <3>3, <3>4 DEF BatchShared
  <2>4. CASE k # l
    <3>1. batch'[k] = batch[k] /\ refs'[k] = refs[k] /\ phase'[k] = phase[k]
      BY <1>2, <2>1, <2>2, <2>4 DEF TypeOK
    <3>2. QED
      BY <3>1 DEF BatchShared
  <2>5. QED
    BY <2>3, <2>4
<1>9. ASSUME NEW l \in Loops, EndBatch(l) PROVE BatchShared'
  <2> SUFFICES ASSUME NEW k \in Loops
               PROVE  /\ phase'[k] \in {"poll", "events", "stopped"} => batch'[k] = << >>
                      /\ SharedBy(batch'[k]) \subseteq refs'[k]
    BY DEF BatchShared, SharedBy, Shares
  <2>1. CASE k = l
    <3>1. batch'[l] = << >>
      BY <1>9 DEF EndBatch
    <3>2. SharedBy(<< >>) = {}
      BY RangeOfEmpty DEF SharedBy
    <3>3. QED
      BY <2>1, <3>1, <3>2
  <2>2. CASE k # l
    <3>1. batch'[k] = batch[k] /\ refs'[k] = refs[k] /\ phase'[k] = phase[k]
      BY <1>9, <2>2 DEF EndBatch, TypeOK
    <3>2. QED
      BY <3>1 DEF BatchShared
  <2>3. QED
    BY <2>1, <2>2
<1>10. ASSUME NEW w \in Workers, WorkerStep(w) PROVE BatchShared'
  BY <1>1, <1>10 DEF WorkerStep, BeginCall, FinishCall, Release
<1>11. ASSUME NEW n \in 0..Len(Pool), Start(n) PROVE BatchShared'
  BY <1>1, <1>11 DEF Start
<1>12. CASE BeginDestructor
  BY <1>3, <1>12, PoolFacts DEF BeginDestructor
<1>13. CASE EndDestructor
  BY <1>1, <1>13 DEF EndDestructor
<1>14. ASSUME NEW l \in IoLoops, QuitLoop(l) PROVE BatchShared'
  BY <1>1, <1>14 DEF QuitLoop
<1>15. CASE UNCHANGED vars
  BY <1>1, <1>15 DEF vars
<1>16. QED
  BY <1>4, <1>5, <1>6, <1>7, <1>8, <1>9, <1>10, <1>11, <1>12, <1>13, <1>14, <1>15
     DEF Next, HandleAccept, LoopStep, ServerStep

-----------------------------------------------------------------------------
(* Every step keeps what holds of the server's phases.                     *)

\* A loop that has returned from EventLoop::loop does not run again.
LEMMA StoppedStays ==
  ASSUME ServerInv, [Next]_vars, NEW k \in Loops, phase[k] = "stopped"
  PROVE  phase'[k] = "stopped"
<1> USE DEF connVars, loopVars, serverVars, workerVars, ServerInv
<1>1. phase \in [Loops -> {"poll", "events", "functors", "hung", "stopped"}]
  BY DEF TypeOK
<1>2. CASE UNCHANGED phase
  BY <1>2
<1>3. ASSUME NEW l \in Loops, Poll(l) \/ Swap(l) \/ EndBatch(l) PROVE phase'[k] = "stopped"
  BY <1>1, <1>3 DEF Poll, Swap, EndBatch
<1>4. ASSUME NEW l \in Loops, RunFunctor(l) \/ \E e \in active[l] : HandleEvent(l, e)
      PROVE  phase'[k] = "stopped"
  <2>1. /\ phase[l] \in {"events", "functors"}
        /\ UNCHANGED phase \/ phase' = [phase EXCEPT ![l] = "hung"]
    BY <1>4, BlocksItself
  <2>2. QED
    BY <1>1, <2>1
<1>5. ASSUME NEW c \in Conns,
             PeerClose(c) \/ AcceptFails(c) \/ NewConnection(c) \/ DestroyConnection(c)
      PROVE UNCHANGED phase
  BY <1>5 DEF PeerClose, AcceptFails, NewConnection, DestroyConnection
<1>6. ASSUME NEW w \in Workers, WorkerStep(w) PROVE UNCHANGED phase
  BY <1>6 DEF WorkerStep, BeginCall, FinishCall, Release
<1>7. CASE ServerStep
  <2>1. CASE BeginDestructor
    BY <1>1, <2>1 DEF BeginDestructor
  <2>2. CASE ~ BeginDestructor
    BY <1>2, <1>5, <1>7, <2>2 DEF ServerStep, Start, QuitLoop, EndDestructor
  <2>3. QED
    BY <2>1, <2>2
<1>8. CASE UNCHANGED vars
  BY <1>8 DEF vars
<1>9. QED
  BY <1>2, <1>3, <1>4, <1>5, <1>6, <1>7, <1>8 DEF Next, HandleAccept, LoopStep

\* Nothing is accepted before start, or after ~TcpServer has begun.
LEMMA PhasesStep == ServerInv /\ [Next]_vars => ServerPhases'
<1> SUFFICES ASSUME ServerInv, [Next]_vars PROVE ServerPhases'
  OBVIOUS
<1> USE DEF connVars, loopVars, serverVars, workerVars, ServerInv
<1>1. \A k \in Loops : phase[k] = "stopped" => phase'[k] = "stopped"
  BY StoppedStays
<1>2. Base \in Loops /\ IoLoops \subseteq Loops /\ Base \notin IoLoops
  BY NextLoopFacts, PoolFacts, ServerAssumption
<1>3. ASSUME UNCHANGED <<server, threads, loopOf>>, connections' \subseteq connections,
             server = "new" => UNCHANGED state
      PROVE  ServerPhases'
  <2>1. IoLoops' = IoLoops
    BY <1>3 DEF IoLoops
  <2>2. QED
    BY <1>1, <1>2, <1>3, <2>1 DEF ServerPhases
<1>4. ASSUME NEW c \in Conns, PeerClose(c) \/ AcceptFails(c) \/ DestroyConnection(c)
      PROVE  ServerPhases'
  BY <1>3, <1>4 DEF PeerClose, AcceptFails, DestroyConnection
<1>5. ASSUME NEW c \in Conns, NewConnection(c) PROVE ServerPhases'
  <2>1. server # "new" /\ phase[Base] = "events"
    BY <1>5, BacklogFresh DEF NewConnection
  <2>2. server = "up"
    BY <2>1 DEF ServerPhases, TypeOK
  <2>3. UNCHANGED <<server, threads>> /\ loopOf' = [loopOf EXCEPT ![c] = NextLoop]
    BY <1>5 DEF NewConnection
  <2>4. IoLoops' = IoLoops /\ NextLoop \in {Base} \cup IoLoops
    BY <2>3, NextLoopFacts DEF IoLoops
  <2>5. \A d \in Conns : loopOf'[d] \in {Base} \cup IoLoops
    BY <2>3, <2>4 DEF ServerPhases, TypeOK
  <2>6. QED
    BY <2>2, <2>3, <2>4, <2>5 DEF ServerPhases
<1>6. ASSUME NEW l \in Loops, Poll(l) \/ Swap(l) \/ EndBatch(l) PROVE ServerPhases'
  BY <1>3, <1>6 DEF Poll, Swap, EndBatch
<1>7. ASSUME NEW l \in Loops, NEW e \in active[l], HandleEvent(l, e) PROVE ServerPhases'
  <2>1. e.conn \in Conns /\ index[e.conn] = "kAdded"
    BY <1>7 DEF HandleEvent, TypeOK, Events, ActiveIsFresh, ActiveOf, Kinds
  <2>2. state[e.conn] # "none"
    BY <2>1 DEF ConnsInv, ConnInv, PolledIsUp, Untouched
  <2>3. server # "new"
    BY <2>1, <2>2 DEF ServerPhases
  <2>4. UNCHANGED <<server, threads, loopOf>> /\ connections' \subseteq connections
    BY <1>7 DEF HandleEvent, HandleClose, RemoveConnectionInLoop
  <2>5. QED
    BY <1>3, <2>3, <2>4
<1>8. ASSUME NEW l \in Loops, RunFunctor(l) PROVE ServerPhases'
  <2>1. \E c \in Conns : state[c] # "none"
    BY <1>8, HeadBound
  <2>2. server # "new"
    BY <2>1 DEF ServerPhases
  <2>3. UNCHANGED <<server, threads, loopOf>> /\ connections' \subseteq connections
    BY <1>8 DEF RunFunctor, RemoveConnectionInLoop
  <2>4. QED
    BY <1>3, <2>2, <2>3
<1>9. ASSUME NEW w \in Workers, WorkerStep(w) PROVE ServerPhases'
  <2>1. CASE FinishCall(w)
    <3>1. call[w].conn \in Conns /\ ups[call[w].conn] = 1
      BY <2>1 DEF FinishCall, WorkersHoldUp, TypeOK, Functor
    <3>2. server # "new"
      BY <3>1 DEF ServerPhases, ConnsInv, ConnInv, Untouched
    <3>3. QED
      BY <1>3, <2>1, <3>2 DEF FinishCall
  <2>2. CASE ~ FinishCall(w)
    BY <1>3, <1>9, <2>2 DEF WorkerStep, BeginCall, Release
  <2>3. QED
    BY <2>1, <2>2
<1>10. ASSUME NEW n \in 0..Len(Pool), Start(n) PROVE ServerPhases'
  <2>1. \A c \in Conns : loopOf'[c] = Base
    BY <1>10 DEF Start, ServerPhases, ConnsInv, ConnInv, Untouched
  <2>2. server' = "up"
    BY <1>10 DEF Start
  <2>3. QED
    BY <2>1, <2>2 DEF ServerPhases
<1>11. CASE BeginDestructor
  <2>1. server' = "closing" /\ phase'[Base] = "stopped" /\ UNCHANGED <<threads, loopOf>>
    BY <1>2, <1>11 DEF BeginDestructor, TypeOK
  <2>2. IoLoops' = IoLoops
    BY <2>1 DEF IoLoops
  <2>3. QED
    BY <2>1, <2>2 DEF ServerPhases
<1>12. ASSUME NEW l \in IoLoops, QuitLoop(l) PROVE ServerPhases'
  BY <1>3, <1>12 DEF QuitLoop
<1>13. CASE EndDestructor
  <2>1. /\ server = "closing" /\ server' = "gone" /\ connections = {}
        /\ \A l \in IoLoops : phase[l] = "stopped"
        /\ UNCHANGED <<threads, loopOf, phase, connections>>
    BY <1>13 DEF EndDestructor
  <2>2. IoLoops' = IoLoops
    BY <2>1 DEF IoLoops
  <2>3. QED
    BY <2>1, <2>2 DEF ServerPhases
<1>14. CASE UNCHANGED vars
  BY <1>3, <1>14 DEF vars
<1>15. QED
  BY <1>4, <1>5, <1>6, <1>7, <1>8, <1>9, <1>10, <1>11, <1>12, <1>13, <1>14
     DEF Next, HandleAccept, LoopStep, ServerStep

-----------------------------------------------------------------------------
(* Every step keeps what holds of the reported events.                     *)

\* Events that a step leaves in the list are still to be handled.
LEMMA EventsKept ==
  ASSUME ServerInv, NEW l \in Loops,
         \/ phase'[l] = phase[l] \/ phase'[l] = "hung" \/ active'[l] = {},
         active'[l] \subseteq active[l],
         server = "new" \/ server' # "new",
         \A e \in active'[l] :
           /\ e.kind \in Kinds => /\ loopOf'[e.conn] = loopOf[e.conn]
                                  /\ index'[e.conn] = "kAdded"
           /\ e.kind = "accept" => state'[e.conn] = "none"
  PROVE  ActiveOf(l)'
<1>1. ActiveOf(l)
  BY DEF ServerInv, ActiveIsFresh, ActiveOf
<1>2. phase'[l] \notin {"events", "hung"} => active'[l] = {}
  BY <1>1 DEF ActiveOf
<1>3. ASSUME NEW e \in active'[l]
      PROVE  /\ e.kind \in Kinds => loopOf'[e.conn] = l /\ index'[e.conn] = "kAdded"
             /\ e.kind = "accept" => l = Base /\ state'[e.conn] = "none" /\ server' # "new"
             /\ \A d \in active'[l] : e # d => e.conn # d.conn
  BY <1>1, <1>3 DEF ActiveOf
<1>4. QED
  BY <1>2, <1>3 DEF ActiveOf, Kinds

\* Only the loop of an accepted connection has events of it.
LEMMA EventsElsewhere ==
  ASSUME ServerInv, NEW c \in Conns, state[c] # "none", NEW k \in Loops, k # loopOf[c],
         NEW e \in active[k]
  PROVE  e.conn # c
<1>1. e.kind \in Kinds \cup {"accept"}
  BY DEF ServerInv, TypeOK, Events
<1>2. QED
  BY <1>1 DEF ServerInv, ActiveIsFresh, ActiveOf

\* What epoll_wait reports is to be handled by the loop that polls.
LEMMA PollReportsFresh ==
  ASSUME ServerInv, NEW l \in Loops, Poll(l)
  PROVE  ActiveOf(l)'
<1> USE DEF connVars, serverVars
<1>1. PICK S \in SUBSET Reportable(l) :
        /\ \A e, d \in S : e # d => e.conn # d.conn
        /\ active' = [active EXCEPT ![l] = S]
  BY DEF Poll
<1>2. active'[l] = S /\ phase'[l] = "events" /\ UNCHANGED <<loopOf, index, state, server>>
  BY <1>1 DEF Poll, ServerInv, TypeOK
<1>3. ASSUME NEW e \in S
      PROVE  /\ e.kind \in Kinds => loopOf[e.conn] = l /\ index[e.conn] = "kAdded"
             /\ e.kind = "accept" => l = Base /\ state[e.conn] = "none" /\ server # "new"
  <2>1. CASE e \in AcceptEvents(l)
    BY <2>1 DEF AcceptEvents, Kinds
  <2>2. ASSUME NEW d \in Conns, loopOf[d] = l, e \in ReadyEvents(d)
        PROVE  e.conn = d /\ e.kind \in Kinds /\ index[d] = "kAdded"
    BY <2>2 DEF ReadyEvents
  <2>3. "accept" \notin Kinds
    BY DEF Kinds
  <2>4. QED
    BY <1>3, <2>1, <2>2, <2>3 DEF Reportable
<1>4. QED
  BY <1>1, <1>2, <1>3 DEF ActiveOf, Kinds

\* Events are handled before the functors that could make them stale.
LEMMA ActiveStep == ServerInv /\ [Next]_vars => ActiveIsFresh'
<1> SUFFICES ASSUME ServerInv, [Next]_vars, NEW k \in Loops PROVE ActiveOf(k)'
  BY DEF ActiveIsFresh
<1> USE DEF connVars, loopVars, serverVars, workerVars
<1>1. ActiveOf(k)
  BY DEF ServerInv, ActiveIsFresh
<1>2. /\ phase \in [Loops -> {"poll", "events", "functors", "hung", "stopped"}]
      /\ active \in [Loops -> SUBSET Events]
      /\ \A e \in active[k] : e.conn \in Conns
  BY DEF ServerInv, TypeOK, Events
<1>3. CASE /\ UNCHANGED <<phase, active, loopOf, index, state>>
           /\ server = "new" \/ server' # "new"
  BY <1>1, <1>3, EventsKept DEF ActiveOf
<1>4. ASSUME NEW c \in Conns, PeerClose(c) PROVE ActiveOf(k)'
  BY <1>3, <1>4 DEF PeerClose
<1>5. ASSUME NEW c \in Conns, AcceptFails(c) PROVE ActiveOf(k)'
  <2>1. active'[k] \subseteq active[k] /\ UNCHANGED <<phase, loopOf, index, state, server>>
    BY <1>2, <1>5 DEF AcceptFails, Accept
  <2>2. QED
    BY <1>1, <2>1, EventsKept DEF ActiveOf
<1>6. ASSUME NEW c \in Conns, NewConnection(c) PROVE ActiveOf(k)'
  <2>1. loopOf[c] = Base
    BY <1>6, BacklogFresh DEF NewConnection, ServerInv
  <2>2. /\ active'[k] \subseteq active[k]
        /\ k = Base => active'[k] = active[k] \ {[kind |-> "accept", conn |-> c]}
        /\ [kind |-> "accept", conn |-> c] \in active[Base]
    BY <1>2, <1>6 DEF NewConnection, Accept
  <2>3. \A d \in Conns \ {c} :
          loopOf'[d] = loopOf[d] /\ index'[d] = index[d] /\ state'[d] = state[d]
    BY <1>6 DEF NewConnection, ConnectEstablished, SetEvents, ServerInv, TypeOK
  <2>4. ASSUME NEW e \in active'[k] PROVE e.conn # c
    <3>1. e \in active[k] /\ e.kind \in Kinds \cup {"accept"}
      BY <1>2, <2>2, <2>4 DEF Events
    <3>2. CASE k = Base
      BY <1>1, <2>2, <2>4, <3>1, <3>2 DEF ActiveOf
    <3>3. CASE k # Base
      BY <1>1, <2>1, <3>1, <3>3 DEF ActiveOf
    <3>4. QED
      BY <3>2, <3>3
  <2>5. UNCHANGED <<phase, server>>
    BY <1>6 DEF NewConnection
  <2>6. QED
    BY <1>1, <1>2, <2>2, <2>3, <2>4, <2>5, EventsKept DEF ActiveOf
<1>7. ASSUME NEW l \in Loops, Poll(l) PROVE ActiveOf(k)'
  <2>1. CASE k = l
    BY <1>7, <2>1, PollReportsFresh
  <2>2. CASE k # l
    <3>1. /\ active'[k] = active[k] /\ phase'[k] = phase[k]
          /\ UNCHANGED <<loopOf, index, state, server>>
      BY <1>2, <1>7, <2>2 DEF Poll
    <3>2. QED
      BY <1>1, <3>1, EventsKept DEF ActiveOf
  <2>3. QED
    BY <2>1, <2>2
<1>8. ASSUME NEW l \in Loops, NEW e \in active[l], HandleEvent(l, e) PROVE ActiveOf(k)'
  <2>1. PICK c \in Conns : c = e.conn
    BY <1>8 DEF ServerInv, TypeOK, Events
  <2>2. /\ loopOf[c] = l /\ index[c] = "kAdded"
        /\ \A d \in active[l] : d # e => d.conn # c
    BY <1>8, <2>1 DEF HandleEvent, ServerInv, ActiveIsFresh, ActiveOf, Kinds
  <2>3. state[c] # "none"
    BY <2>2 DEF ServerInv, ConnsInv, ConnInv, PolledIsUp, Untouched
  <2>4. active' = [active EXCEPT ![l] = @ \ {e}]
    BY <1>8 DEF HandleEvent
  <2>5. active'[k] \subseteq active[k]
    BY <1>2, <2>4
  <2>6. ASSUME NEW d \in active'[k] PROVE d.conn # c
    BY <1>2, <2>2, <2>3, <2>4, <2>5, <2>6, EventsElsewhere
  <2>7. phase'[k] = phase[k] \/ phase'[k] = "hung"
    BY <1>2, <1>8, BlocksItself
  <2>8. UNCHANGED <<loopOf, server>>
    BY <1>8 DEF HandleEvent
  <2>9. \A d \in Conns \ {c} : index'[d] = index[d] /\ state'[d] = state[d]
    BY <1>8, <2>1 DEF HandleEvent, HandleMessage, HandleError, HandleClose, SetEvents,
       ServerInv, TypeOK
  <2>10. QED
    BY <1>1, <1>2, <2>5, <2>6, <2>7, <2>8, <2>9, EventsKept DEF ActiveOf
<1>9. ASSUME NEW l \in Loops, Swap(l) \/ EndBatch(l) PROVE ActiveOf(k)'
  <2>1. active' = active /\ UNCHANGED <<loopOf, index, state, server>>
    BY <1>9 DEF Swap, EndBatch
  <2>2. active[l] = {}
    BY <1>9 DEF Swap, EndBatch, ServerInv, ActiveIsFresh, ActiveOf
  <2>3. phase'[k] = phase[k] \/ k = l
    BY <1>2, <1>9 DEF Swap, EndBatch
  <2>4. QED
    BY <1>1, <2>1, <2>2, <2>3, EventsKept DEF ActiveOf
<1>10. ASSUME NEW l \in Loops, RunFunctor(l) PROVE ActiveOf(k)'
  <2>1. PICK p \in Ops, c \in Conns :
          /\ Head(batch[l]) = Bind(p, c) /\ state[c] # "none"
          /\ l = IF p = "remove" THEN Base ELSE loopOf[c]
    BY <1>10, HeadBound DEF ServerInv
  <2>2. Head(batch[l]).op = p /\ Head(batch[l]).conn = c
    BY <2>1, BindFacts
  <2>3. active' = active /\ active[l] = {} /\ UNCHANGED <<loopOf, server>>
    BY <1>10 DEF RunFunctor, ServerInv, ActiveIsFresh, ActiveOf
  <2>4. phase'[k] = phase[k] \/ phase'[k] = "hung"
    BY <1>2, <1>10, BlocksItself
  <2>5. CASE p = "remove"
    <3>1. UNCHANGED <<index, state>>
      BY <1>10, <2>2, <2>5 DEF RunFunctor
    <3>2. QED
      BY <1>1, <2>3, <2>4, <3>1, EventsKept DEF ActiveOf
  <2>6. CASE p # "remove"
    <3>1. ASSUME NEW d \in active[k] PROVE d.conn # c
      BY <2>1, <2>3, <2>6, <3>1, EventsElsewhere
    <3>2. \A d \in Conns \ {c} : index'[d] = index[d] /\ state'[d] = state[d]
      BY <1>10, <2>2, <2>6 DEF RunFunctor, ConnectEstablished, ConnectDestroyed,
         SetEvents, ServerInv, TypeOK
    <3>3. QED
      BY <1>1, <1>2, <2>3, <2>4, <3>1, <3>2, EventsKept DEF ActiveOf
  <2>7. QED
    BY <2>5, <2>6
<1>11. ASSUME NEW w \in Workers, WorkerStep(w) PROVE ActiveOf(k)'
  <2>1. CASE FinishCall(w)
    <3>1. PICK c \in Conns : c = call[w].conn /\ ups[c] = 1
      BY <2>1 DEF FinishCall, ServerInv, WorkersHoldUp, TypeOK, Functor
    <3>2. state[c] # "none"
      BY <3>1 DEF ServerInv, ConnsInv, ConnInv, Untouched
    <3>3. \A d \in Conns : state[d] = "none" => state'[d] = "none"
      BY <2>1, <3>1, <3>2 DEF FinishCall, ServerInv, TypeOK
    <3>4. UNCHANGED <<phase, active, loopOf, index, server>>
      BY <2>1 DEF FinishCall
    <3>5. QED
      BY <1>1, <1>2, <3>3, <3>4, EventsKept DEF ActiveOf
  <2>2. CASE ~ FinishCall(w)
    BY <1>3, <1>11, <2>2 DEF WorkerStep, BeginCall, Release
  <2>3. QED
    BY <2>1, <2>2
<1>12. ASSUME NEW n \in 0..Len(Pool), Start(n) PROVE ActiveOf(k)'
  BY <1>3, <1>12 DEF Start
<1>13. CASE BeginDestructor
  <2>1. active[Base] = {}
    BY <1>13, PoolFacts DEF BeginDestructor, ServerInv, ActiveIsFresh, ActiveOf
  <2>2. phase'[k] = phase[k] \/ k = Base
    BY <1>2, <1>13 DEF BeginDestructor
  <2>3. UNCHANGED <<active, loopOf, index, state>> /\ server' # "new"
    BY <1>13 DEF BeginDestructor
  <2>4. QED
    BY <1>1, <2>1, <2>2, <2>3, EventsKept DEF ActiveOf
<1>14. ASSUME NEW c \in Conns, DestroyConnection(c) PROVE ActiveOf(k)'
  <2>1. UNCHANGED <<phase, active, loopOf, server>>
    BY <1>14 DEF DestroyConnection
  <2>2. CASE loopOf[c] # Base
    BY <1>3, <1>14, <2>1, <2>2 DEF DestroyConnection
  <2>3. CASE loopOf[c] = Base
    <3>1. state[c] # "none"
      BY <1>14 DEF DestroyConnection, ServerInv, ConnsInv, ConnInv, Untouched
    <3>2. active[Base] = {}
      BY <1>14, PoolFacts DEF DestroyConnection, ServerInv, ServerPhases, ActiveIsFresh,
         ActiveOf
    <3>3. ASSUME NEW d \in active[k] PROVE d.conn # c
      BY <2>3, <3>1, <3>2, <3>3, EventsElsewhere
    <3>4. \A d \in Conns \ {c} : index'[d] = index[d] /\ state'[d] = state[d]
      BY <1>14 DEF DestroyConnection, ConnectDestroyed, ServerInv, TypeOK
    <3>5. QED
      BY <1>1, <1>2, <2>1, <3>3, <3>4, EventsKept DEF ActiveOf
  <2>4. QED
    BY <2>2, <2>3
<1>15. ASSUME NEW l \in IoLoops, QuitLoop(l) PROVE ActiveOf(k)'
  BY <1>3, <1>15 DEF QuitLoop
<1>16. CASE EndDestructor
  BY <1>3, <1>16 DEF EndDestructor
<1>17. CASE UNCHANGED vars
  BY <1>3, <1>17 DEF vars
<1>18. QED
  BY <1>4, <1>5, <1>6, <1>7, <1>8, <1>9, <1>10, <1>11, <1>12, <1>13, <1>14, <1>15, <1>16,
     <1>17 DEF Next, HandleAccept, LoopStep, ServerStep

-----------------------------------------------------------------------------
(* The theorems.                                                           *)

\* A server that was not started has no connections, functors or events.
LEMMA ServerInvInit == Init => ServerInv
<1> SUFFICES ASSUME Init PROVE ServerInv
  OBVIOUS
<1>1. TypeOK
  <2>1. << >> \in Seq(Functor) /\ 0 \in 0..Len(Pool) /\ Base \in Loops
    BY EmptySeq, PoolFacts
  <2>2. QED
    BY <2>1 DEF Init, TypeOK, States, Indices
<1>2. \A l \in Loops : Pending(l) = << >>
  BY DEF Init, Pending
<1>3. \A l \in Loops : Todo(l) = {}
  BY <1>2, RangeOfEmpty DEF Todo
<1>4. ConnsInv
  <2> SUFFICES ASSUME NEW c \in Conns PROVE ConnInv(c)
    BY DEF ConnsInv
  <2>1. /\ state[c] = "none" /\ index[c] = "kNew" /\ ups[c] = 0 /\ downs[c] = 0
        /\ loopOf[c] = Base /\ c \notin connections /\ Base \in Loops
    BY PoolFacts DEF Init
  <2>2. FunctorsAtHome(c) /\ NotYetUp(c)
    BY <1>3, <2>1 DEF FunctorsAtHome, NotYetUp
  <2>3. PolledIsUp(c) /\ Untouched(c) /\ StateSaysUp(c)
    BY <2>1 DEF PolledIsUp, Untouched, StateSaysUp
  <2>4. QED
    BY <2>1, <2>2, <2>3 DEF ConnInv
<1>5. FunctorsOrdered
  BY <1>2 DEF FunctorsOrdered, Ordered, EstablishFirst
<1>6. ActiveIsFresh
  BY DEF Init, ActiveIsFresh, ActiveOf
<1>7. BatchShared
  <2>1. SharedBy(<< >>) = {}
    BY RangeOfEmpty DEF SharedBy
  <2>2. QED
    BY <2>1 DEF Init, BatchShared
<1>8. WorkersHoldUp /\ ServerPhases
  BY DEF Init, WorkersHoldUp, ServerPhases
<1>9. QED
  BY <1>1, <1>4, <1>5, <1>6, <1>7, <1>8 DEF ServerInv

\* The inductive invariant holds in every reachable state.
LEMMA ServerInvariant == Spec => []ServerInv
<1>1. ServerInv /\ [Next]_vars => ServerInv'
  BY TypeStep, ConnsStep, OrderedStep, ActiveStep, BatchStep, WorkersStep, PhasesStep
     DEF ServerInv
<1>2. QED
  BY <1>1, ServerInvInit, PTL DEF Spec

(***************************************************************************)
(* Every field of TcpServer, TcpConnection, their channels and their loops *)
(* keeps its type, and m_next stays an index of the pool.                  *)
(***************************************************************************)
THEOREM ServerTypesCorrect == Spec => []TypeOK
<1>1. ServerInv => TypeOK
  BY DEF ServerInv
<1>2. QED
  BY <1>1, ServerInvariant, PTL

(***************************************************************************)
(* The connection callback reports "connected" at most once, and then      *)
(* "disconnected" at most once: handleClose, connectDestroyed and          *)
(* ~TcpServer never both report the same connection down.                  *)
(***************************************************************************)
THEOREM CalledBackOnce == Spec => []CallbacksOnce
<1>1. ServerInv => CallbacksOnce
  BY DEF ServerInv, ConnsInv, ConnInv, CallbacksOnce
<1>2. QED
  BY <1>1, ServerInvariant, PTL

\* What will bring c to its end keeps it alive, as long as its loop runs.
LEMMA WillEndLives ==
  ASSUME ServerInv, NEW c \in Conns, WillEnd(c), phase[loopOf[c]] # "stopped"
  PROVE  Alive(c)
<1> DEFINE l == loopOf[c]
           f == Bind("destroy", c)
<1>1. l \in Loops /\ batch[l] \in Seq(Functor) /\ queue[l] \in Seq(Functor)
  BY DEF ServerInv, TypeOK
<1>2. f.conn = c /\ Shares(f)
  BY DEF Bind, Shares
<1>3. CASE c \in connections
  BY <1>3 DEF Alive
<1>4. CASE f \in Todo(l)
  <2> HIDE DEF l, f
  <2>1. f \in Range(batch[l]) \/ f \in Range(queue[l])
    <3>1. Range(batch[l] \o queue[l]) = Range(batch[l]) \cup Range(queue[l])
      BY <1>1, RangeConcatenation
    <3>2. QED
      BY <1>4, <3>1 DEF Todo, Pending
  <2>2. CASE f \in Range(batch[l])
    <3>1. c \in SharedBy(batch[l])
      BY <1>2, <2>2 DEF SharedBy
    <3>2. c \in refs[l]
      BY <1>1, <3>1 DEF ServerInv, BatchShared
    <3>3. QED
      BY <1>1, <3>2 DEF Alive
  <2>3. CASE f \in Range(queue[l])
    <3>1. c \in SharedBy(queue[l])
      BY <1>2, <2>3 DEF SharedBy
    <3>2. QueueExists(l)
      BY DEF QueueExists, l
    <3>3. QED
      BY <1>1, <3>1, <3>2 DEF Alive
  <2>4. QED
    BY <2>1, <2>2, <2>3
<1>5. QED
  BY <1>3, <1>4 DEF WillEnd

(***************************************************************************)
(* A channel that epoll knows, or has reported, belongs to a connection    *)
(* that some shared_ptr still refers to: Channel::handleEvent never        *)
(* dereferences a channel that was destroyed, however closes, shutdowns    *)
(* and the destructor interleave.                                          *)
(***************************************************************************)
THEOREM PolledNeverDangles == Spec => []PolledConnectionsLive
<1>1. ASSUME ServerInv PROVE PolledConnectionsLive
  <2> SUFFICES ASSUME NEW c \in Conns, phase[loopOf[c]] # "stopped",
                      \/ index[c] = "kAdded"
                      \/ \E k \in Kinds : [kind |-> k, conn |-> c] \in active[loopOf[c]]
               PROVE  Alive(c)
    BY DEF PolledConnectionsLive
  <2>1. loopOf[c] \in Loops
    BY <1>1 DEF ServerInv, TypeOK
  <2>2. index[c] = "kAdded"
    <3>1. ASSUME NEW k \in Kinds, [kind |-> k, conn |-> c] \in active[loopOf[c]]
          PROVE  index[c] = "kAdded"
      <4>1. PICK e \in active[loopOf[c]] : e.kind = k /\ e.conn = c
        BY <3>1
      <4>2. ActiveOf(loopOf[c])
        BY <1>1, <2>1 DEF ServerInv, ActiveIsFresh
      <4>3. QED
        BY <3>1, <4>1, <4>2 DEF ActiveOf
    <3>2. QED
      BY <3>1
  <2>3. WillEnd(c)
    BY <1>1, <2>2 DEF ServerInv, ConnsInv, ConnInv, PolledIsUp
  <2>4. QED
    BY <1>1, <2>3, WillEndLives
<1>2. QED
  BY <1>1, ServerInvariant, PTL

(***************************************************************************)
(* After ~TcpServer and the thread pool's destructor, a connection that    *)
(* was reported up was reported down too, unless its connectDestroyed was  *)
(* dropped with its loop, or shutdown had been called on it.               *)
(***************************************************************************)
THEOREM DownWhenGone == Spec => []DownUnlessDropped
<1>1. ASSUME ServerInv PROVE DownUnlessDropped
  <2> SUFFICES ASSUME server = "gone", NEW c \in Conns, ups[c] # downs[c],
                      state[c] # "kDisconnecting"
               PROVE  Bind("destroy", c) \in Range(queue[loopOf[c]])
    BY DEF DownUnlessDropped
  <2> DEFINE l == loopOf[c]
             f == Bind("destroy", c)
  <2>1. l \in Loops /\ queue[l] \in Seq(Functor) /\ ups[c] \in Nat /\ downs[c] \in Nat
    BY <1>1 DEF ServerInv, TypeOK
  <2>2. ConnInv(c)
    BY <1>1 DEF ServerInv, ConnsInv
  <2>3. ups[c] = 1 /\ downs[c] = 0
    BY <2>1, <2>2 DEF ConnInv
  <2>4. index[c] = "kAdded"
    BY <2>2, <2>3 DEF ConnInv, StateSaysUp
  <2>5. WillEnd(c)
    BY <2>2, <2>4 DEF ConnInv, PolledIsUp
  <2>6. f \in Todo(l) /\ phase[l] = "stopped"
    BY <1>1, <2>5 DEF WillEnd, ServerInv, ServerPhases
  <2>7. batch[l] = << >>
    BY <1>1, <2>1, <2>6 DEF ServerInv, BatchShared
  <2>8. << >> \o queue[l] = queue[l]
    BY <2>1, ConcatEmptySeq
  <2> HIDE DEF l, f
  <2>9. f \in Range(queue[l])
    BY <2>6, <2>7, <2>8 DEF Todo, Pending
  <2>10. QED
    BY <2>9 DEF l, f
<1>2. QED
  BY <1>1, ServerInvariant, PTL

-----------------------------------------------------------------------------
(* The connections are spread evenly over the i/o loops.                   *)

\* The connections that loop l was given.
Given(l) == {c \in Conns : state[c] # "none" /\ loopOf[c] = l}

\* The loops before m_next have had their turn in this round, the others have not.
RoundRobin ==
  \E q \in Nat : \A i \in 1..threads :
    /\ IsFiniteSet(Given(Pool[i]))
    /\ Cardinality(Given(Pool[i])) = IF i <= next THEN q + 1 ELSE q

\* Only newConnection and start change what a loop was given, or whose turn it is.
LEMMA GivenKept ==
  ASSUME ServerInv, [Next]_vars,
         \A c \in Conns : ~ NewConnection(c), \A n \in 0..Len(Pool) : ~ Start(n)
  PROVE  /\ UNCHANGED <<loopOf, threads, next>>
         /\ \A c \in Conns : state'[c] = "none" <=> state[c] = "none"
<1> USE DEF connVars, loopVars, serverVars, workerVars, ServerInv
<1> DEFINE Goal == /\ UNCHANGED <<loopOf, threads, next>>
                   /\ \A c \in Conns : state'[c] = "none" <=> state[c] = "none"
<1>1. CASE UNCHANGED <<loopOf, threads, next, state>>
  BY <1>1
<1>2. ASSUME NEW c \in Conns, PeerClose(c) \/ AcceptFails(c) PROVE Goal
  BY <1>1, <1>2 DEF PeerClose, AcceptFails
<1>3. ASSUME NEW l \in Loops, Poll(l) \/ EndBatch(l) \/ Swap(l) PROVE Goal
  BY <1>1, <1>3 DEF Poll, EndBatch, Swap
<1>4. ASSUME NEW l \in Loops, NEW e \in active[l], HandleEvent(l, e) PROVE Goal
  <2>1. e.conn \in Conns /\ index[e.conn] = "kAdded"
    BY <1>4 DEF HandleEvent, TypeOK, Events, ActiveIsFresh, ActiveOf, Kinds
  <2>2. state[e.conn] # "none"
    BY <2>1 DEF ConnsInv, ConnInv, PolledIsUp, Untouched
  <2>3. UNCHANGED state \/ \E v \in {"kDisconnecting", "kDisconnected"} :
                             state' = [state EXCEPT ![e.conn] = v]
    BY <1>4 DEF HandleEvent, HandleMessage, HandleError, HandleClose
  <2>4. UNCHANGED <<loopOf, threads, next>>
    BY <1>4 DEF HandleEvent
  <2>5. QED
    BY <2>1, <2>2, <2>3, <2>4 DEF TypeOK
<1>5. ASSUME NEW l \in Loops, RunFunctor(l) PROVE Goal
  <2>1. PICK p \in Ops, c \in Conns : Head(batch[l]) = Bind(p, c) /\ state[c] # "none"
    BY <1>5, HeadBound
  <2>2. Head(batch[l]).op = p /\ Head(batch[l]).conn = c
    BY <2>1, BindFacts
  <2>3. UNCHANGED state \/ \E v \in {"kConnected", "kDisconnected"} :
                             state' = [state EXCEPT ![c] = v]
    BY <1>5, <2>2 DEF RunFunctor, ConnectEstablished, ConnectDestroyed
  <2>4. UNCHANGED <<loopOf, threads, next>>
    BY <1>5 DEF RunFunctor
  <2>5. QED
    BY <2>1, <2>3, <2>4 DEF TypeOK
<1>6. ASSUME NEW w \in Workers, WorkerStep(w) PROVE Goal
  <2>1. CASE FinishCall(w)
    <3>1. call[w].conn \in Conns /\ ups[call[w].conn] = 1
      BY <2>1 DEF FinishCall, WorkersHoldUp, TypeOK, Functor
    <3>2. state[call[w].conn] # "none"
      BY <3>1 DEF ConnsInv, ConnInv, Untouched
    <3>3. QED
      BY <2>1, <3>1, <3>2 DEF FinishCall, TypeOK
  <2>2. CASE ~ FinishCall(w)
    BY <1>1, <1>6, <2>2 DEF WorkerStep, BeginCall, Release
  <2>3. QED
    BY <2>1, <2>2
<1>7. ASSUME NEW c \in Conns, DestroyConnection(c) PROVE Goal
  <2>1. state[c] # "none" /\ UNCHANGED <<loopOf, threads, next>>
    BY <1>7 DEF DestroyConnection, ConnsInv, ConnInv, Untouched
  <2>2. UNCHANGED state \/ state' = [state EXCEPT ![c] = "kDisconnected"]
    BY <1>7 DEF DestroyConnection, ConnectDestroyed
  <2>3. QED
    BY <1>7, <2>1, <2>2 DEF TypeOK
<1>8. ASSUME NEW l \in IoLoops, QuitLoop(l) PROVE Goal
  BY <1>1, <1>8 DEF QuitLoop
<1>9. CASE BeginDestructor \/ EndDestructor
  BY <1>1, <1>9 DEF BeginDestructor, EndDestructor
<1>10. CASE UNCHANGED vars
  BY <1>1, <1>10 DEF vars
<1>11. QED
  BY <1>2, <1>3, <1>4, <1>5, <1>6, <1>7, <1>8, <1>9, <1>10
     DEF Next, HandleAccept, LoopStep, ServerStep

\* getNextLoop gives the connection to the loop whose turn it is.
LEMMA RoundRobinStep == ServerInv /\ RoundRobin /\ [Next]_vars => RoundRobin'
<1> SUFFICES ASSUME ServerInv, RoundRobin, [Next]_vars PROVE RoundRobin'
  OBVIOUS
<1> USE DEF connVars, loopVars, serverVars, workerVars
<1>1. threads \in 0..Len(Pool) /\ next \in Nat /\ Len(Pool) \in Nat
  BY PoolFacts DEF ServerInv, TypeOK
<1>2. ASSUME NEW n \in 0..Len(Pool), Start(n) PROVE RoundRobin'
  <2>1. next' = 0 /\ \A c \in Conns : state'[c] = "none"
    BY <1>2 DEF Start, ServerInv, ServerPhases, TypeOK
  <2>2. \A i \in 1..threads' : Given(Pool[i])' = {}
    BY <2>1 DEF Given
  <2>3. \A i \in 1..threads' : ~ (i <= next')
    BY <1>2, <1>1, <2>1 DEF Start
  <2>4. IsFiniteSet({}) /\ Cardinality({}) = 0
    BY FS_EmptySet
  <2>5. \A i \in 1..threads' :
          /\ IsFiniteSet(Given(Pool[i])')
          /\ Cardinality(Given(Pool[i])') = IF i <= next' THEN 0 + 1 ELSE 0
    BY <2>2, <2>3, <2>4
  <2>6. QED
    BY <2>5 DEF RoundRobin
<1>3. ASSUME NEW c \in Conns, NewConnection(c) PROVE RoundRobin'
  <2>1. state[c] = "none"
    BY <1>3, BacklogFresh DEF NewConnection, ServerInv
  <2>2. /\ next' = NextIndex /\ threads' = threads
        /\ loopOf'[c] = NextLoop /\ state'[c] # "none"
        /\ \A d \in Conns \ {c} : loopOf'[d] = loopOf[d] /\ state'[d] = state[d]
    BY <1>3 DEF NewConnection, ConnectEstablished, ServerInv, TypeOK
  <2>3. CASE threads = 0
    <3>1. 1..threads' = {}
      BY <2>2, <2>3
    <3>2. QED
      BY <3>1 DEF RoundRobin
  <2>4. CASE threads # 0
    <3>1. next + 1 \in 1..threads /\ next < threads
      BY <1>1, <2>4 DEF ServerInv, TypeOK
    <3>2. NextLoop = Pool[next + 1]
      BY <2>4 DEF NextLoop
    <3>3. PICK q \in Nat : \A i \in 1..threads :
            /\ IsFiniteSet(Given(Pool[i]))
            /\ Cardinality(Given(Pool[i])) = IF i <= next THEN q + 1 ELSE q
      BY DEF RoundRobin
    <3>4. \A l : Given(l)' = IF l = NextLoop THEN Given(l) \cup {c} ELSE Given(l)
      BY <1>3, <2>1, <2>2 DEF Given
    <3>5. \A i \in 1..threads : i # next + 1 => Pool[i] # NextLoop
      BY <1>1, <3>1, <3>2, PoolFacts
    <3>6. ASSUME NEW i \in 1..threads
          PROVE  /\ IsFiniteSet(Given(Pool[i])')
                 /\ Cardinality(Given(Pool[i])') = IF i <= next + 1 THEN q + 1 ELSE q
      <4>1. CASE i = next + 1
        <5>1. Given(Pool[i])' = Given(Pool[i]) \cup {c} /\ c \notin Given(Pool[i])
          BY <2>1, <3>2, <3>4, <4>1 DEF Given
        <5>2. IsFiniteSet(Given(Pool[i])) /\ Cardinality(Given(Pool[i])) = q
          BY <1>1, <3>3, <3>6, <4>1
        <5>3. /\ IsFiniteSet(Given(Pool[i]) \cup {c})
              /\ Cardinality(Given(Pool[i]) \cup {c}) = q + 1
          BY <5>1, <5>2, FS_AddElement
        <5>4. QED
          BY <1>1, <4>1, <5>1, <5>3
      <4>2. CASE i # next + 1
        <5>1. Given(Pool[i])' = Given(Pool[i])
          BY <3>4, <3>5, <3>6, <4>2
        <5>2. (i <= next + 1) <=> (i <= next)
          BY <1>1, <4>2
        <5>3. QED
          BY <3>3, <3>6, <5>1, <5>2
      <4>3. QED
        BY <4>1, <4>2
    <3>7. CASE next + 1 < threads
      <4>1. next' = next + 1
        BY <2>2, <3>7 DEF NextIndex
      <4>2. QED
        BY <2>2, <3>6, <4>1 DEF RoundRobin
    <3>8. CASE ~ (next + 1 < threads)
      <4>1. next' = 0
        BY <2>2, <3>8 DEF NextIndex
      <4>2. \A i \in 1..threads : i <= next + 1 /\ ~ (i <= next')
        BY <1>1, <3>1, <3>8, <4>1
      <4>3. \A i \in 1..threads' :
              /\ IsFiniteSet(Given(Pool[i])')
              /\ Cardinality(Given(Pool[i])') = IF i <= next' THEN q + 1 + 1 ELSE q + 1
        BY <2>2, <3>6, <4>2
      <4>4. q + 1 \in Nat
        BY <3>3
      <4>5. QED
        BY <4>3, <4>4 DEF RoundRobin
    <3>9. QED
      BY <3>7, <3>8
  <2>5. QED
    BY <2>3, <2>4
<1>4. CASE /\ \A c \in Conns : ~ NewConnection(c)
           /\ \A n \in 0..Len(Pool) : ~ Start(n)
  <2>1. /\ UNCHANGED <<loopOf, threads, next>>
        /\ \A c \in Conns : state'[c] = "none" <=> state[c] = "none"
    BY <1>4, GivenKept
  <2>2. \A l : Given(l)' = Given(l)
    BY <2>1 DEF Given
  <2>3. QED
    BY <2>1, <2>2 DEF RoundRobin
<1>5. QED
  BY <1>2, <1>3, <1>4

(***************************************************************************)
(* getNextLoop spreads the connections evenly, for any number of loops and *)
(* whatever accepts fail and connections close in between: no i/o loop was *)
(* given two more than another.                                            *)
(***************************************************************************)
THEOREM LoadsBalanced == Spec => []LoopsBalanced
<1>1. Init => RoundRobin
  BY DEF Init, RoundRobin
<1>2. ASSUME RoundRobin, TypeOK PROVE LoopsBalanced
  <2>1. PICK q \in Nat : \A i \in 1..threads :
          Cardinality(Given(Pool[i])) = IF i <= next THEN q + 1 ELSE q
    BY <1>2 DEF RoundRobin
  <2>2. \A i \in 1..threads : Cardinality(Given(Pool[i])) \in {q, q + 1}
    BY <2>1
  <2>3. ASSUME NEW k \in IoLoops, NEW l \in IoLoops
        PROVE  Cardinality(Given(k)) <= Cardinality(Given(l)) + 1
    BY <2>1, <2>2, <2>3 DEF IoLoops
  <2>4. QED
    BY <2>3 DEF LoopsBalanced, Given
<1>3. ServerInv => TypeOK
  BY DEF ServerInv
<1>4. QED
  BY <1>1, <1>2, <1>3, ServerInvariant, RoundRobinStep, PTL DEF Spec

-----------------------------------------------------------------------------
(* Connections that were reported down.                                    *)

\* A connection that waits for connectEstablished was not reported down.
ConnectingNotDown == \A c \in Conns : state[c] = "kConnecting" => downs[c] = 0

\* m_state remembers that a connection was reported down, until a shutdown races it.
DownIsDisconnected ==
  \A c \in Conns : downs[c] > 0 /\ state[c] # "kDisconnecting" => state[c] = "kDisconnected"

\* Only newConnection makes a connection kConnecting.
LEMMA ConnectingStep ==
  ServerInv /\ ConnectingNotDown /\ [Next]_vars => ConnectingNotDown'
<1> SUFFICES ASSUME ServerInv, ConnectingNotDown, [Next]_vars PROVE ConnectingNotDown'
  OBVIOUS
<1> USE DEF connVars, loopVars, serverVars, workerVars
<1>1. /\ state \in [Conns -> States] /\ downs \in [Conns -> Nat]
  BY DEF ServerInv, TypeOK
<1>2. ASSUME UNCHANGED <<state, downs>> PROVE ConnectingNotDown'
  BY <1>2 DEF ConnectingNotDown
<1>3. ASSUME NEW c \in Conns, ConnectDestroyed(c) PROVE ConnectingNotDown'
  BY <1>1, <1>3 DEF ConnectDestroyed, ConnectingNotDown
<1>4. ASSUME NEW c \in Conns, HandleClose(c) PROVE ConnectingNotDown'
  BY <1>1, <1>4 DEF HandleClose, ConnectingNotDown
<1>5. ASSUME NEW c \in Conns, downs' = downs,
             \/ state' = [state EXCEPT ![c] = "kDisconnecting"]
             \/ state' = [state EXCEPT ![c] = "kConnected"]
             \/ state' = [state EXCEPT ![c] = "kConnecting"] /\ downs[c] = 0
      PROVE  ConnectingNotDown'
  BY <1>1, <1>5 DEF ConnectingNotDown
<1>6. ASSUME NEW c \in Conns, NewConnection(c) PROVE ConnectingNotDown'
  <2>1. state[c] = "none"
    BY <1>6, BacklogFresh DEF NewConnection, ServerInv
  <2>2. downs[c] = 0
    BY <2>1 DEF ServerInv, ConnsInv, ConnInv, Untouched
  <2>3. QED
    BY <1>5, <1>6, <2>2 DEF NewConnection, ConnectEstablished
<1>7. ASSUME NEW l \in Loops, NEW e \in active[l], HandleEvent(l, e) PROVE ConnectingNotDown'
  <2>1. e.conn \in Conns
    BY <1>7 DEF ServerInv, TypeOK, Events
  <2>2. CASE HandleClose(e.conn)
    BY <1>4, <2>1, <2>2
  <2>3. CASE HandleMessage(e.conn) /\ downs' = downs
    BY <1>2, <1>5, <2>1, <2>3 DEF HandleMessage, HandleError
  <2>4. QED
    BY <1>7, <2>2, <2>3 DEF HandleEvent
<1>8. ASSUME NEW l \in Loops, RunFunctor(l) PROVE ConnectingNotDown'
  <2>1. PICK c \in Conns : c = Head(batch[l]).conn
    <3>1. PICK p \in Ops, c \in Conns : Head(batch[l]) = Bind(p, c)
      BY <1>8, HeadBound DEF ServerInv
    <3>2. QED
      BY <3>1, BindFacts
  <2>2. CASE ConnectEstablished(c) /\ downs' = downs
    BY <1>5, <2>2 DEF ConnectEstablished
  <2>3. CASE ConnectDestroyed(c)
    BY <1>3, <2>3
  <2>4. CASE UNCHANGED <<state, downs>>
    BY <1>2, <2>4
  <2>5. QED
    BY <1>8, <2>1, <2>2, <2>3, <2>4 DEF RunFunctor
<1>9. ASSUME NEW w \in Workers, FinishCall(w) PROVE ConnectingNotDown'
  <2>1. call[w].conn \in Conns
    BY <1>9 DEF ServerInv, TypeOK, FinishCall, Functor
  <2>2. QED
    BY <1>2, <1>5, <1>9, <2>1 DEF FinishCall
<1>10. ASSUME NEW c \in Conns, DestroyConnection(c) PROVE ConnectingNotDown'
  BY <1>2, <1>3, <1>10 DEF DestroyConnection
<1>11. ASSUME NEW l \in Loops, Poll(l) \/ Swap(l) \/ EndBatch(l) PROVE ConnectingNotDown'
  BY <1>2, <1>11 DEF Poll, Swap, EndBatch
<1>12. ASSUME NEW w \in Workers, NEW c \in Conns,
              (\E op \in WorkerOps : BeginCall(w, op, c)) \/ Release(w, c)
       PROVE  ConnectingNotDown'
  BY <1>2, <1>12 DEF BeginCall, Release
<1>13. ASSUME \/ \E c \in Conns : PeerClose(c) \/ AcceptFails(c)
              \/ \E n \in 0..Len(Pool) : Start(n)
              \/ BeginDestructor \/ EndDestructor \/ \E l \in IoLoops : QuitLoop(l)
       PROVE  ConnectingNotDown'
  BY <1>2, <1>13
     DEF PeerClose, AcceptFails, Start, BeginDestructor, EndDestructor, QuitLoop
<1>14. CASE UNCHANGED vars
  BY <1>2, <1>14 DEF vars
<1>15. QED
  BY <1>6, <1>7, <1>8, <1>9, <1>10, <1>11, <1>12, <1>13, <1>14
     DEF Next, HandleAccept, LoopStep, WorkerStep, ServerStep

\* m_state tells whether a connection was reported down.
LEMMA DownState == ServerInv /\ ConnectingNotDown => DownIsDisconnected
<1> SUFFICES ASSUME ServerInv, ConnectingNotDown, NEW c \in Conns, downs[c] > 0,
                    state[c] # "kDisconnecting"
             PROVE  state[c] = "kDisconnected"
  BY DEF DownIsDisconnected
<1>1. state[c] \in States /\ downs[c] \in Nat /\ downs[c] # 0
  BY DEF ServerInv, TypeOK
<1>2. state[c] \notin {"none", "kConnected", "kConnecting"}
  BY <1>1 DEF ServerInv, ConnsInv, ConnInv, Untouched, StateSaysUp, ConnectingNotDown
<1>3. QED
  BY <1>1, <1>2 DEF States

\* A queue that has got g at its end was not left alone, and was given g.
LEMMA LastPushed ==
  ASSUME NEW s \in Seq(Functor), NEW g \in Functor
  PROVE  /\ s # Append(s, g)
         /\ << >> # Append(s, g)
         /\ \A f \in Functor : Append(s, f) = Append(s, g) => f = g
<1>1. /\ Len(s) \in Nat /\ Len(Append(s, g)) = Len(s) + 1
      /\ Append(s, g)[Len(s) + 1] = g
  BY LenProperties, AppendProperties
<1>2. \A f \in Functor : Append(s, f)[Len(s) + 1] = f
  BY AppendProperties
<1>3. Len(<< >>) = 0
  OBVIOUS
<1>4. Len(s) # Len(s) + 1 /\ 0 # Len(s) + 1
  BY <1>1
<1>5. QED
  BY <1>1, <1>2, <1>3, <1>4

\* A push puts its functor at the end of its queue, and nothing at other ends.
LEMMA PushedIs ==
  ASSUME ServerInv, NEW k, NEW f \in Functor, Push(k, f), NEW l \in Loops, NEW g \in Functor,
         queue'[l] = Append(queue[l], g)
  PROVE  f = g
<1>1. queue' = [queue EXCEPT ![k] = Append(queue[k], f)] /\ queue \in [Loops -> Seq(Functor)]
  BY DEF Push, ServerInv, TypeOK
<1>2. queue[l] \in Seq(Functor)
  BY <1>1
<1>3. CASE k = l
  BY <1>1, <1>2, <1>3, LastPushed
<1>4. CASE k # l
  BY <1>1, <1>2, <1>4, LastPushed
<1>5. QED
  BY <1>3, <1>4

\* What SilentOnceDown asks of a step.
Silent ==
  \A c \in Conns, l \in Loops, op \in {"complete", "highwater"} :
    downs[c] > 0 /\ state[c] # "kDisconnecting"
      => queue'[l] # Append(queue[l], Bind(op, c))

\* No step queues a callback of sendInLoop for a connection reported down.
LEMMA SilentStep ==
  ASSUME ServerInv, ConnectingNotDown, Next
  PROVE  Silent
<1> SUFFICES ASSUME NEW c \in Conns, NEW l \in Loops, NEW op \in {"complete", "highwater"},
                    downs[c] > 0, state[c] # "kDisconnecting",
                    queue'[l] = Append(queue[l], Bind(op, c))
             PROVE  FALSE
  BY DEF Silent
<1> USE DEF connVars, loopVars, serverVars, workerVars
<1>1. state[c] = "kDisconnected"
  BY DownState DEF DownIsDisconnected
<1>2. queue \in [Loops -> Seq(Functor)] /\ queue[l] \in Seq(Functor)
  BY DEF ServerInv, TypeOK
<1>3. \A p \in Ops, d \in Conns : Bind(p, d) \in Functor
  BY DEF Bind, Functor
<1>4. Bind(op, c) \in Functor
  BY <1>3 DEF Ops
<1>5. ASSUME queue' = queue PROVE FALSE
  BY <1>2, <1>4, <1>5, LastPushed
<1>6. ASSUME NEW k, NEW p \in Ops, NEW d \in Conns, Push(k, Bind(p, d))
      PROVE  p = op /\ d = c
  <2>1. Bind(p, d) \in Functor
    BY <1>3
  <2>2. Bind(p, d) = Bind(op, c)
    BY <1>4, <1>6, <2>1, PushedIs
  <2>3. QED
    BY <2>2, BindDiffers DEF Ops
<1>7. ASSUME NEW k, NEW p \in {"establish", "remove", "destroy"}, NEW d \in Conns,
             Push(k, Bind(p, d))
      PROVE  FALSE
  <2>1. p \in Ops /\ p # op
    BY <1>7 DEF Ops
  <2>2. QED
    BY <1>6, <1>7, <2>1
<1>8. ASSUME NEW d \in Conns, SendInLoop(d) PROVE FALSE
  <2>1. \/ queue' = queue
        \/ /\ state[d] # "kDisconnected"
           /\ \/ Push(loopOf[d], Bind("complete", d))
              \/ Push(loopOf[d], Bind("highwater", d))
    BY <1>8 DEF SendInLoop
  <2>2. ASSUME NEW p \in {"complete", "highwater"}, Push(loopOf[d], Bind(p, d)) PROVE d = c
    <3>1. p \in Ops
      BY <2>2 DEF Ops
    <3>2. QED
      BY <1>6, <2>2, <3>1
  <2>3. QED
    BY <1>1, <1>5, <2>1, <2>2
<1>9. ASSUME NEW d \in Conns, HandleClose(d) PROVE FALSE
  BY <1>7, <1>9 DEF HandleClose, RemoveConnectionInLoop
<1>10. ASSUME NEW k \in Loops, NEW e \in active[k], HandleEvent(k, e) PROVE FALSE
  <2>1. e.conn \in Conns
    BY <1>10 DEF ServerInv, TypeOK, Events
  <2>2. HandleClose(e.conn) \/ HandleMessage(e.conn)
    BY <1>10 DEF HandleEvent
  <2>3. queue' = queue \/ SendInLoop(e.conn) \/ HandleClose(e.conn)
    BY <2>2 DEF HandleMessage, HandleError
  <2>4. QED
    BY <1>5, <1>8, <1>9, <2>1, <2>3
<1>11. ASSUME NEW d \in Conns, NewConnection(d) PROVE FALSE
  <2>1. queue' = queue \/ Push(NextLoop, Bind("establish", d))
    BY <1>11 DEF NewConnection
  <2>2. QED
    BY <1>5, <1>7, <2>1
<1>12. ASSUME NEW k \in Loops, RunFunctor(k) PROVE FALSE
  <2>1. PICK d \in Conns : d = Head(batch[k]).conn
    <3>1. PICK p \in Ops, d \in Conns : Head(batch[k]) = Bind(p, d)
      BY <1>12, HeadBound DEF ServerInv
    <3>2. QED
      BY <3>1, BindFacts
  <2>2. queue' = queue \/ SendInLoop(d) \/ RemoveConnectionInLoop(d)
    BY <1>12, <2>1 DEF RunFunctor
  <2>3. QED
    BY <1>5, <1>7, <1>8, <2>2 DEF RemoveConnectionInLoop
<1>13. ASSUME NEW w \in Workers, FinishCall(w) PROVE FALSE
  <2>1. call[w] \in Functor /\ Push(loopOf[call[w].conn], call[w])
    BY <1>13 DEF ServerInv, TypeOK, FinishCall
  <2>2. call[w].op \in {"send", "shutdown"}
    BY <1>13, ServerAssumption DEF ServerInv, WorkersHoldUp, FinishCall
  <2>3. call[w] = Bind(op, c)
    BY <1>4, <2>1, PushedIs
  <2>4. QED
    BY <2>2, <2>3 DEF Bind
<1>14. ASSUME NEW d \in Conns, DestroyConnection(d) PROVE FALSE
  <2>1. queue' = queue \/ Push(loopOf[d], Bind("destroy", d))
    BY <1>14 DEF DestroyConnection
  <2>2. QED
    BY <1>5, <1>7, <2>1
<1>15. ASSUME NEW k \in Loops, Swap(k) PROVE FALSE
  <2>1. queue' = [queue EXCEPT ![k] = << >>]
    BY <1>15 DEF Swap
  <2>2. queue'[l] \in {queue[l], << >>}
    BY <1>2, <2>1
  <2>3. QED
    BY <1>2, <1>4, <2>2, LastPushed
<1>16. ASSUME NEW k \in Loops, Poll(k) \/ EndBatch(k) PROVE FALSE
  BY <1>5, <1>16 DEF Poll, EndBatch
<1>17. ASSUME NEW w \in Workers, NEW d \in Conns,
              (\E o \in WorkerOps : BeginCall(w, o, d)) \/ Release(w, d)
       PROVE  FALSE
  BY <1>5, <1>17 DEF BeginCall, Release
<1>18. ASSUME \/ \E d \in Conns : PeerClose(d) \/ AcceptFails(d)
              \/ \E n \in 0..Len(Pool) : Start(n)
              \/ BeginDestructor \/ EndDestructor \/ \E k \in IoLoops : QuitLoop(k)
       PROVE  FALSE
  BY <1>5, <1>18
     DEF PeerClose, AcceptFails, Start, BeginDestructor, EndDestructor, QuitLoop
<1>19. QED
  BY <1>10, <1>11, <1>12, <1>13, <1>14, <1>15, <1>16, <1>17, <1>18
     DEF Next, HandleAccept, LoopStep, WorkerStep, ServerStep

(***************************************************************************)
(* For any number of connections, loops and user threads: a send that      *)
(* passed its check before the connection was closed writes nothing and    *)
(* queues no callback once the connection was reported down, unless a      *)
(* shutdown raced the close.                                               *)
(***************************************************************************)
THEOREM NothingSentOnceDown == Spec => SilentOnceDown
<1>1. Init => ConnectingNotDown
  BY DEF Init, ConnectingNotDown
<1>2. ServerInv /\ ConnectingNotDown /\ [Next]_vars => [Silent]_vars
  BY SilentStep
<1>3. QED
  BY <1>1, <1>2, ServerInvariant, ConnectingStep, PTL DEF Spec, SilentOnceDown, Silent
=============================================================================

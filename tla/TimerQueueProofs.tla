-------------------------- MODULE TimerQueueProofs --------------------------
(***************************************************************************)
(* Proofs about TimerQueue for any number of workers, addresses, timers    *)
(* and ticks.  TimerInv is inductive: it says in which of three places     *)
(* (a queued functor, the list, the batch of handleRead) each Timer is,    *)
(* that timers_ and activeTimers_ are two views of the listed ones, and    *)
(* that a cancelled timer is deleted or remembered in cancelingTimers_.    *)
(* That the timerfd is armed in time is a second inductive step on top of  *)
(* it; it needs that begin() of a set of entries is its earliest entry.    *)
(***************************************************************************)
EXTENDS TimerQueue, SharedLemmas

-----------------------------------------------------------------------------
(* The order of timers_.                                                   *)

\* *timers_.begin() is an entry, and none expires earlier.
LEMMA FirstIsEarliest ==
  ASSUME NEW S \in SUBSET (Nat \X Nat), S # {}
  PROVE  First(S) \in S /\ \A d \in S : First(S)[1] <= d[1]
<1> DEFINE Times == {e[1] : e \in S}
<1>1. PICK t \in Times : \A n \in Times : t <= n
  <2>1. Times \in SUBSET Nat /\ Times # {}
    OBVIOUS
  <2> HIDE DEF Times
  <2>2. QED
    BY <2>1, LeastNumber
<1> DEFINE Tied == {e[2] : e \in {d \in S : d[1] = t}}
<1>2. Tied \in SUBSET Nat /\ Tied # {}
  OBVIOUS
<1>3. PICK a \in Tied : \A n \in Tied : a <= n
  <2> HIDE DEF Tied
  <2> QED BY <1>2, LeastNumber
<1>4. <<t, a>> \in S
  OBVIOUS
<1>5. \A d \in S \ {<<t, a>>} : Precedes(<<t, a>>, d)
  <2> SUFFICES ASSUME NEW d \in S, d # <<t, a>> PROVE Precedes(<<t, a>>, d)
    OBVIOUS
  <2>1. d = <<d[1], d[2]>> /\ d[1] \in Nat /\ d[2] \in Nat /\ t \in Nat /\ a \in Nat
    BY <1>4
  <2>2. t <= d[1]
    BY <1>1
  <2>3. d[1] = t => a <= d[2]
    BY <1>3
  <2>4. QED
    BY <2>1, <2>2, <2>3 DEF Precedes
<1>6. First(S) \in S /\ \A d \in S \ {First(S)} : Precedes(First(S), d)
  BY <1>4, <1>5 DEF First
<1>7. ASSUME NEW d \in S PROVE First(S)[1] <= d[1]
  <2>1. First(S)[1] \in Nat /\ d[1] \in Nat
    BY <1>6
  <2>2. QED
    BY <1>6, <2>1 DEF Precedes
<1>8. QED
  BY <1>6, <1>7

-----------------------------------------------------------------------------
(* The functors queued by other threads.                                   *)

Functors == [op : {"add", "cancel"}, id : TimerIds]

\* The addresses that the queued functors q will add.
AddedBy(q) == {q[i].id[1] : i \in {j \in DOMAIN q : q[j].op = "add"}}

\* No timer is queued twice.
AddedOnce(q) ==
  \A i, j \in DOMAIN q :
    q[i].op = "add" /\ q[j].op = "add" /\ q[i].id[1] = q[j].id[1] => i = j

\* queueInLoop of addTimerInLoop or cancelInLoop.
LEMMA AddedByAppend ==
  ASSUME NEW q \in Seq(Functors), NEW f \in Functors
  PROVE  /\ f.op = "add" => AddedBy(Append(q, f)) = AddedBy(q) \cup {f.id[1]}
         /\ f.op # "add" => AddedBy(Append(q, f)) = AddedBy(q)
         /\ AddedOnce(q) /\ (f.op = "add" => f.id[1] \notin AddedBy(q))
              => AddedOnce(Append(q, f))
<1> DEFINE n == Len(q)
           r == Append(q, f)
<1>1. DOMAIN q = 1..n /\ n \in Nat
  BY LenProperties
<1>2. DOMAIN r = 1..(n + 1)
  BY AppendProperties, LenProperties
<1>3. (\A i \in 1..n : r[i] = q[i]) /\ r[n + 1] = f
  BY AppendProperties
<1>4. 1..(n + 1) = (1..n) \cup {n + 1} /\ n + 1 \notin 1..n
  BY <1>1
<1> HIDE DEF n, r
<1>5. f.op = "add" => AddedBy(r) = AddedBy(q) \cup {f.id[1]}
  BY <1>1, <1>2, <1>3, <1>4 DEF AddedBy
<1>6. f.op # "add" => AddedBy(r) = AddedBy(q)
  BY <1>1, <1>2, <1>3, <1>4 DEF AddedBy
<1>7. AddedOnce(q) /\ (f.op = "add" => f.id[1] \notin AddedBy(q)) => AddedOnce(r)
  BY <1>1, <1>2, <1>3, <1>4 DEF AddedBy, AddedOnce
<1>8. QED
  BY <1>5, <1>6, <1>7 DEF r

\* doPendingFunctors takes the oldest functor.
LEMMA AddedByTail ==
  ASSUME NEW q \in Seq(Functors), q # << >>
  PROVE  /\ Head(q) \in Functors /\ Tail(q) \in Seq(Functors)
         /\ Head(q).op # "add" => AddedBy(Tail(q)) = AddedBy(q)
         /\ AddedOnce(q) /\ Head(q).op = "add" =>
              /\ Head(q).id[1] \in AddedBy(q)
              /\ AddedBy(Tail(q)) = AddedBy(q) \ {Head(q).id[1]}
         /\ AddedOnce(q) => AddedOnce(Tail(q))
<1> DEFINE n == Len(q)
           r == Tail(q)
<1>1. DOMAIN q = 1..n /\ n \in Nat /\ n # 0
  BY LenProperties, EmptySeq
<1>2. DOMAIN r = 1..(n - 1) /\ (\A i \in 1..(n - 1) : r[i] = q[i + 1])
  BY HeadTailProperties, LenProperties
<1>3. Head(q) = q[1] /\ Head(q) \in Functors /\ r \in Seq(Functors)
  BY HeadTailProperties
<1> HIDE DEF n, r
<1>4. \A j \in 1..n : j = 1 \/ \E i \in 1..(n - 1) : j = i + 1
  <2> SUFFICES ASSUME NEW j \in 1..n, j # 1 PROVE \E i \in 1..(n - 1) : j = i + 1
    OBVIOUS
  <2>1. j - 1 \in 1..(n - 1) /\ j = (j - 1) + 1
    BY <1>1
  <2>2. QED
    BY <2>1
<1>5. \A i \in 1..(n - 1) : i + 1 \in 1..n /\ i + 1 # 1
  BY <1>1
<1>6. \A x : x \in AddedBy(r) <=>
               \E j \in 1..n : j # 1 /\ q[j].op = "add" /\ x = q[j].id[1]
  <2>1. \A x : x \in AddedBy(r) <=>
                 \E i \in 1..(n - 1) : r[i].op = "add" /\ x = r[i].id[1]
    BY <1>2 DEF AddedBy
  <2>2. \A x : (\E i \in 1..(n - 1) : r[i].op = "add" /\ x = r[i].id[1]) <=>
               (\E i \in 1..(n - 1) : q[i + 1].op = "add" /\ x = q[i + 1].id[1])
    BY <1>2
  <2>3. QED
    BY <1>4, <1>5, <2>1, <2>2
<1>7. \A x : x \in AddedBy(q) <=> \E j \in 1..n : q[j].op = "add" /\ x = q[j].id[1]
  BY <1>1 DEF AddedBy
<1>8. 1 \in 1..n
  BY <1>1
<1>9. Head(q).op # "add" => AddedBy(r) = AddedBy(q)
  <2> SUFFICES ASSUME Head(q).op # "add"
               PROVE  \A x : x \in AddedBy(r) <=> x \in AddedBy(q)
    BY Zenon
  <2> QED BY <1>3, <1>6, <1>7
<1>10. AddedOnce(q) /\ Head(q).op = "add" =>
         Head(q).id[1] \in AddedBy(q) /\ AddedBy(r) = AddedBy(q) \ {Head(q).id[1]}
  BY <1>1, <1>3, <1>6, <1>7, <1>8 DEF AddedOnce
<1>11. AddedOnce(q) => AddedOnce(r)
  <2> SUFFICES ASSUME AddedOnce(q), NEW i \in 1..(n - 1), NEW j \in 1..(n - 1),
                      r[i].op = "add", r[j].op = "add", r[i].id[1] = r[j].id[1]
               PROVE  i = j
    BY <1>2 DEF AddedOnce
  <2>1. i + 1 = j + 1
    <3>1. /\ i + 1 \in DOMAIN q /\ j + 1 \in DOMAIN q
          /\ r[i] = q[i + 1] /\ r[j] = q[j + 1]
      BY <1>1, <1>2, <1>5
    <3> QED
      BY <3>1 DEF AddedOnce
  <2>2. QED
    BY <2>1
<1>12. QED
  BY <1>3, <1>9, <1>10, <1>11 DEF r

-----------------------------------------------------------------------------
(* The inductive invariant.                                                *)

ListAddrs == {e[2] : e \in timers}
BatchAddrs == {e[2] : e \in expired}

\* The wall clock cannot be set forward by more than its range at a time.
SkewBounded == skew <= steps * MaxTime

\* An object exists exactly while it is queued, listed or in the batch.
LiveIffOwned ==
  \A a \in Addrs : heap[a] # Free <=> a \in QueuedAddrs \cup ListAddrs \cup BatchAddrs

\* ... and is in only one of these places.
OwnersDisjoint ==
  /\ AddedOnce(queue)
  /\ QueuedAddrs \cap ListAddrs = {}
  /\ QueuedAddrs \cap BatchAddrs = {}
  /\ ListAddrs \cap BatchAddrs = {}

\* Sequence numbers are given out in order, once.
NumberedInOrder == \A a \in Addrs : heap[a] # Free => heap[a].sequence < numCreated

\* callingExpiredTimers_ is set, and the batch may be non-empty, inside handleRead.
BatchWhileCalling ==
  /\ calling <=> mode \in {"calling", "callback"}
  /\ expired # {} => calling

\* A cancelled timer is deleted, or in the batch and remembered in
\* cancelingTimers_, so that reset deletes it.  Its number is not given out again.
CancelRemembered ==
  \A id \in cancelled :
    /\ id[2] < numCreated
    /\ \/ heap[id[1]].sequence # id[2]
       \/ id[1] \in BatchAddrs /\ id \in cancelingTimers

TimerInv ==
  /\ TypeOK
  /\ SkewBounded
  /\ SameTimers
  /\ LiveIffOwned
  /\ OwnersDisjoint
  /\ NumberedInOrder
  /\ BatchWhileCalling
  /\ CancelRemembered

\* The constants, in the form in which the steps use them.
LEMMA Constants ==
  /\ Addrs \subseteq Nat
  /\ MaxTimers \in Nat /\ MaxTime \in Nat /\ MaxTime > 0
  /\ MaxSteps \in Nat /\ MaxQueue \in Nat
  /\ 0 \in Time /\ 1 \in Time /\ Time \subseteq Nat
BY TimerBounds DEF Time

\* A Timer object has a sequence number that was given out; a free address has none.
LEMMA LiveTimer ==
  ASSUME TypeOK, NEW a \in Addrs
  PROVE  /\ heap[a] # Free => heap[a] \in Timers
         /\ heap[a].expiration \in Time
         /\ heap[a] # Free => heap[a].sequence \in SequenceNumbers
         /\ heap[a] = Free => heap[a].sequence = MaxTimers
BY Constants DEF TypeOK, Timers, Free

\* With SameTimers, an address has one entry in timers_ and one in activeTimers_,
\* and both can be computed from the object.
LEMMA ListForm ==
  ASSUME TypeOK, SameTimers
  PROVE  /\ ListAddrs \subseteq Addrs
         /\ \A e \in timers : e = <<heap[e[2]].expiration, e[2]>>
         /\ \A a \in ListAddrs : /\ <<heap[a].expiration, a>> \in timers
                                 /\ <<a, heap[a].sequence>> \in activeTimers
         /\ \A id \in activeTimers : /\ id = <<id[1], heap[id[1]].sequence>>
                                     /\ id[1] \in ListAddrs
<1>1. \A e \in timers : e = <<e[1], e[2]>> /\ e[2] \in Addrs
  BY DEF TypeOK
<1>2. \A e \in timers : e = <<heap[e[2]].expiration, e[2]>>
  BY <1>1 DEF SameTimers
<1>3. ListAddrs \subseteq Addrs
  BY <1>1 DEF ListAddrs
<1>4. ASSUME NEW a \in ListAddrs
      PROVE  <<heap[a].expiration, a>> \in timers /\ <<a, heap[a].sequence>> \in activeTimers
  BY <1>2, <1>4 DEF ListAddrs, SameTimers, IdOf
<1>5. ASSUME NEW id \in activeTimers
      PROVE  id = <<id[1], heap[id[1]].sequence>> /\ id[1] \in ListAddrs
  <2>1. PICK e \in timers : id = <<e[2], heap[e[2]].sequence>>
    BY <1>5 DEF SameTimers, IdOf
  <2>2. id[1] = e[2]
    BY <2>1
  <2>3. QED
    BY <2>1, <2>2 DEF ListAddrs
<1>6. QED
  BY <1>2, <1>3, <1>4, <1>5

\* The converse, for the state after a step: two sets computed from the objects at
\* the addresses A.
LEMMA ListFromAddrs ==
  ASSUME NEW A,
         timers' = {<<heap'[a].expiration, a>> : a \in A},
         activeTimers' = {<<a, heap'[a].sequence>> : a \in A}
  PROVE  SameTimers' /\ ListAddrs' = A
<1>1. \A e \in timers' : e[2] \in A /\ e[1] = heap'[e[2]].expiration
  OBVIOUS
<1>2. ASSUME NEW a \in A PROVE \E e \in timers' : e[2] = a
  <2>1. <<heap'[a].expiration, a>> \in timers'
    OBVIOUS
  <2>2. QED
    BY <2>1
<1>3. ListAddrs' = A
  BY <1>1, <1>2 DEF ListAddrs
<1>4. activeTimers' = {<<e[2], heap'[e[2]].sequence>> : e \in timers'}
  BY <1>1, <1>2
<1>5. QED
  BY <1>1, <1>3, <1>4 DEF SameTimers, IdOf

\* Both directions as equations: the two sets are images of the listed addresses.
LEMMA ListEquations ==
  ASSUME TypeOK, SameTimers
  PROVE  /\ timers = {<<heap[a].expiration, a>> : a \in ListAddrs}
         /\ activeTimers = {<<a, heap[a].sequence>> : a \in ListAddrs}
<1>1. timers = {<<heap[a].expiration, a>> : a \in ListAddrs}
  BY ListForm DEF ListAddrs
<1>2. activeTimers = {<<a, heap[a].sequence>> : a \in ListAddrs}
  BY ListForm
<1>3. QED
  BY <1>1, <1>2

\* A step that leaves the list and its objects alone.
LEMMA ListUnchanged ==
  ASSUME TypeOK, SameTimers, UNCHANGED <<timers, activeTimers>>,
         \A a \in ListAddrs : heap'[a] = heap[a]
  PROVE  SameTimers' /\ ListAddrs' = ListAddrs
<1>1. timers' = {<<heap'[a].expiration, a>> : a \in ListAddrs}
  BY ListEquations
<1>2. activeTimers' = {<<a, heap'[a].sequence>> : a \in ListAddrs}
  BY ListEquations
<1>3. QED
  BY <1>1, <1>2, ListFromAddrs

\* insert of the timer at address b.
LEMMA ListInsert ==
  ASSUME TypeOK, SameTimers, NEW b,
         timers' = timers \cup {<<heap'[b].expiration, b>>},
         activeTimers' = activeTimers \cup {<<b, heap'[b].sequence>>},
         \A a \in ListAddrs : heap'[a] = heap[a]
  PROVE  SameTimers' /\ ListAddrs' = ListAddrs \cup {b}
<1>1. timers' = {<<heap'[a].expiration, a>> : a \in ListAddrs \cup {b}}
  BY ListEquations
<1>2. activeTimers' = {<<a, heap'[a].sequence>> : a \in ListAddrs \cup {b}}
  BY ListEquations
<1>3. QED
  BY <1>1, <1>2, ListFromAddrs

\* Removal of the timers at the addresses D, as in cancelInLoop and getExpired.
LEMMA ListRemove ==
  ASSUME TypeOK, SameTimers, NEW D,
         timers' = timers \ {<<heap[a].expiration, a>> : a \in D},
         activeTimers' = activeTimers \ {<<a, heap[a].sequence>> : a \in D},
         \A a \in ListAddrs \ D : heap'[a] = heap[a]
  PROVE  SameTimers' /\ ListAddrs' = ListAddrs \ D
<1>1. timers' = {<<heap'[a].expiration, a>> : a \in ListAddrs \ D}
  BY ListEquations
<1>2. activeTimers' = {<<a, heap'[a].sequence>> : a \in ListAddrs \ D}
  BY ListEquations
<1>3. QED
  BY <1>1, <1>2, ListFromAddrs

\* Who owns a timer is who keeps it alive.
LEMMA OwnedIsLive ==
  ASSUME TimerInv
  PROVE  /\ BatchAddrs \subseteq Addrs
         /\ \A a \in Addrs : a \in QueuedAddrs \cup ListAddrs \cup BatchAddrs
                               => /\ heap[a] \in Timers
                                  /\ heap[a].sequence \in SequenceNumbers
                                  /\ heap[a].sequence < numCreated
<1>1. BatchAddrs \subseteq Addrs
  BY DEF TimerInv, TypeOK, BatchAddrs
<1>2. QED
  BY <1>1, LiveTimer DEF TimerInv, LiveIffOwned, NumberedInOrder

\* cancelInLoop deletes a listed timer, and remembers one whose callback may run.
LEMMA CancelEffect ==
  ASSUME TimerInv, NEW id \in TimerIds, CancelInLoop(id),
         UNCHANGED <<expired, numCreated, calling>>
  PROVE  /\ SameTimers'
         /\ id \in activeTimers => /\ ListAddrs' = ListAddrs \ {id[1]}
                                   /\ heap' = [heap EXCEPT ![id[1]] = Free]
                                   /\ id[1] \in ListAddrs
         /\ id \notin activeTimers => ListAddrs' = ListAddrs /\ heap' = heap
         /\ timers' \subseteq timers /\ activeTimers' \subseteq activeTimers
         /\ cancelingTimers' \subseteq TimerIds /\ cancelled' \subseteq TimerIds
         /\ CancelRemembered'
<1>1. TypeOK /\ SameTimers /\ id = <<id[1], id[2]>> /\ id[1] \in Addrs
      /\ id[2] \in SequenceNumbers
  BY DEF TimerInv, TimerIds
<1>2. CASE id \in activeTimers
  <2>1. id[1] \in ListAddrs /\ id[2] = heap[id[1]].sequence
    BY <1>1, <1>2, ListForm
  <2>2. heap' = [heap EXCEPT ![id[1]] = Free] /\ heap \in [Addrs -> Timers \cup {Free}]
    BY <1>1, <1>2 DEF CancelInLoop, TypeOK
  <2>3. \A a \in Addrs : heap'[a] = IF a = id[1] THEN Free ELSE heap[a]
    BY <2>2
  <2>4. /\ timers' = timers \ {<<heap[a].expiration, a>> : a \in {id[1]}}
        /\ activeTimers' = activeTimers \ {<<a, heap[a].sequence>> : a \in {id[1]}}
    <3>1. /\ timers' = timers \ {<<heap[id[1]].expiration, id[1]>>}
          /\ activeTimers' = activeTimers \ {id}
      BY <1>2 DEF CancelInLoop
    <3>2. id = <<id[1], heap[id[1]].sequence>>
      BY <1>1, <2>1
    <3>3. QED
      BY <3>1, <3>2
  <2>5. SameTimers' /\ ListAddrs' = ListAddrs \ {id[1]}
    <3>1. \A a \in ListAddrs \ {id[1]} : heap'[a] = heap[a]
      BY <1>1, <2>3, ListForm
    <3>2. QED
      BY <1>1, <2>4, <3>1, ListRemove
  <2>6. cancelingTimers' = cancelingTimers /\ cancelled' = cancelled \cup {id}
    BY <1>2 DEF CancelInLoop, NoteCancelled
  <2>7. CancelRemembered'
    <3>1. Free.sequence = MaxTimers /\ MaxTimers \notin SequenceNumbers
      BY Constants DEF Free, SequenceNumbers
    <3>2. id[2] < numCreated'
      BY <1>1, <2>1, OwnedIsLive
    <3>3. heap'[id[1]].sequence # id[2]
      BY <1>1, <2>3, <3>1
    <3>4. \A d \in cancelled : d[1] \in Addrs /\ d[2] \in SequenceNumbers
      BY <1>1 DEF TypeOK, TimerIds
    <3>5. BatchAddrs' = BatchAddrs
      BY DEF BatchAddrs
    <3>6. QED
      BY <2>3, <2>6, <3>1, <3>2, <3>3, <3>4, <3>5 DEF TimerInv, CancelRemembered
  <2>8. cancelingTimers' \subseteq TimerIds /\ cancelled' \subseteq TimerIds
    BY <1>1, <2>6 DEF TypeOK
  <2>9. QED
    BY <1>2, <2>1, <2>2, <2>4, <2>5, <2>7, <2>8
<1>3. CASE id \notin activeTimers
  <2>1. UNCHANGED <<timers, activeTimers, heap>>
    BY <1>3 DEF CancelInLoop
  <2>2. cancelingTimers' = IF calling THEN cancelingTimers \cup {id} ELSE cancelingTimers
    BY <1>3 DEF CancelInLoop
  <2>3. SameTimers' /\ ListAddrs' = ListAddrs
    BY <1>1, <2>1, ListUnchanged
  <2>4. \/ cancelled' = cancelled
        \/ cancelled' = cancelled \cup {id} /\ \E e \in expired : id = IdOf(e)
    BY <1>3 DEF CancelInLoop, NoteCancelled
  <2>5. BatchAddrs' = BatchAddrs
    BY DEF BatchAddrs
  <2>6. ASSUME NEW e \in expired, id = IdOf(e)
        PROVE  id[2] < numCreated /\ id[1] \in BatchAddrs /\ id \in cancelingTimers'
    <3>1. id[1] = e[2] /\ id[2] = heap[id[1]].sequence
      BY <2>6 DEF IdOf
    <3>2. id[1] \in BatchAddrs
      BY <3>1 DEF BatchAddrs
    <3>3. calling
      BY DEF TimerInv, BatchWhileCalling
    <3>4. QED
      BY <1>1, <2>2, <3>1, <3>2, <3>3, OwnedIsLive
  <2>7. CancelRemembered'
    <3>1. cancelingTimers \subseteq cancelingTimers'
      BY <2>2
    <3>2. QED
      BY <2>1, <2>4, <2>5, <2>6, <3>1 DEF TimerInv, CancelRemembered
  <2>8. cancelingTimers' \subseteq TimerIds /\ cancelled' \subseteq TimerIds
    BY <1>1, <2>2, <2>4 DEF TypeOK
  <2>9. QED
    BY <1>3, <2>1, <2>3, <2>7, <2>8
<1>4. QED
  BY <1>2, <1>3

-----------------------------------------------------------------------------
(* Every step keeps the invariant.                                         *)

\* A delay is at least one tick, so setting the timerfd never disarms it.
LEMMA DelayIsPositive ==
  ASSUME TypeOK, NEW when \in Time
  PROVE  /\ ResetTimerfd(when) = HowMuchTimeFromNow(when)
         /\ HowMuchTimeFromNow(when) \in 1..MaxTime
         /\ ResetTimerfd(when) \in Time \cup {Off}
<1>1. HowMuchTimeFromNow(when) \in 1..MaxTime
  BY Constants DEF TypeOK, Time, HowMuchTimeFromNow
<1>2. QED
  BY <1>1 DEF ResetTimerfd, Time

\* A new Timer.
LEMMA NewTimerIsLive ==
  ASSUME TypeOK, NEW a \in Addrs, MayCreate(a), NEW when \in Time, NEW i \in Intervals
  PROVE  /\ NewTimer(when, i) \in Timers
         /\ NewTimer(when, i) # Free
         /\ NewTimer(when, i).sequence = numCreated
         /\ numCreated \in SequenceNumbers
         /\ <<a, numCreated>> \in TimerIds
<1>1. numCreated \in SequenceNumbers /\ numCreated # MaxTimers
  BY Constants DEF TypeOK, MayCreate, SequenceNumbers
<1>2. NewTimer(when, i) \in Timers /\ NewTimer(when, i).sequence = numCreated
  BY <1>1 DEF NewTimer, Timers
<1>3. Free.sequence = MaxTimers
  BY DEF Free
<1>4. QED
  BY <1>1, <1>2, <1>3 DEF TimerIds

\* An object at a free address changes nothing for what was cancelled before: its
\* number is new.
LEMMA CreateKeepsCancelled ==
  ASSUME TimerInv, NEW a \in Addrs, heap[a] = Free, NEW t, t.sequence = numCreated,
         heap' = [heap EXCEPT ![a] = t], numCreated' = numCreated + 1,
         UNCHANGED <<cancelled, expired, cancelingTimers>>
  PROVE  CancelRemembered'
<1>1. \A b \in Addrs : heap'[b] = IF b = a THEN t ELSE heap[b]
  BY DEF TimerInv, TypeOK
<1>2. BatchAddrs' = BatchAddrs
  BY DEF BatchAddrs
<1> SUFFICES ASSUME NEW id \in cancelled
             PROVE  /\ id[2] < numCreated + 1
                    /\ \/ heap'[id[1]].sequence # id[2]
                       \/ id[1] \in BatchAddrs /\ id \in cancelingTimers
  BY <1>2 DEF CancelRemembered
<1>3. id[1] \in Addrs /\ id[2] \in Nat /\ numCreated \in Nat /\ id[2] < numCreated
  BY Constants DEF TimerInv, TypeOK, TimerIds, SequenceNumbers, CancelRemembered
<1>4. QED
  BY <1>1, <1>3 DEF TimerInv, CancelRemembered

\* addTimer in another thread: the new timer belongs to the queued functor.
LEMMA AddTimerKeepsInv ==
  ASSUME TimerInv, NEW w \in Workers, NEW a \in Addrs, NEW when \in Time,
         NEW i \in Intervals, AddTimer(w, a, when, i)
  PROVE  TimerInv'
<1> DEFINE t == NewTimer(when, i)
           f == [op |-> "add", id |-> <<a, numCreated>>]
<1> USE DEF batchVars, setVars, clockVars
<1>1. TypeOK /\ MayCreate(a) /\ heap[a] = Free
  BY DEF TimerInv, AddTimer, MayCreate
<1>2. /\ t \in Timers /\ t # Free /\ t.sequence = numCreated
      /\ numCreated \in SequenceNumbers /\ <<a, numCreated>> \in TimerIds
  BY <1>1, NewTimerIsLive
<1>3. heap' = [heap EXCEPT ![a] = t] /\ heap' \in [Addrs -> Timers \cup {Free}]
  BY <1>1, <1>2 DEF AddTimer, TypeOK
<1> HIDE DEF t
<1>4. \A b \in Addrs : heap'[b] = IF b = a THEN t ELSE heap[b]
  BY <1>1, <1>3 DEF TypeOK
<1>5. f \in Functors /\ queue \in Seq(Functors) /\ queue' = Append(queue, f)
  BY <1>1, <1>2 DEF AddTimer, TypeOK, Functors
<1>6. a \notin QueuedAddrs \cup ListAddrs \cup BatchAddrs
  BY <1>1 DEF TimerInv, LiveIffOwned
<1>7. SameTimers' /\ ListAddrs' = ListAddrs
  BY <1>1, <1>4, <1>6, ListUnchanged, ListForm DEF TimerInv, AddTimer
<1>8. BatchAddrs' = BatchAddrs
  BY DEF AddTimer, BatchAddrs
<1>9. QueuedAddrs' = QueuedAddrs \cup {a} /\ AddedOnce(queue')
  BY <1>5, <1>6, AddedByAppend DEF TimerInv, OwnersDisjoint, QueuedAddrs, AddedBy
<1>10. TypeOK'
  <2>1. numCreated' \in 0..MaxTimers
    BY <1>1, <1>2, Constants DEF AddTimer, TypeOK, SequenceNumbers
  <2>2. queue' \in Seq(Functors)
    BY <1>5, AppendProperties
  <2>3. adding' \in [Workers -> TimerIds \cup {NoId}]
    BY <1>1, <1>2 DEF AddTimer, TypeOK
  <2>4. QED
    BY <1>1, <1>3, <2>1, <2>2, <2>3 DEF AddTimer, TypeOK, Functors
<1>11. LiveIffOwned' /\ OwnersDisjoint'
  BY <1>2, <1>4, <1>6, <1>7, <1>8, <1>9 DEF TimerInv, LiveIffOwned, OwnersDisjoint
<1>12. NumberedInOrder'
  <2>1. numCreated \in Nat /\ numCreated' = numCreated + 1
    BY <1>1 DEF AddTimer, TypeOK
  <2>2. \A b \in Addrs : heap[b] # Free => heap[b].sequence \in Nat
    BY <1>1, LiveTimer DEF SequenceNumbers
  <2>3. QED
    BY <1>2, <1>4, <2>1, <2>2 DEF TimerInv, NumberedInOrder
<1>13. CancelRemembered'
  BY <1>1, <1>2, <1>3, CreateKeepsCancelled DEF AddTimer
<1>14. SkewBounded' /\ BatchWhileCalling'
  BY DEF TimerInv, AddTimer, SkewBounded, BatchWhileCalling
<1>15. QED
  BY <1>7, <1>10, <1>11, <1>12, <1>13, <1>14 DEF TimerInv

\* addTimer in the loop thread: the new timer belongs to the list.
LEMMA AddTimerDirectKeepsInv ==
  ASSUME TimerInv, NEW a \in Addrs, NEW when \in Time, NEW i \in Intervals,
         AddTimerDirect(a, when, i)
  PROVE  TimerInv'
<1> DEFINE t == NewTimer(when, i)
<1> USE DEF batchVars, clockVars
<1>1. TypeOK /\ MayCreate(a) /\ heap[a] = Free
  BY DEF TimerInv, AddTimerDirect, MayCreate
<1>2. /\ t \in Timers /\ t # Free /\ t.sequence = numCreated
      /\ numCreated \in SequenceNumbers /\ <<a, numCreated>> \in TimerIds
  BY <1>1, NewTimerIsLive
<1>3. heap' = [heap EXCEPT ![a] = t] /\ heap' \in [Addrs -> Timers \cup {Free}]
  BY <1>1, <1>2 DEF AddTimerDirect, TypeOK
<1>4. /\ timers' = timers \cup {<<t.expiration, a>>}
      /\ activeTimers' = activeTimers \cup {<<a, t.sequence>>}
      /\ ids' = ids \cup {<<a, t.sequence>>}
  BY DEF AddTimerDirect, AddTimerInLoop
<1> HIDE DEF t
<1>5. \A b \in Addrs : heap'[b] = IF b = a THEN t ELSE heap[b]
  BY <1>1, <1>3 DEF TypeOK
<1>6. a \notin QueuedAddrs \cup ListAddrs \cup BatchAddrs
  BY <1>1 DEF TimerInv, LiveIffOwned
<1>7. SameTimers' /\ ListAddrs' = ListAddrs \cup {a}
  <2>1. \A b \in ListAddrs : heap'[b] = heap[b]
    BY <1>1, <1>5, <1>6, ListForm DEF TimerInv
  <2>2. heap'[a] = t
    BY <1>5
  <2>3. QED
    BY <1>1, <1>4, <2>1, <2>2, ListInsert DEF TimerInv
<1>8. BatchAddrs' = BatchAddrs /\ QueuedAddrs' = QueuedAddrs /\ queue' = queue
  BY DEF AddTimerDirect, BatchAddrs, QueuedAddrs
<1>9. TypeOK'
  <2>1. numCreated' \in 0..MaxTimers
    BY <1>1, <1>2, Constants DEF AddTimerDirect, TypeOK, SequenceNumbers
  <2>2. t.expiration \in Time
    BY <1>2 DEF Timers
  <2>3. timers' \subseteq Time \X Addrs /\ activeTimers' \subseteq TimerIds
        /\ ids' \subseteq TimerIds
    BY <1>1, <1>2, <1>4, <2>2 DEF TypeOK
  <2>4. armed' \in Time \cup {Off}
    <3>1. armed' = armed \/ armed' = ResetTimerfd(t.expiration)
      BY DEF AddTimerDirect, AddTimerInLoop, t
    <3>2. QED
      BY <1>1, <2>2, <3>1, DelayIsPositive DEF TypeOK
  <2>5. QED
    BY <1>1, <1>3, <2>1, <2>3, <2>4 DEF AddTimerDirect, TypeOK
<1>10. LiveIffOwned' /\ OwnersDisjoint'
  BY <1>2, <1>5, <1>6, <1>7, <1>8 DEF TimerInv, LiveIffOwned, OwnersDisjoint
<1>11. NumberedInOrder'
  <2>1. numCreated \in Nat /\ numCreated' = numCreated + 1
    BY <1>1 DEF AddTimerDirect, TypeOK
  <2>2. \A b \in Addrs : heap[b] # Free => heap[b].sequence \in Nat
    BY <1>1, LiveTimer DEF SequenceNumbers
  <2>3. QED
    BY <1>2, <1>5, <2>1, <2>2 DEF TimerInv, NumberedInOrder
<1>12. CancelRemembered'
  BY <1>1, <1>2, <1>3, CreateKeepsCancelled DEF AddTimerDirect
<1>13. SkewBounded' /\ BatchWhileCalling'
  BY DEF TimerInv, AddTimerDirect, SkewBounded, BatchWhileCalling
<1>14. QED
  BY <1>7, <1>9, <1>10, <1>11, <1>12, <1>13 DEF TimerInv

\* A queued addTimerInLoop runs: the timer moves from the functor to the list.
LEMMA RunAddKeepsInv ==
  ASSUME TimerInv, queue # << >>, Head(queue).op = "add",
         AddTimerInLoop(Head(queue).id[1], heap[Head(queue).id[1]]),
         queue' = Tail(queue),
         UNCHANGED <<heap, numCreated, cancelingTimers, batchVars, clockVars, adding,
                     ids, cancelled>>
  PROVE  TimerInv'
<1> DEFINE a == Head(queue).id[1]
<1> USE DEF batchVars, clockVars
<1>1. TypeOK /\ queue \in Seq(Functors) /\ QueuedAddrs = AddedBy(queue)
      /\ AddedOnce(queue) /\ QueuedAddrs' = AddedBy(queue')
  BY DEF TimerInv, TypeOK, Functors, QueuedAddrs, AddedBy, OwnersDisjoint
<1>2. /\ a \in QueuedAddrs /\ QueuedAddrs' = QueuedAddrs \ {a}
      /\ AddedOnce(queue') /\ queue' \in Seq(Functors) /\ Head(queue) \in Functors
  BY <1>1, AddedByTail
<1>3. a \in Addrs
  BY <1>2 DEF Functors, TimerIds
<1>4. /\ timers' = timers \cup {<<heap'[a].expiration, a>>}
      /\ activeTimers' = activeTimers \cup {<<a, heap'[a].sequence>>}
      /\ armed' = armed \/ armed' = ResetTimerfd(heap[a].expiration)
  BY DEF AddTimerInLoop
<1> HIDE DEF a
<1>5. heap[a] \in Timers /\ heap[a].sequence \in SequenceNumbers
  BY <1>2, <1>3, OwnedIsLive
<1>6. SameTimers' /\ ListAddrs' = ListAddrs \cup {a}
  BY <1>1, <1>4, ListInsert DEF TimerInv
<1>7. BatchAddrs' = BatchAddrs
  BY DEF BatchAddrs
<1>8. TypeOK'
  <2>1. heap[a].expiration \in Time
    BY <1>5 DEF Timers
  <2>2. timers' \subseteq Time \X Addrs /\ activeTimers' \subseteq TimerIds
    BY <1>1, <1>3, <1>4, <1>5, <2>1 DEF TypeOK, TimerIds
  <2>3. armed' \in Time \cup {Off}
    BY <1>1, <1>4, <2>1, DelayIsPositive DEF TypeOK
  <2>4. QED
    BY <1>1, <1>2, <2>2, <2>3 DEF TypeOK, Functors
<1>9. LiveIffOwned' /\ OwnersDisjoint'
  BY <1>2, <1>6, <1>7 DEF TimerInv, LiveIffOwned, OwnersDisjoint
<1>10. NumberedInOrder' /\ CancelRemembered' /\ SkewBounded' /\ BatchWhileCalling'
  BY <1>7 DEF TimerInv, NumberedInOrder, CancelRemembered, SkewBounded, BatchWhileCalling
<1>11. QED
  BY <1>6, <1>8, <1>9, <1>10 DEF TimerInv

\* cancelInLoop, from the queue or called directly: a listed timer is deleted and
\* nobody owns it any more.
LEMMA CancelKeepsInv ==
  ASSUME TimerInv, NEW id \in TimerIds, CancelInLoop(id),
         UNCHANGED <<numCreated, batchVars, armed, clockVars, adding, ids>>,
         queue' \in Seq(Functors), AddedOnce(queue'), QueuedAddrs' = QueuedAddrs
  PROVE  TimerInv'
<1> USE DEF batchVars, clockVars
<1>1. TypeOK /\ id[1] \in Addrs
  BY DEF TimerInv, TimerIds
<1>2. /\ SameTimers'
      /\ id \in activeTimers => /\ ListAddrs' = ListAddrs \ {id[1]}
                                /\ heap' = [heap EXCEPT ![id[1]] = Free]
                                /\ id[1] \in ListAddrs
      /\ id \notin activeTimers => ListAddrs' = ListAddrs /\ heap' = heap
      /\ timers' \subseteq timers /\ activeTimers' \subseteq activeTimers
      /\ cancelingTimers' \subseteq TimerIds /\ cancelled' \subseteq TimerIds
      /\ CancelRemembered'
  BY CancelEffect
<1>3. \A a \in Addrs :
        heap'[a] = IF id \in activeTimers /\ a = id[1] THEN Free ELSE heap[a]
  BY <1>1, <1>2 DEF TypeOK
<1>4. BatchAddrs' = BatchAddrs
  BY DEF BatchAddrs
<1>5. TypeOK'
  <2>1. heap' \in [Addrs -> Timers \cup {Free}]
    BY <1>1, <1>2 DEF TypeOK
  <2>2. QED
    BY <1>1, <1>2, <2>1 DEF TypeOK, Functors
<1>6. LiveIffOwned' /\ OwnersDisjoint'
  BY <1>2, <1>3, <1>4 DEF TimerInv, LiveIffOwned, OwnersDisjoint
<1>7. NumberedInOrder' /\ SkewBounded' /\ BatchWhileCalling'
  BY <1>3 DEF TimerInv, NumberedInOrder, SkewBounded, BatchWhileCalling
<1>8. QED
  BY <1>2, <1>5, <1>6, <1>7 DEF TimerInv

\* doPendingFunctors runs a functor of the timer queue.
LEMMA RunQueuedKeepsInv == TimerInv /\ RunQueued => TimerInv'
<1> SUFFICES ASSUME TimerInv, RunQueued PROVE TimerInv'
  OBVIOUS
<1> DEFINE f == Head(queue)
<1>1. queue # << >> /\ queue' = Tail(queue) /\ queue \in Seq(Functors) /\ AddedOnce(queue)
  BY DEF RunQueued, TimerInv, TypeOK, Functors, OwnersDisjoint
<1>2. CASE f.op = "add"
  BY <1>1, <1>2, RunAddKeepsInv DEF RunQueued
<1>3. CASE f.op = "cancel"
  <2>1. f.id \in TimerIds /\ queue' \in Seq(Functors) /\ AddedOnce(queue')
    BY <1>1, AddedByTail DEF Functors
  <2>2. QueuedAddrs' = QueuedAddrs
    <3>1. QueuedAddrs = AddedBy(queue) /\ QueuedAddrs' = AddedBy(queue')
      BY DEF QueuedAddrs, AddedBy
    <3>2. QED
      BY <1>1, <1>3, <3>1, AddedByTail
  <2>3. CancelInLoop(f.id) /\ UNCHANGED <<numCreated, batchVars, armed, clockVars, adding, ids>>
    BY <1>3 DEF RunQueued
  <2>4. QED
    BY <2>1, <2>2, <2>3, CancelKeepsInv
<1>4. QED
  BY <1>2, <1>3 DEF RunQueued

\* cancel in another thread queues a functor that owns nothing.
LEMMA QueueCancelKeepsInv ==
  ASSUME TimerInv, NEW id \in ids, Cancel(id)
  PROVE  TimerInv'
<1> DEFINE f == [op |-> "cancel", id |-> id]
<1> USE DEF heapVars, setVars, batchVars, clockVars
<1>1. f \in Functors /\ queue \in Seq(Functors) /\ queue' = Append(queue, f)
  BY DEF TimerInv, TypeOK, Functors, Cancel
<1>2. QueuedAddrs = AddedBy(queue) /\ QueuedAddrs' = AddedBy(queue')
  BY DEF QueuedAddrs, AddedBy
<1>3. QueuedAddrs' = QueuedAddrs /\ AddedOnce(queue')
  BY <1>1, <1>2, AddedByAppend DEF TimerInv, OwnersDisjoint
<1>4. queue' \in Seq(Functors)
  BY <1>1, AppendProperties
<1>5. TypeOK'
  BY <1>4 DEF TimerInv, TypeOK, Functors, Cancel
<1>6. ListAddrs' = ListAddrs /\ BatchAddrs' = BatchAddrs
  BY DEF Cancel, ListAddrs, BatchAddrs
<1>7. SameTimers' /\ LiveIffOwned' /\ OwnersDisjoint' /\ NumberedInOrder'
  BY <1>3, <1>6 DEF TimerInv, Cancel, SameTimers, IdOf, LiveIffOwned, OwnersDisjoint,
     NumberedInOrder
<1>8. CancelRemembered' /\ SkewBounded' /\ BatchWhileCalling'
  BY <1>6 DEF TimerInv, Cancel, CancelRemembered, SkewBounded, BatchWhileCalling
<1>9. QED
  BY <1>5, <1>7, <1>8 DEF TimerInv

\* getExpired moves the due timers from the list to the batch.  The batch was empty,
\* so cancelingTimers_ may be cleared: what was cancelled before is deleted.
LEMMA HandleReadKeepsInv == TimerInv /\ HandleRead => TimerInv'
<1> SUFFICES ASSUME TimerInv, HandleRead PROVE TimerInv'
  OBVIOUS
<1> USE DEF heapVars, clockVars, callerVars
<1> DEFINE D == BatchAddrs'
<1>1. TypeOK /\ SameTimers /\ expired = {} /\ BatchAddrs = {}
  BY DEF TimerInv, HandleRead, BatchWhileCalling, BatchAddrs
<1>2. /\ expired' \subseteq timers
      /\ timers' = timers \ expired'
      /\ activeTimers' = activeTimers \ {IdOf(e) : e \in expired'}
      /\ heap' = heap
  BY DEF HandleRead
<1>3. D = {e[2] : e \in expired'}
  BY DEF BatchAddrs
<1> HIDE DEF D
<1>4. expired' = {<<heap[a].expiration, a>> : a \in D}
  BY <1>1, <1>2, <1>3, ListForm
<1>5. {IdOf(e) : e \in expired'} = {<<a, heap[a].sequence>> : a \in D}
  BY <1>3 DEF IdOf
<1>6. SameTimers' /\ ListAddrs' = ListAddrs \ D
  BY <1>1, <1>2, <1>4, <1>5, ListRemove
<1>7. D \subseteq ListAddrs
  BY <1>2, <1>3 DEF ListAddrs
<1>8. QueuedAddrs' = QueuedAddrs /\ queue' = queue
  BY DEF HandleRead, QueuedAddrs
<1>9. TypeOK'
  BY <1>1, <1>2 DEF TypeOK, HandleRead, Modes
<1>10. LiveIffOwned' /\ OwnersDisjoint'
  BY <1>1, <1>2, <1>6, <1>7, <1>8 DEF TimerInv, LiveIffOwned, OwnersDisjoint, D
<1>11. CancelRemembered'
  BY <1>1, <1>2 DEF TimerInv, CancelRemembered, HandleRead
<1>12. NumberedInOrder' /\ SkewBounded' /\ BatchWhileCalling'
  BY DEF TimerInv, HandleRead, NumberedInOrder, SkewBounded, BatchWhileCalling
<1>13. QED
  BY <1>6, <1>9, <1>10, <1>11, <1>12 DEF TimerInv

\* reset: a timer of the batch goes back to the list or is deleted; a timer that is
\* remembered in cancelingTimers_ is deleted.
LEMMA ResetKeepsInv == TimerInv /\ Reset => TimerInv'
<1> SUFFICES ASSUME TimerInv, Reset PROVE TimerInv'
  OBVIOUS
<1> USE DEF clockVars, callerVars
<1> DEFINE RA == {e[2] : e \in Restarted}
           DA == {e[2] : e \in expired \ Restarted}
<1>1. TypeOK /\ SameTimers
  BY DEF TimerInv
<1>2. /\ heap' = [a \in Addrs |-> IF a \in DA THEN Free
                   ELSE IF a \in RA THEN [heap[a] EXCEPT !.expiration = Restart]
                   ELSE heap[a]]
      /\ timers' = timers \cup {<<Restart, a>> : a \in RA}
      /\ activeTimers' = activeTimers \cup {IdOf(e) : e \in Restarted}
      /\ armed' = IF timers' = {} THEN armed ELSE ResetTimerfd(First(timers')[1])
  BY DEF Reset
<1>3. RA \cup DA = BatchAddrs /\ RA \cap DA = {}
  <2>1. RA \cup DA = BatchAddrs
    BY DEF Restarted, BatchAddrs
  <2>2. RA \cap DA = {}
    BY DEF Restarted, IdOf
  <2>3. QED
    BY <2>1, <2>2
<1>4. {IdOf(e) : e \in Restarted} = {<<a, heap[a].sequence>> : a \in RA}
  BY DEF IdOf
<1>5. \A a \in RA : <<a, heap[a].sequence>> \notin cancelingTimers
  BY DEF Restarted, IdOf
<1> HIDE DEF RA, DA
<1>6. Restart \in Time
  BY <1>1, Constants DEF Restart, AddTime, TypeOK, Time
<1>7. /\ BatchAddrs \subseteq Addrs
      /\ \A a \in BatchAddrs : heap[a] \in Timers
  BY OwnedIsLive
<1>8. ListAddrs \subseteq Addrs /\ ListAddrs \cap BatchAddrs = {}
  BY <1>1, ListForm DEF TimerInv, OwnersDisjoint
<1>9. \A a \in RA : /\ heap'[a] \in Timers
                     /\ heap'[a].expiration = Restart
                     /\ heap'[a].sequence = heap[a].sequence
  BY <1>2, <1>3, <1>6, <1>7 DEF Timers
<1>10. \A a \in DA : heap'[a] = Free
  BY <1>2, <1>3, <1>7
<1>11. \A a \in Addrs \ BatchAddrs : heap'[a] = heap[a]
  BY <1>2, <1>3
<1>12. SameTimers' /\ ListAddrs' = ListAddrs \cup RA
  <2>1. \A a \in ListAddrs : heap'[a] = heap[a]
    BY <1>8, <1>11
  <2>2. timers' = {<<heap'[a].expiration, a>> : a \in ListAddrs \cup RA}
    BY <1>1, <1>2, <1>9, <2>1, ListEquations
  <2>3. activeTimers' = {<<a, heap'[a].sequence>> : a \in ListAddrs \cup RA}
    BY <1>1, <1>2, <1>4, <1>9, <2>1, ListEquations
  <2>4. QED
    BY <2>2, <2>3, ListFromAddrs
<1>13. BatchAddrs' = {} /\ QueuedAddrs' = QueuedAddrs /\ queue' = queue
  BY DEF Reset, BatchAddrs, QueuedAddrs
<1>14. TypeOK'
  <2>1. heap' \in [Addrs -> Timers \cup {Free}]
    <3>1. \A a \in Addrs : heap'[a] \in Timers \cup {Free}
      BY <1>1, <1>3, <1>9, <1>10, <1>11 DEF TypeOK
    <3>2. QED
      BY <1>2, <3>1
  <2>2. timers' \subseteq Time \X Addrs
    BY <1>1, <1>2, <1>3, <1>6, <1>7 DEF TypeOK
  <2>3. activeTimers' \subseteq TimerIds
    <3>1. \A a \in RA : <<a, heap[a].sequence>> \in TimerIds
      BY <1>3, <1>7 DEF TimerIds, Timers
    <3>2. QED
      BY <1>1, <1>2, <1>4, <3>1 DEF TypeOK
  <2>4. armed' \in Time \cup {Off}
    <3>1. timers' \in SUBSET (Nat \X Nat)
      BY <2>2, Constants
    <3>2. timers' # {} => First(timers')[1] \in Time
      BY <2>2, <3>1, FirstIsEarliest
    <3>3. QED
      BY <1>1, <1>2, <3>2, DelayIsPositive DEF TypeOK
  <2>5. QED
    BY <1>1, <2>1, <2>2, <2>3, <2>4, Constants DEF Reset, TypeOK, Modes
<1>15. LiveIffOwned' /\ OwnersDisjoint'
  <2>1. \A a \in Timers : a # Free
    BY Constants DEF Timers, Free, SequenceNumbers
  <2>2. LiveIffOwned'
    BY <1>3, <1>7, <1>8, <1>9, <1>10, <1>11, <1>12, <1>13, <2>1
       DEF TimerInv, LiveIffOwned, OwnersDisjoint
  <2>3. OwnersDisjoint'
    BY <1>3, <1>12, <1>13 DEF TimerInv, OwnersDisjoint
  <2>4. QED
    BY <2>2, <2>3
<1>16. NumberedInOrder'
  <2>1. numCreated' = numCreated
    BY DEF Reset
  <2>2. \A a \in RA : heap[a].sequence < numCreated
    BY <1>3, <1>7, OwnedIsLive
  <2>3. QED
    BY <1>3, <1>9, <1>10, <1>11, <2>1, <2>2 DEF TimerInv, NumberedInOrder
<1>17. CancelRemembered'
  <2> SUFFICES ASSUME NEW id \in cancelled
               PROVE  id[2] < numCreated /\ heap'[id[1]].sequence # id[2]
    BY DEF Reset, CancelRemembered
  <2>1. id = <<id[1], id[2]>> /\ id[1] \in Addrs /\ id[2] \in SequenceNumbers
    BY <1>1 DEF TypeOK, TimerIds
  <2>2. Free.sequence = MaxTimers /\ MaxTimers \notin SequenceNumbers
    BY Constants DEF Free, SequenceNumbers
  <2>3. id[2] < numCreated
    BY DEF TimerInv, CancelRemembered
  <2>4. CASE heap[id[1]].sequence # id[2]
    BY <1>3, <1>9, <1>10, <1>11, <2>1, <2>2, <2>3, <2>4
  <2>5. CASE heap[id[1]].sequence = id[2]
    <3>1. id[1] \in BatchAddrs /\ <<id[1], heap[id[1]].sequence>> \in cancelingTimers
      BY <2>1, <2>5 DEF TimerInv, CancelRemembered
    <3>2. id[1] \in DA
      BY <1>3, <1>5, <3>1
    <3>3. QED
      BY <1>10, <2>1, <2>2, <2>3, <3>2
  <2>6. QED
    BY <2>4, <2>5
<1>18. SkewBounded' /\ BatchWhileCalling'
  BY DEF TimerInv, Reset, SkewBounded, BatchWhileCalling
<1>19. QED
  BY <1>12, <1>14, <1>15, <1>16, <1>17, <1>18 DEF TimerInv

\* ~TimerQueue deletes what is listed; the batch is empty outside handleRead.
LEMMA DestroyKeepsInv == TimerInv /\ Destroy => TimerInv'
<1> SUFFICES ASSUME TimerInv, Destroy PROVE TimerInv'
  OBVIOUS
<1> USE DEF clockVars, callerVars
<1>1. TypeOK /\ SameTimers /\ expired = {} /\ BatchAddrs = {} /\ BatchAddrs' = {}
  BY DEF TimerInv, Destroy, BatchWhileCalling, BatchAddrs
<1>2. heap' = [a \in Addrs |-> IF a \in ListAddrs THEN Free ELSE heap[a]]
  BY DEF Destroy, ListAddrs
<1>3. SameTimers' /\ ListAddrs' = {}
  <2>1. timers' = {} /\ activeTimers' = {}
    BY DEF Destroy
  <2>2. QED
    BY <2>1 DEF SameTimers, ListAddrs, IdOf
<1>4. QueuedAddrs' = QueuedAddrs /\ queue' = queue
  BY DEF Destroy, QueuedAddrs
<1>5. TypeOK'
  <2>1. heap' \in [Addrs -> Timers \cup {Free}]
    BY <1>1, <1>2 DEF TypeOK
  <2>2. QED
    BY <1>1, <2>1 DEF Destroy, TypeOK, Modes
<1>6. LiveIffOwned' /\ OwnersDisjoint'
  BY <1>1, <1>2, <1>3, <1>4 DEF TimerInv, LiveIffOwned, OwnersDisjoint
<1>7. NumberedInOrder'
  BY <1>2 DEF TimerInv, NumberedInOrder, Destroy
<1>8. CancelRemembered'
  <2>1. \A id \in cancelled : id[1] \in Addrs /\ id[2] \in SequenceNumbers
    BY <1>1 DEF TypeOK, TimerIds
  <2>2. Free.sequence = MaxTimers /\ MaxTimers \notin SequenceNumbers
    BY Constants DEF Free, SequenceNumbers
  <2>3. QED
    BY <1>1, <1>2, <2>1, <2>2 DEF TimerInv, CancelRemembered, Destroy
<1>9. SkewBounded' /\ BatchWhileCalling'
  BY DEF TimerInv, Destroy, SkewBounded, BatchWhileCalling
<1>10. QED
  BY <1>3, <1>5, <1>6, <1>7, <1>8, <1>9 DEF TimerInv

\* A step that moves no timer keeps who owns what and what was cancelled.
LEMMA NoTimerMoves ==
  ASSUME TimerInv,
         UNCHANGED <<heap, numCreated, timers, activeTimers, cancelingTimers, expired,
                     queue, cancelled>>
  PROVE  /\ SameTimers' /\ LiveIffOwned' /\ OwnersDisjoint' /\ NumberedInOrder'
         /\ CancelRemembered'
<1>1. QueuedAddrs' = QueuedAddrs /\ ListAddrs' = ListAddrs /\ BatchAddrs' = BatchAddrs
  BY DEF QueuedAddrs, ListAddrs, BatchAddrs
<1>2. QED
  BY <1>1 DEF TimerInv, SameTimers, IdOf, LiveIffOwned, OwnersDisjoint, NumberedInOrder,
     CancelRemembered

\* The clock cannot be set forward beyond its range, and only MaxSteps times.
LEMMA SetClockKeepsInv ==
  ASSUME TimerInv, NEW t \in Time, SetClock(t)
  PROVE  TimerInv'
<1> USE DEF heapVars, setVars, batchVars, callerVars
<1>1. TypeOK /\ skew <= steps * MaxTime
  BY DEF TimerInv, SkewBounded
<1>2. /\ steps \in Nat /\ steps + 1 <= MaxSteps /\ steps' = steps + 1
      /\ skew \in Nat /\ skew' \in Nat /\ skew' <= skew + MaxTime
      /\ MaxTime \in Nat /\ MaxSteps \in Nat
  <2>1. /\ wall \in 0..MaxTime /\ t \in 0..MaxTime /\ steps \in Nat
        /\ MaxTime \in Nat /\ MaxSteps \in Nat
    BY <1>1, Constants DEF TypeOK, Time
  <2>2. skew \in Nat
    BY <1>1 DEF TypeOK
  <2>3. QED
    BY <2>1, <2>2 DEF SetClock
<1>3. (steps + 1) * MaxTime = steps * MaxTime + MaxTime
      /\ (steps + 1) * MaxTime <= MaxSteps * MaxTime
  BY <1>2
<1>4. skew' <= steps' * MaxTime /\ skew' <= MaxSteps * MaxTime
  BY <1>1, <1>2, <1>3
<1>5. TypeOK'
  <2>1. skew' \in 0..(MaxSteps * MaxTime) /\ steps' \in 0..MaxSteps
    BY <1>2, <1>4
  <2>2. QED
    BY <1>1, <2>1 DEF SetClock, TypeOK
<1>6. SkewBounded' /\ BatchWhileCalling'
  BY <1>4 DEF TimerInv, SetClock, SkewBounded, BatchWhileCalling
<1>7. QED
  BY <1>5, <1>6, NoTimerMoves DEF TimerInv, SetClock

\* Every operation of the timer queue, and every movement of the clocks.
LEMMA TimerInvStep == TimerInv /\ [Next]_vars => TimerInv'
<1> SUFFICES ASSUME TimerInv, [Next]_vars PROVE TimerInv'
  OBVIOUS
<1> USE DEF heapVars, setVars, batchVars, clockVars, callerVars
<1>1. ASSUME NEW w \in Workers, WorkerStep(w) PROVE TimerInv'
  <2>1. ASSUME NEW a \in Addrs, NEW when \in Time \ {0}, NEW i \in Intervals,
               AddTimer(w, a, when, i)
        PROVE  TimerInv'
    BY <2>1, AddTimerKeepsInv
  <2>2. CASE ReturnTimerId(w)
    <3>1. adding' \in [Workers -> TimerIds \cup {NoId}] /\ ids' \subseteq TimerIds
      <4>1. adding[w] \in TimerIds
        BY <2>2 DEF TimerInv, TypeOK, ReturnTimerId
      <4>2. adding[w][1] \in Addrs /\ adding[w][2] \in SequenceNumbers
        BY <4>1 DEF TimerIds
      <4>3. PICK s \in SequenceNumbers : ids' = ids \cup {<<adding[w][1], s>>}
        BY <2>2, <4>2 DEF ReturnTimerId
      <4>4. QED
        BY <2>2, <4>2, <4>3 DEF TimerInv, TypeOK, ReturnTimerId, TimerIds
    <3>2. TypeOK' /\ SkewBounded' /\ BatchWhileCalling'
      BY <2>2, <3>1 DEF TimerInv, TypeOK, ReturnTimerId, SkewBounded, BatchWhileCalling
    <3>3. QED
      BY <2>2, <3>2, NoTimerMoves DEF TimerInv, ReturnTimerId
  <2>3. ASSUME NEW id \in ids, Cancel(id) PROVE TimerInv'
    BY <2>3, QueueCancelKeepsInv
  <2>4. QED
    BY <1>1, <2>1, <2>2, <2>3 DEF WorkerStep
<1>2. ASSUME NEW a \in Addrs, NEW when \in Time \ {0}, NEW i \in Intervals,
             AddTimerDirect(a, when, i)
      PROVE  TimerInv'
  BY <1>2, AddTimerDirectKeepsInv
<1>3. ASSUME NEW id \in ids, CancelDirect(id) PROVE TimerInv'
  <2>1. id \in TimerIds /\ queue \in Seq(Functors) /\ AddedOnce(queue)
    BY <1>3 DEF TimerInv, TypeOK, Functors, OwnersDisjoint
  <2>2. queue' = queue /\ QueuedAddrs' = QueuedAddrs
    BY <1>3 DEF CancelDirect, QueuedAddrs
  <2>3. QED
    BY <1>3, <2>1, <2>2, CancelKeepsInv DEF CancelDirect
<1>4. CASE RunQueued
  BY <1>4, RunQueuedKeepsInv
<1>5. CASE PollTimerfd
  <2>1. TypeOK' /\ SkewBounded' /\ BatchWhileCalling'
    BY <1>5 DEF TimerInv, TypeOK, PollTimerfd, Modes, SkewBounded, BatchWhileCalling
  <2>2. QED
    BY <1>5, <2>1, NoTimerMoves DEF TimerInv, PollTimerfd
<1>6. CASE HandleRead
  BY <1>6, HandleReadKeepsInv
<1>7. CASE RunCallback
  <2>1. current' \in TimerIds
    <3>1. toRun \in SUBSET (Nat \X Nat) /\ toRun # {} /\ toRun \subseteq expired
      <4>1. toRun # {} /\ toRun \subseteq expired /\ expired \subseteq Time \X Addrs
        BY <1>7 DEF TimerInv, TypeOK, RunCallback
      <4>2. Time \X Addrs \subseteq Nat \X Nat
        BY Constants
      <4>3. QED
        BY <4>1, <4>2
    <3>2. First(toRun) \in expired
      BY <3>1, FirstIsEarliest
    <3>3. First(toRun)[2] \in BatchAddrs
      BY <3>2 DEF BatchAddrs
    <3>4. QED
      BY <1>7, <3>3, OwnedIsLive DEF RunCallback, IdOf, TimerIds
  <2>2. TypeOK' /\ SkewBounded' /\ BatchWhileCalling'
    BY <1>7, <2>1 DEF TimerInv, TypeOK, RunCallback, Modes, SkewBounded, BatchWhileCalling
  <2>3. QED
    BY <1>7, <2>2, NoTimerMoves DEF TimerInv, RunCallback
<1>8. CASE EndCallback
  <2>1. TypeOK' /\ SkewBounded' /\ BatchWhileCalling'
    BY <1>8 DEF TimerInv, TypeOK, EndCallback, Modes, SkewBounded, BatchWhileCalling
  <2>2. QED
    BY <1>8, <2>1, NoTimerMoves DEF TimerInv, EndCallback
<1>9. CASE Reset
  BY <1>9, ResetKeepsInv
<1>10. CASE Destroy
  BY <1>10, DestroyKeepsInv
<1>11. CASE Tick
  <2>1. wall' \in Time /\ armed' \in Time \cup {Off}
    BY <1>11, Constants DEF TimerInv, TypeOK, Tick, AddTime, Time, Off
  <2>2. TypeOK' /\ SkewBounded' /\ BatchWhileCalling'
    BY <1>11, <2>1 DEF TimerInv, TypeOK, Tick, SkewBounded, BatchWhileCalling
  <2>3. QED
    BY <1>11, <2>2, NoTimerMoves DEF TimerInv, Tick
<1>12. ASSUME NEW t \in Time \ {0}, SetClock(t) PROVE TimerInv'
  BY <1>12, SetClockKeepsInv
<1>13. CASE UNCHANGED vars
  <2>1. TypeOK' /\ SkewBounded' /\ BatchWhileCalling'
    BY <1>13 DEF TimerInv, TypeOK, vars, SkewBounded, BatchWhileCalling
  <2>2. QED
    BY <1>13, <2>1, NoTimerMoves DEF TimerInv, vars
<1>14. QED
  BY <1>1, <1>2, <1>3, <1>4, <1>5, <1>6, <1>7, <1>8, <1>9, <1>10, <1>11, <1>12, <1>13
     DEF Next, UserStep, LoopStep, Clocks

\* The invariant holds from the construction of the TimerQueue on.
LEMMA TimerInvariant == Spec => []TimerInv
<1>1. Init => TimerInv
  <2> SUFFICES ASSUME Init PROVE TimerInv
    OBVIOUS
  <2>1. QueuedAddrs = {} /\ ListAddrs = {} /\ BatchAddrs = {} /\ AddedOnce(queue)
    BY DEF Init, QueuedAddrs, ListAddrs, BatchAddrs, AddedOnce
  <2>2. << >> \in Seq(Functors)
    BY EmptySeq
  <2>3. /\ 0 * MaxTime = 0 /\ MaxSteps * MaxTime \in Nat
        /\ 0 \in 0..(MaxSteps * MaxTime) /\ 0 \in 0..MaxSteps /\ 0 \in 0..MaxTimers
    BY Constants
  <2>4. TypeOK
    BY <2>2, <2>3, Constants DEF Init, TypeOK, Functors, Modes
  <2>5. LiveIffOwned /\ OwnersDisjoint /\ NumberedInOrder
    BY <2>1 DEF Init, LiveIffOwned, OwnersDisjoint, NumberedInOrder
  <2>6. SameTimers /\ CancelRemembered /\ SkewBounded /\ BatchWhileCalling
    BY <2>3 DEF Init, SameTimers, CancelRemembered, SkewBounded, BatchWhileCalling
  <2>7. QED
    BY <2>4, <2>5, <2>6 DEF TimerInv
<1>2. QED
  BY <1>1, TimerInvStep, PTL DEF Spec

-----------------------------------------------------------------------------
(* What the invariant says of the timer list.                              *)

\* Every field of the TimerQueue keeps its type: in particular a functor that runs
\* addTimerInLoop and a callback that is started find a Timer, never freed memory.
LEMMA TimerTypesCorrect == Spec => []TypeOK
<1>1. TimerInv => TypeOK
  BY DEF TimerInv
<1>2. QED
  BY <1>1, TimerInvariant, PTL

\* timers_ and activeTimers_ always hold the same timers under their right keys, so
\* the assertions of insert, getExpired and cancelInLoop never fail.
THEOREM ListsAgree == Spec => []SameTimers
<1>1. TimerInv => SameTimers
  BY DEF TimerInv
<1>2. QED
  BY <1>1, TimerInvariant, PTL

\* Every Timer has exactly one owner: none leaks and none is deleted twice, however
\* addTimer, cancel, callbacks and the destructor interleave.
THEOREM TimersHaveOneOwner == Spec => []OneOwner
<1>1. TimerInv => OneOwner
  <2> SUFFICES ASSUME TimerInv, NEW a \in Addrs
               PROVE  LET owners == {o \in {"queue", "list", "batch"} :
                            \/ o = "queue" /\ a \in QueuedAddrs
                            \/ o = "list" /\ a \in {e[2] : e \in timers}
                            \/ o = "batch" /\ a \in {e[2] : e \in expired}}
                      IN  Cardinality(owners) = IF heap[a] = Free THEN 0 ELSE 1
    BY DEF OneOwner
  <2> DEFINE owners == {o \in {"queue", "list", "batch"} :
                          \/ o = "queue" /\ a \in QueuedAddrs
                          \/ o = "list" /\ a \in {e[2] : e \in timers}
                          \/ o = "batch" /\ a \in {e[2] : e \in expired}}
  <2>1. owners = (IF a \in QueuedAddrs THEN {"queue"} ELSE {})
                   \cup (IF a \in ListAddrs THEN {"list"} ELSE {})
                   \cup (IF a \in BatchAddrs THEN {"batch"} ELSE {})
    BY DEF ListAddrs, BatchAddrs
  <2> HIDE DEF owners
  <2>2. heap[a] = Free => owners = {}
    BY <2>1 DEF TimerInv, LiveIffOwned
  <2>3. heap[a] # Free => \E o : owners = {o}
    BY <2>1 DEF TimerInv, LiveIffOwned, OwnersDisjoint
  <2>4. Cardinality(owners) = IF heap[a] = Free THEN 0 ELSE 1
    BY <2>2, <2>3, FS_EmptySet, FS_Singleton
  <2>5. QED
    BY <2>4 DEF owners
<1>2. QED
  BY <1>1, TimerInvariant, PTL

\* A timer that was cancelled, even by its own callback or by another callback of
\* the same batch, is not in the list again: reset does not restart it.
THEOREM CancelIsFinal == Spec => []CancelledNotRestarted
<1>1. TimerInv => CancelledNotRestarted
  <2> SUFFICES ASSUME TimerInv, NEW id \in cancelled, id \in activeTimers PROVE FALSE
    BY DEF CancelledNotRestarted
  <2>1. id[1] \in ListAddrs /\ id = <<id[1], heap[id[1]].sequence>>
    BY ListForm DEF TimerInv
  <2>2. id[2] = heap[id[1]].sequence
    BY <2>1
  <2>3. id[1] \in BatchAddrs
    BY <2>2 DEF TimerInv, CancelRemembered
  <2>4. QED
    BY <2>1, <2>3 DEF TimerInv, OwnersDisjoint
<1>2. QED
  BY <1>1, TimerInvariant, PTL

-----------------------------------------------------------------------------
(* Stale ids.                                                              *)

\* Of the batch, cancelingTimers_ holds only timers that were cancelled by their own
\* id: it is emptied when the batch is taken, and ids are added while it runs.
BatchCancelNoted == \A e \in expired : IdOf(e) \in cancelingTimers => IdOf(e) \in cancelled

\* Steps that leave the batch and its objects alone.
LEMMA BatchUnchanged ==
  ASSUME BatchCancelNoted, expired' = expired,
         \A e \in expired : heap'[e[2]] = heap[e[2]],
         cancelingTimers' \subseteq cancelingTimers, cancelled \subseteq cancelled'
  PROVE  BatchCancelNoted'
<1>1. \A e \in expired : IdOf(e)' = IdOf(e)
  BY DEF IdOf
<1>2. QED
  BY <1>1 DEF BatchCancelNoted, IdOf

\* cancelInLoop notes the timers of the batch whose ids it is given.
LEMMA CancelNotes ==
  ASSUME TimerInv, BatchCancelNoted, NEW id \in TimerIds, CancelInLoop(id),
         expired' = expired
  PROVE  /\ BatchCancelNoted'
         /\ \A x \in activeTimers \ activeTimers' : x \in cancelled'
<1>1. cancelled' = IF id \in activeTimers \cup {IdOf(e) : e \in expired}
                     THEN cancelled \cup {id} ELSE cancelled
  BY DEF CancelInLoop, NoteCancelled
<1>2. CASE id \in activeTimers
  <2>1. /\ activeTimers' = activeTimers \ {id} /\ cancelingTimers' = cancelingTimers
        /\ heap' = [heap EXCEPT ![id[1]] = Free]
    BY <1>2 DEF CancelInLoop
  <2>2. id[1] \in ListAddrs
    BY <1>2, ListForm DEF TimerInv
  <2>3. ASSUME NEW e \in expired PROVE heap'[e[2]] = heap[e[2]]
    <3>1. e[2] # id[1] /\ e[2] \in Addrs
      BY <2>2, <2>3 DEF TimerInv, OwnersDisjoint, BatchAddrs, TypeOK
    <3>2. QED
      BY <2>1, <3>1 DEF TimerInv, TypeOK
  <2>4. cancelled' = cancelled \cup {id}
    BY <1>1, <1>2
  <2>5. BatchCancelNoted'
    BY <2>1, <2>3, <2>4, BatchUnchanged
  <2>6. QED
    BY <2>1, <2>4, <2>5
<1>3. CASE id \notin activeTimers
  <2>1. /\ activeTimers' = activeTimers /\ heap' = heap
        /\ cancelingTimers' \subseteq cancelingTimers \cup {id}
    BY <1>3 DEF CancelInLoop
  <2>2. ASSUME NEW e \in expired, IdOf(e) \in cancelingTimers' PROVE IdOf(e) \in cancelled'
    <3>1. CASE IdOf(e) = id
      BY <1>1, <3>1
    <3>2. CASE IdOf(e) # id
      <4>1. IdOf(e) \in cancelingTimers
        BY <2>1, <2>2, <3>2
      <4>2. QED
        BY <1>1, <4>1 DEF BatchCancelNoted
    <3>3. QED
      BY <3>1, <3>2
  <2>3. QED
    BY <2>1, <2>2 DEF BatchCancelNoted, IdOf
<1>4. QED
  BY <1>2, <1>3

\* A new Timer is not at an address of the batch.
LEMMA CreationKeepsBatch ==
  ASSUME TimerInv, BatchCancelNoted, NEW a \in Addrs, NEW t, MayCreate(a),
         heap' = [heap EXCEPT ![a] = t], UNCHANGED <<expired, cancelingTimers, cancelled>>
  PROVE  BatchCancelNoted'
<1>1. a \notin BatchAddrs
  BY DEF MayCreate, TimerInv, LiveIffOwned
<1>2. ASSUME NEW e \in expired PROVE heap'[e[2]] = heap[e[2]]
  <2>1. e[2] # a /\ e[2] \in Addrs
    BY <1>1, <1>2 DEF BatchAddrs, TimerInv, TypeOK
  <2>2. QED
    BY <2>1 DEF TimerInv, TypeOK
<1>3. QED
  BY <1>2, BatchUnchanged

\* What OnlyOwnIdStops asks of a step.
StopsOwn ==
  /\ \A id \in activeTimers \ activeTimers' :
       id \in cancelled' \/ id \in {IdOf(e) : e \in expired}' \/ mode' = "gone"
  /\ \A e \in expired \ expired' :
       heap[e[2]].interval = 0 \/ IdOf(e) \in activeTimers' \cup cancelled'

\* getExpired moves what it takes from the list to the batch.
LEMMA HandleReadStops ==
  ASSUME TimerInv, HandleRead
  PROVE  BatchCancelNoted' /\ StopsOwn
<1>1. expired = {}
  BY DEF HandleRead, TimerInv, BatchWhileCalling
<1>2. /\ cancelingTimers' = {} /\ heap' = heap
      /\ activeTimers' = activeTimers \ {IdOf(e) : e \in expired'}
  BY DEF HandleRead, heapVars
<1>3. {IdOf(e) : e \in expired}' = {IdOf(e) : e \in expired'}
  BY <1>2 DEF IdOf
<1>4. BatchCancelNoted'
  BY <1>2 DEF BatchCancelNoted
<1>5. \A id \in activeTimers \ activeTimers' : id \in {IdOf(e) : e \in expired}'
  BY <1>2, <1>3
<1>6. QED
  BY <1>1, <1>4, <1>5 DEF StopsOwn

\* reset restarts every repeating timer that was not cancelled.
LEMMA ResetStops ==
  ASSUME TimerInv, BatchCancelNoted, Reset
  PROVE  BatchCancelNoted' /\ StopsOwn
<1>1. /\ expired' = {} /\ cancelled' = cancelled
      /\ activeTimers' = activeTimers \cup {IdOf(e) : e \in Restarted}
  BY DEF Reset
<1>2. BatchCancelNoted'
  BY <1>1 DEF BatchCancelNoted
<1>3. ASSUME NEW e \in expired
      PROVE  heap[e[2]].interval = 0 \/ IdOf(e) \in activeTimers' \cup cancelled'
  <2>1. CASE e \in Restarted
    BY <1>1, <2>1
  <2>2. CASE IdOf(e) \in cancelingTimers
    BY <1>1, <1>3, <2>2 DEF BatchCancelNoted
  <2>3. CASE ~ (heap[e[2]].interval > 0)
    <3>1. e[2] \in BatchAddrs /\ e[2] \in Addrs
      BY <1>3 DEF BatchAddrs, TimerInv, TypeOK
    <3>2. heap[e[2]] \in Timers
      BY <3>1, OwnedIsLive
    <3>3. heap[e[2]].interval \in {0, 1}
      BY <3>2 DEF Timers, Intervals
    <3>4. QED
      BY <2>3, <3>3
  <2>4. QED
    BY <1>3, <2>1, <2>2, <2>3 DEF Restarted
<1>4. QED
  BY <1>1, <1>2, <1>3 DEF StopsOwn

\* Every step stops timers by their own ids only.
LEMMA StopsStep ==
  TimerInv /\ BatchCancelNoted /\ [Next]_vars => BatchCancelNoted' /\ [StopsOwn]_vars
<1> SUFFICES ASSUME TimerInv, BatchCancelNoted, [Next]_vars
             PROVE  BatchCancelNoted' /\ [StopsOwn]_vars
  OBVIOUS
<1> USE DEF heapVars, setVars, batchVars, callerVars
<1>1. ASSUME activeTimers \subseteq activeTimers', expired' = expired PROVE StopsOwn
  BY <1>1 DEF StopsOwn
<1>2. ASSUME UNCHANGED <<heap, expired, cancelingTimers, cancelled>> PROVE BatchCancelNoted'
  BY <1>2, BatchUnchanged
<1>3. ASSUME NEW w \in Workers, WorkerStep(w) PROVE BatchCancelNoted' /\ StopsOwn
  <2>1. StopsOwn
    BY <1>1, <1>3 DEF WorkerStep, AddTimer, ReturnTimerId, Cancel
  <2>2. ASSUME NEW a \in Addrs, NEW when, NEW i, AddTimer(w, a, when, i)
        PROVE  BatchCancelNoted'
    <3>1. /\ MayCreate(a) /\ heap' = [heap EXCEPT ![a] = NewTimer(when, i)]
          /\ UNCHANGED <<expired, cancelingTimers, cancelled>>
      BY <2>2 DEF AddTimer
    <3>2. QED
      BY <3>1, CreationKeepsBatch
  <2>3. ASSUME ReturnTimerId(w) \/ \E id \in ids : Cancel(id) PROVE BatchCancelNoted'
    BY <1>2, <2>3 DEF ReturnTimerId, Cancel
  <2>4. QED
    BY <1>3, <2>1, <2>2, <2>3 DEF WorkerStep
<1>4. ASSUME NEW a \in Addrs, NEW when \in Time \ {0}, NEW i \in Intervals,
             AddTimerDirect(a, when, i)
      PROVE  BatchCancelNoted' /\ StopsOwn
  <2>1. /\ MayCreate(a) /\ heap' = [heap EXCEPT ![a] = NewTimer(when, i)]
        /\ UNCHANGED <<expired, cancelingTimers, cancelled>>
        /\ activeTimers \subseteq activeTimers'
    BY <1>4 DEF AddTimerDirect, AddTimerInLoop
  <2>2. QED
    BY <1>1, <2>1, CreationKeepsBatch
<1>5. ASSUME NEW id \in TimerIds, CancelInLoop(id), expired' = expired
      PROVE  BatchCancelNoted' /\ StopsOwn
  BY <1>5, CancelNotes DEF StopsOwn
<1>6. ASSUME NEW id \in ids, CancelDirect(id) PROVE BatchCancelNoted' /\ StopsOwn
  <2>1. id \in TimerIds /\ CancelInLoop(id) /\ expired' = expired
    BY <1>6 DEF CancelDirect, TimerInv, TypeOK
  <2>2. QED
    BY <1>5, <2>1
<1>7. CASE RunQueued
  <2>1. expired' = expired
    BY <1>7 DEF RunQueued
  <2>2. CASE Head(queue).op = "add"
    <3>1. /\ UNCHANGED <<heap, cancelingTimers, cancelled>>
          /\ activeTimers \subseteq activeTimers'
      BY <1>7, <2>2 DEF RunQueued, AddTimerInLoop
    <3>2. QED
      BY <1>1, <1>2, <2>1, <3>1
  <2>3. CASE Head(queue).op # "add"
    <3>1. Head(queue).id \in TimerIds
      <4>1. queue \in Seq(Functors) /\ queue # << >>
        BY <1>7 DEF TimerInv, TypeOK, RunQueued, Functors
      <4>2. Head(queue) \in Functors
        BY <4>1, HeadTailProperties
      <4>3. QED
        BY <4>2 DEF Functors
    <3>2. CancelInLoop(Head(queue).id)
      BY <1>7, <2>3 DEF RunQueued
    <3>3. QED
      BY <1>5, <2>1, <3>1, <3>2
  <2>4. QED
    BY <2>2, <2>3
<1>8. CASE PollTimerfd \/ RunCallback \/ EndCallback
  BY <1>1, <1>2, <1>8 DEF PollTimerfd, RunCallback, EndCallback
<1>9. CASE HandleRead
  BY <1>9, HandleReadStops
<1>10. CASE Reset
  BY <1>10, ResetStops
<1>11. CASE Destroy
  BY <1>11 DEF Destroy, BatchCancelNoted, StopsOwn
<1>12. CASE Clocks
  BY <1>1, <1>2, <1>12 DEF Clocks, Tick, SetClock
<1>13. CASE UNCHANGED vars
  BY <1>2, <1>13 DEF vars
<1>14. QED
  BY <1>3, <1>4, <1>6, <1>7, <1>8, <1>9, <1>10, <1>11, <1>12, <1>13
     DEF Next, UserStep, LoopStep

\* However addresses are reused, a TimerId stops no timer but its own: a listed timer
\* leaves the list only to be called back, by its own cancel or with the queue, and a
\* repeating one comes back unless it was cancelled.
THEOREM StaleIdsStopNothing == Spec => OnlyOwnIdStops
<1>1. Init => BatchCancelNoted
  BY DEF Init, BatchCancelNoted
<1>2. QED
  BY <1>1, TimerInvariant, StopsStep, PTL DEF Spec, OnlyOwnIdStops, StopsOwn

-----------------------------------------------------------------------------
(* The timerfd.                                                            *)

\* The earliest of more entries is no later.
LEMMA FirstOfMore ==
  ASSUME NEW S \in SUBSET (Nat \X Nat), NEW T \in SUBSET S, T # {}
  PROVE  First(S)[1] <= First(T)[1] /\ First(S)[1] \in Nat /\ First(T)[1] \in Nat
<1>1. First(S) \in S /\ \A d \in S : First(S)[1] <= d[1]
  BY FirstIsEarliest
<1>2. First(T) \in T
  BY FirstIsEarliest
<1>3. QED
  BY <1>1, <1>2

\* insert of e: begin() is e if e expires earlier, and expires when it did otherwise.
LEMMA FirstAfterInsert ==
  ASSUME NEW S \in SUBSET (Nat \X Nat), NEW e \in Nat \X Nat
  PROVE  LET T == S \cup {e}
         IN  IF S = {} \/ e[1] < First(S)[1] THEN First(T)[1] = e[1]
                                             ELSE First(T)[1] = First(S)[1]
<1> DEFINE T == S \cup {e}
<1>1. First(T) \in T /\ \A d \in T : First(T)[1] <= d[1]
  <2>1. T \in SUBSET (Nat \X Nat) /\ T # {}
    OBVIOUS
  <2> HIDE DEF T
  <2>2. QED
    BY <2>1, FirstIsEarliest
<1>2. S # {} => First(S) \in S /\ \A d \in S : First(S)[1] <= d[1]
  BY FirstIsEarliest
<1>3. \A d \in T : d[1] \in Nat
  OBVIOUS
<1>4. QED
  BY <1>1, <1>2, <1>3

\* The entries of timers_ are pairs of numbers.
LEMMA EntriesAreNumbers ==
  ASSUME TypeOK
  PROVE  /\ timers \in SUBSET (Nat \X Nat)
         /\ timers # {} => First(timers)[1] \in Time
<1>1. timers \subseteq Time \X Addrs /\ Time \X Addrs \subseteq Nat \X Nat
  BY Constants DEF TypeOK
<1>2. timers \in SUBSET (Nat \X Nat)
  BY <1>1
<1>3. timers # {} => First(timers) \in timers
  BY <1>2, FirstIsEarliest
<1>4. QED
  BY <1>1, <1>2, <1>3

\* The timerfd is set to run out for the earliest timer, in the state after a step.
ArmedNow == armed <= HowMuchTimeFromNow(First(timers)[1]) + skew /\ armed # Off

\* Setting the timerfd for the earliest timer arms it for that timer.
LEMMA ResetArms ==
  ASSUME TypeOK, TypeOK', UNCHANGED clockVars, timers' # {},
         armed' = ResetTimerfd(First(timers')[1])
  PROVE  ArmedNow'
<1>1. First(timers')[1] \in Time
  <2>1. timers' \subseteq Time \X Addrs /\ Time \X Addrs \subseteq Nat \X Nat
    BY Constants DEF TypeOK
  <2>2. timers' \in SUBSET (Nat \X Nat)
    BY <2>1
  <2>3. First(timers') \in timers'
    BY <2>2, FirstIsEarliest
  <2>4. QED
    BY <2>1, <2>3
<1>2. /\ armed' = HowMuchTimeFromNow(First(timers')[1])
      /\ HowMuchTimeFromNow(First(timers')[1]) \in 1..MaxTime
  BY <1>1, DelayIsPositive
<1>3. wall' = wall /\ skew' = skew /\ skew \in Nat /\ MaxTime \in Nat
  BY Constants DEF clockVars, TypeOK
<1> DEFINE x == First(timers')[1]
<1>4. HowMuchTimeFromNow(First(timers)[1])' = HowMuchTimeFromNow(x)
  BY <1>3 DEF HowMuchTimeFromNow
<1> HIDE DEF x
<1>5. QED
  BY <1>2, <1>3, <1>4 DEF ArmedNow, Off, x

\* Removing timers never makes the timerfd late for the ones that stay.
LEMMA RemovalKeepsArmed ==
  ASSUME TypeOK, ArmedForEarliest, timers' \subseteq timers,
         UNCHANGED <<armed, clockVars>>,
         mode' \in {"idle", "dispatch"} => mode \in {"idle", "dispatch"}
  PROVE  ArmedForEarliest'
<1> SUFFICES ASSUME mode' \in {"idle", "dispatch"}, timers' # {} PROVE ArmedNow'
  BY DEF ArmedForEarliest, ArmedNow
<1> DEFINE x == First(timers)[1]
           y == First(timers')[1]
<1>1. armed <= HowMuchTimeFromNow(x) + skew /\ armed # Off
  BY DEF ArmedForEarliest
<1>2. x <= y /\ x \in Nat /\ y \in Nat
  BY EntriesAreNumbers, FirstOfMore
<1>3. wall' = wall /\ skew' = skew /\ armed' = armed
      /\ skew \in Nat /\ wall \in Nat /\ armed \in Nat
  BY Constants DEF clockVars, TypeOK, Off
<1> HIDE DEF x, y
<1>4. HowMuchTimeFromNow(x) <= HowMuchTimeFromNow(y)
      /\ HowMuchTimeFromNow(x) \in Nat /\ HowMuchTimeFromNow(y) \in Nat
  BY <1>2, <1>3 DEF HowMuchTimeFromNow
<1>5. HowMuchTimeFromNow(First(timers)[1])' = HowMuchTimeFromNow(y)
  BY <1>3 DEF HowMuchTimeFromNow, y
<1>6. QED
  BY <1>1, <1>3, <1>4, <1>5 DEF ArmedNow, Off

\* insert re-arms the timerfd exactly when the new timer is the earliest.
LEMMA InsertKeepsArmed ==
  ASSUME TypeOK, TypeOK', ArmedForEarliest, UNCHANGED <<mode, clockVars>>,
         NEW a \in Addrs, NEW t, t.expiration \in Time, AddTimerInLoop(a, t)
  PROVE  ArmedForEarliest'
<1> SUFFICES ASSUME mode \in {"idle", "dispatch"} PROVE ArmedNow'
  BY DEF ArmedForEarliest, ArmedNow
<1> DEFINE e == <<t.expiration, a>>
<1>1. timers' = timers \cup {e} /\ timers \in SUBSET (Nat \X Nat) /\ e \in Nat \X Nat
  BY EntriesAreNumbers, Constants DEF AddTimerInLoop
<1>2. IF timers = {} \/ e[1] < First(timers)[1] THEN First(timers')[1] = e[1]
                                               ELSE First(timers')[1] = First(timers)[1]
  BY <1>1, FirstAfterInsert
<1>3. e[1] = t.expiration /\ timers' # {}
  BY <1>1
<1>4. CASE EarliestChanged(t.expiration)
  <2>1. armed' = ResetTimerfd(First(timers')[1])
    BY <1>2, <1>3, <1>4 DEF AddTimerInLoop, EarliestChanged
  <2>2. QED
    BY <1>3, <2>1, ResetArms
<1>5. CASE ~ EarliestChanged(t.expiration)
  <2>1. timers # {} /\ First(timers')[1] = First(timers)[1] /\ armed' = armed
    BY <1>2, <1>3, <1>5 DEF AddTimerInLoop, EarliestChanged
  <2>2. wall' = wall /\ skew' = skew
    BY DEF clockVars
  <2>3. HowMuchTimeFromNow(First(timers)[1])' = HowMuchTimeFromNow(First(timers)[1])
    BY <2>1, <2>2 DEF HowMuchTimeFromNow
  <2>4. ArmedNow
    BY <2>1 DEF ArmedForEarliest, ArmedNow
  <2>5. QED
    BY <2>1, <2>2, <2>3, <2>4 DEF ArmedNow, Off
<1>6. QED
  BY <1>4, <1>5

\* Both clocks advance by a tick: the timerfd runs down as fast as the delay.
LEMMA TickKeepsArmed ==
  ASSUME TypeOK, ArmedForEarliest, Tick
  PROVE  ArmedForEarliest'
<1> SUFFICES ASSUME mode \in {"idle", "dispatch"}, timers # {} PROVE ArmedNow'
  BY DEF ArmedForEarliest, ArmedNow, Tick, batchVars, setVars
<1> DEFINE x == First(timers)[1]
<1>1. x \in Nat /\ timers' = timers /\ skew' = skew
  BY EntriesAreNumbers, Constants DEF Tick, setVars
<1>2. /\ armed <= HowMuchTimeFromNow(x) + skew /\ armed # Off
      /\ armed \in 0..MaxTime /\ MaxTime \in Nat /\ skew \in Nat /\ wall \in 0..MaxTime
  BY Constants DEF ArmedForEarliest, TypeOK, Time
<1>3. (wall' = wall \/ wall' = wall + 1)
      /\ armed' = (IF armed \in 1..MaxTime THEN armed - 1 ELSE armed)
  BY <1>2 DEF Tick, AddTime
<1> HIDE DEF x
<1>4. HowMuchTimeFromNow(First(timers)[1])' = IF x > wall' THEN x - wall' ELSE 1
  BY <1>1 DEF HowMuchTimeFromNow, x
<1>5. armed' <= (IF x > wall' THEN x - wall' ELSE 1) + skew
  BY <1>1, <1>2, <1>3 DEF HowMuchTimeFromNow
<1>6. armed' # Off
  BY <1>2, <1>3 DEF Off
<1>7. QED
  BY <1>1, <1>4, <1>5, <1>6 DEF ArmedNow, Off

\* The wall clock is set: forward, the delay shrinks by what skew accounts for; back,
\* it only grows.
LEMMA SetClockKeepsArmed ==
  ASSUME TypeOK, ArmedForEarliest, NEW t \in Time, SetClock(t)
  PROVE  ArmedForEarliest'
<1> SUFFICES ASSUME mode \in {"idle", "dispatch"}, timers # {} PROVE ArmedNow'
  BY DEF ArmedForEarliest, ArmedNow, SetClock, batchVars, setVars
<1> DEFINE x == First(timers)[1]
<1>1. x \in Nat /\ timers' = timers /\ armed' = armed
  BY EntriesAreNumbers, Constants DEF SetClock, setVars
<1>2. /\ armed <= HowMuchTimeFromNow(x) + skew /\ armed # Off
      /\ armed \in Nat /\ skew \in Nat /\ wall \in Nat /\ t \in Nat
  BY Constants DEF ArmedForEarliest, TypeOK, Time, Off
<1>3. wall' = t /\ skew' = IF t > wall THEN skew + (t - wall) ELSE skew
  BY DEF SetClock
<1> HIDE DEF x
<1>4. HowMuchTimeFromNow(First(timers)[1])' = IF x > t THEN x - t ELSE 1
  BY <1>1, <1>3 DEF HowMuchTimeFromNow, x
<1>5. armed <= (IF x > t THEN x - t ELSE 1) + skew'
  BY <1>1, <1>2, <1>3 DEF HowMuchTimeFromNow
<1>6. QED
  BY <1>1, <1>2, <1>4, <1>5 DEF ArmedNow, Off

\* Every step keeps the timerfd armed for the earliest timer outside handleRead.
LEMMA ArmedStep ==
  TimerInv /\ TimerInv' /\ ArmedForEarliest /\ [Next]_vars => ArmedForEarliest'
<1> SUFFICES ASSUME TimerInv, TimerInv', ArmedForEarliest, [Next]_vars
             PROVE  ArmedForEarliest'
  OBVIOUS
<1> USE DEF heapVars, setVars, batchVars, callerVars
<1>1. TypeOK /\ TypeOK'
  BY DEF TimerInv
<1>2. ASSUME timers' \subseteq timers, UNCHANGED <<armed, clockVars, mode>>
      PROVE  ArmedForEarliest'
  BY <1>1, <1>2, RemovalKeepsArmed
<1>3. ASSUME NEW w \in Workers, WorkerStep(w) PROVE ArmedForEarliest'
  BY <1>2, <1>3 DEF WorkerStep, AddTimer, ReturnTimerId, Cancel
<1>4. ASSUME NEW a \in Addrs, NEW when \in Time \ {0}, NEW i \in Intervals,
             AddTimerDirect(a, when, i)
      PROVE  ArmedForEarliest'
  <2>1. NewTimer(when, i).expiration \in Time
    BY DEF NewTimer
  <2>2. QED
    BY <1>1, <1>4, <2>1, InsertKeepsArmed DEF AddTimerDirect
<1>5. ASSUME NEW id \in ids, CancelDirect(id) PROVE ArmedForEarliest'
  <2>1. timers' \subseteq timers
    BY <1>5 DEF CancelDirect, CancelInLoop
  <2>2. QED
    BY <1>2, <1>5, <2>1 DEF CancelDirect
<1>6. CASE RunQueued
  <2>1. CASE Head(queue).op = "add"
    <3>1. Head(queue).id[1] \in Addrs
      <4>1. queue \in Seq(Functors) /\ queue # << >>
        BY <1>1, <1>6 DEF TypeOK, RunQueued, Functors
      <4>2. Head(queue) \in Functors
        BY <4>1, HeadTailProperties
      <4>3. QED
        BY <4>2 DEF Functors, TimerIds
    <3>2. heap[Head(queue).id[1]].expiration \in Time
      BY <1>1, <3>1, LiveTimer
    <3>3. QED
      BY <1>1, <1>6, <2>1, <3>1, <3>2, InsertKeepsArmed DEF RunQueued
  <2>2. CASE Head(queue).op # "add"
    <3>1. timers' \subseteq timers
      BY <1>6, <2>2 DEF RunQueued, CancelInLoop
    <3>2. QED
      BY <1>2, <1>6, <2>2, <3>1 DEF RunQueued
  <2>3. QED
    BY <2>1, <2>2
<1>7. CASE PollTimerfd
  BY <1>1, <1>7, RemovalKeepsArmed DEF PollTimerfd
<1>8. CASE HandleRead \/ RunCallback \/ EndCallback
  BY <1>8 DEF ArmedForEarliest, HandleRead, RunCallback, EndCallback
<1>9. CASE Reset
  <2>1. timers' # {} => ArmedNow'
    BY <1>1, <1>9, ResetArms DEF Reset
  <2>2. QED
    BY <2>1 DEF ArmedForEarliest, ArmedNow
<1>10. CASE Destroy
  BY <1>10 DEF ArmedForEarliest, Destroy
<1>11. CASE Tick
  BY <1>1, <1>11, TickKeepsArmed
<1>12. ASSUME NEW t \in Time \ {0}, SetClock(t) PROVE ArmedForEarliest'
  BY <1>1, <1>12, SetClockKeepsArmed
<1>13. CASE UNCHANGED vars
  BY <1>2, <1>13 DEF vars
<1>14. QED
  BY <1>3, <1>4, <1>5, <1>6, <1>7, <1>8, <1>9, <1>10, <1>11, <1>12, <1>13
     DEF Next, UserStep, LoopStep, Clocks

\* While a timer is listed the timerfd is armed, and for no later than the earliest
\* timer is due plus what the wall clock was set forward.
THEOREM TimerfdArmedInTime == Spec => []ArmedForEarliest
<1>1. Init => ArmedForEarliest
  BY DEF Init, ArmedForEarliest
<1>2. QED
  BY <1>1, TimerInvariant, ArmedStep, PTL DEF Spec
=============================================================================

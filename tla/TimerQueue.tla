----------------------------- MODULE TimerQueue -----------------------------
(***************************************************************************)
(* The TimerQueue of one EventLoop (src/mymuduo/TimerQueue.cpp): Timer     *)
(* objects on the heap, the ordered set timers_, the set activeTimers_     *)
(* with the same timers by address, the timerfd that is armed for the      *)
(* earliest of them, and the batch of expired timers being called.         *)
(*                                                                         *)
(* Threads other than the loop's call addTimer and cancel through the      *)
(* loop's functor queue (module EventLoop, here the sequence queue); code  *)
(* that runs in the loop thread, timer callbacks included, calls them      *)
(* directly.  Addresses of deleted timers are reused.                      *)
(*                                                                         *)
(* There are two clocks.  Expirations are times of the wall clock          *)
(* (gettimeofday), which may be set forward and back; the timerfd counts   *)
(* down on the monotonic clock.  Both advance in ticks of at least 100     *)
(* microseconds, the least delay that is ever asked for.  The wall clock   *)
(* stops at MaxTime, which stands for every later time as well.            *)
(***************************************************************************)
EXTENDS Naturals, Sequences, FiniteSets

CONSTANTS
  Workers,        \* threads other than the loop thread
  Addrs,          \* addresses that new Timer may return (numbers: they are ordered)
  MaxTimers,      \* bound on the number of timers ever created
  MaxTime,        \* the wall clock saturates here
  MaxSteps,       \* how often the wall clock may be set
  MaxQueue        \* bound on queued functors

ASSUME TimerBounds ==
  /\ Addrs \subseteq Nat
  /\ MaxTimers \in Nat
  /\ MaxTime \in Nat \ {0}
  /\ {MaxSteps, MaxQueue} \subseteq Nat

Time == 0..MaxTime
SequenceNumbers == 0..(MaxTimers - 1)
Intervals == {0, 1}                    \* one-shot, or repeating every tick
TimerIds == Addrs \X SequenceNumbers        \* a TimerId: address and sequence number
Timers == [sequence : SequenceNumbers, expiration : Time, interval : Intervals]
Free == [sequence |-> MaxTimers, expiration |-> 0, interval |-> 0]
NoId == << >>
Off == MaxTime + 1                     \* the timerfd is disarmed

VARIABLES
  heap,           \* heap[a]: the Timer at address a, or Free
  numCreated,     \* Timer::s_numCreated_
  timers,         \* timers_: pairs of expiration and address
  activeTimers,   \* activeTimers_: timer ids
  cancelingTimers,\* cancelingTimers_: timer ids
  calling,        \* callingExpiredTimers_
  expired,        \* the batch of handleRead: pairs of expiration and address
  toRun,          \* entries of the batch whose callback has not started
  batchNow,       \* handleRead's now; 0 outside it
  armed,          \* ticks until the timerfd becomes readable, or Off
  wall,           \* the wall clock
  steps,          \* how often it has been set
  skew,           \* history: by how much in all it has been set forward
  mode,           \* what the loop thread is doing
  current,        \* the id of the timer whose callback runs, or NoId
  queue,          \* functors queued by other threads, in order
  adding,         \* adding[w]: timer handed over by a worker inside addTimer
  ids,            \* TimerIds returned to callers
  cancelled       \* history: ids cancelled while in the list or in the batch

heapVars == <<heap, numCreated>>
setVars == <<timers, activeTimers>>
batchVars == <<calling, expired, toRun, batchNow, mode, current>>
callerVars == <<queue, adding, ids>>
clockVars == <<wall, steps, skew>>
vars == <<heapVars, setVars, cancelingTimers, batchVars, armed, clockVars,
          callerVars, cancelled>>

Modes == {"idle", "dispatch", "calling", "callback", "gone"}

TypeOK ==
  /\ heap \in [Addrs -> Timers \cup {Free}]
  /\ numCreated \in 0..MaxTimers
  /\ timers \subseteq Time \X Addrs
  /\ activeTimers \subseteq TimerIds
  /\ cancelingTimers \subseteq TimerIds
  /\ calling \in BOOLEAN
  /\ expired \subseteq Time \X Addrs
  /\ toRun \subseteq expired
  /\ batchNow \in Time
  /\ armed \in Time \cup {Off}
  /\ wall \in Time
  /\ steps \in 0..MaxSteps
  /\ skew \in 0..(MaxSteps * MaxTime)
  /\ mode \in Modes
  /\ current \in TimerIds \cup {NoId}
  /\ queue \in Seq([op : {"add", "cancel"}, id : TimerIds])
  /\ adding \in [Workers -> TimerIds \cup {NoId}]
  /\ ids \subseteq TimerIds
  /\ cancelled \subseteq TimerIds

Init ==
  /\ heap = [a \in Addrs |-> Free]
  /\ numCreated = 0
  /\ timers = {}
  /\ activeTimers = {}
  /\ cancelingTimers = {}
  /\ calling = FALSE
  /\ expired = {}
  /\ toRun = {}
  /\ batchNow = 0
  /\ armed = Off
  /\ wall = 1
  /\ steps = 0
  /\ skew = 0
  /\ mode = "idle"
  /\ current = NoId
  /\ queue = << >>
  /\ adding = [w \in Workers |-> NoId]
  /\ ids = {}
  /\ cancelled = {}

-----------------------------------------------------------------------------
(* Helpers of the timer list.                                              *)

IdOf(e) == <<e[2], heap[e[2]].sequence>>

AddTime(t, ticks) == IF t + ticks > MaxTime THEN MaxTime ELSE t + ticks

\* The order of std::pair<Timestamp, Timer*>.
Precedes(d, e) == d[1] < e[1] \/ (d[1] = e[1] /\ d[2] < e[2])

\* *S.begin(), for a non-empty set of entries.
First(S) == CHOOSE e \in S : \A d \in S \ {e} : Precedes(e, d)

\* A faulty delay computation that may yield zero.
NotPositive(when) == IF when > wall THEN when - wall ELSE 0

\* howMuchTimeFromNow: at least kMinDelay, hence one tick.
HowMuchTimeFromNow(when) == IF when > wall THEN when - wall ELSE 1

\* timerfd_settime: a relative one-shot expiration; zero disarms the timerfd.
ResetTimerfd(when) ==
  LET delay == HowMuchTimeFromNow(when)
  IN  IF delay = 0 THEN Off ELSE delay

\* The timerfd is readable.
Readable == armed = 0

\* new Timer(cb, when, interval)
NewTimer(when, interval) ==
  [sequence |-> numCreated, expiration |-> when, interval |-> interval]

\* A timer may be created: the allocator returns a free address.
MayCreate(a) == heap[a] = Free /\ numCreated < MaxTimers

\* An insert that reports the earliest expiration as changed only when the list
\* was empty.
EarliestOnlyIfEmpty(when) == timers = {}

\* insert's return value: the new timer expires first.
EarliestChanged(when) == timers = {} \/ when < First(timers)[1]

\* addTimerInLoop for the timer t at address a: insert, then re-arm.
AddTimerInLoop(a, t) ==
  /\ timers' = timers \cup {<<t.expiration, a>>}
  /\ activeTimers' = activeTimers \cup {<<a, t.sequence>>}
  /\ armed' = IF EarliestChanged(t.expiration) THEN ResetTimerfd(t.expiration)
                                               ELSE armed

NoteCancelled(id) ==
  cancelled' = IF id \in activeTimers \cup {IdOf(e) : e \in expired}
                 THEN cancelled \cup {id} ELSE cancelled

\* A cancelInLoop that forgets timers_.
CancelLeavesEntry(id) ==
  /\ IF id \in activeTimers
       THEN /\ activeTimers' = activeTimers \ {id}
            /\ heap' = [heap EXCEPT ![id[1]] = Free]
            /\ UNCHANGED <<timers, cancelingTimers>>
       ELSE /\ cancelingTimers' = IF calling THEN cancelingTimers \cup {id}
                                             ELSE cancelingTimers
            /\ UNCHANGED <<timers, activeTimers, heap>>
  /\ NoteCancelled(id)

\* A cancelInLoop that does not remember timers cancelled while callbacks run.
CancelOnlyActive(id) ==
  /\ IF id \in activeTimers
       THEN /\ timers' = timers \ {<<heap[id[1]].expiration, id[1]>>}
            /\ activeTimers' = activeTimers \ {id}
            /\ heap' = [heap EXCEPT ![id[1]] = Free]
       ELSE UNCHANGED <<timers, activeTimers, heap>>
  /\ UNCHANGED cancelingTimers
  /\ NoteCancelled(id)

\* A cancelInLoop that looks for the address only.
CancelByAddress(id) ==
  LET found == {i \in activeTimers : i[1] = id[1]}
  IN  /\ IF found # {}
           THEN /\ timers' = timers \ {<<heap[id[1]].expiration, id[1]>>}
                /\ activeTimers' = activeTimers \ found
                /\ heap' = [heap EXCEPT ![id[1]] = Free]
                /\ UNCHANGED cancelingTimers
           ELSE /\ cancelingTimers' = IF calling THEN cancelingTimers \cup {id}
                                                 ELSE cancelingTimers
                /\ UNCHANGED <<timers, activeTimers, heap>>
      /\ NoteCancelled(id)

\* cancelInLoop: an active timer is removed from both sets and deleted; while
\* callbacks run, the id of any other timer is remembered for reset.
CancelInLoop(id) ==
  /\ IF id \in activeTimers
       THEN /\ timers' = timers \ {<<heap[id[1]].expiration, id[1]>>}
            /\ activeTimers' = activeTimers \ {id}
            /\ heap' = [heap EXCEPT ![id[1]] = Free]
            /\ UNCHANGED cancelingTimers
       ELSE /\ cancelingTimers' = IF calling THEN cancelingTimers \cup {id}
                                             ELSE cancelingTimers
            /\ UNCHANGED <<timers, activeTimers, heap>>
  /\ NoteCancelled(id)

-----------------------------------------------------------------------------
(* Calls from other threads.                                               *)

\* addTimer, up to runInLoop, which queues the functor.
AddTimer(w, a, when, interval) ==
  /\ mode # "gone"
  /\ adding[w] = NoId
  /\ MayCreate(a)
  /\ Len(queue) < MaxQueue
  /\ heap' = [heap EXCEPT ![a] = NewTimer(when, interval)]
  /\ numCreated' = numCreated + 1
  /\ queue' = Append(queue, [op |-> "add", id |-> <<a, numCreated>>])
  /\ adding' = [adding EXCEPT ![w] = <<a, numCreated>>]
  /\ UNCHANGED <<setVars, cancelingTimers, batchVars, armed, clockVars, ids, cancelled>>

\* The Timer that a worker inside addTimer still refers to exists.
AddingAlive(w) == heap[adding[w][1]].sequence = adding[w][2]

\* addTimer's return: TimerId(timer, timer->sequence()) reads the timer again.
\* If it has been deleted meanwhile the value read is arbitrary.
ReturnTimerId(w) ==
  /\ adding[w] # NoId
  /\ \E s \in IF AddingAlive(w) THEN {adding[w][2]} ELSE SequenceNumbers :
       ids' = ids \cup {<<adding[w][1], s>>}
  /\ adding' = [adding EXCEPT ![w] = NoId]
  /\ UNCHANGED <<heapVars, setVars, cancelingTimers, batchVars, armed, clockVars,
                 queue, cancelled>>

\* cancel: the functor is queued.
Cancel(id) ==
  /\ mode # "gone"
  /\ id \in ids
  /\ Len(queue) < MaxQueue
  /\ queue' = Append(queue, [op |-> "cancel", id |-> id])
  /\ UNCHANGED <<heapVars, setVars, cancelingTimers, batchVars, armed, clockVars,
                 adding, ids, cancelled>>

-----------------------------------------------------------------------------
(* The loop thread.                                                        *)

\* doPendingFunctors runs the oldest queued functor.
RunQueued ==
  /\ mode = "idle"
  /\ queue # << >>
  /\ LET f == Head(queue)
     IN  \/ /\ f.op = "add"
            /\ AddTimerInLoop(f.id[1], heap[f.id[1]])
            /\ UNCHANGED <<heap, cancelingTimers, cancelled>>
         \/ /\ f.op = "cancel"
            /\ CancelInLoop(f.id)
            /\ UNCHANGED armed
  /\ queue' = Tail(queue)
  /\ UNCHANGED <<numCreated, batchVars, clockVars, adding, ids>>

\* The loop thread runs user code: another channel's handler or a functor
\* ("idle"), a handler called before the timerfd's ("dispatch"), a callback.
InUserCode == mode \in {"idle", "dispatch", "callback"}

\* addTimer called in the loop thread.
AddTimerDirect(a, when, interval) ==
  /\ InUserCode
  /\ MayCreate(a)
  /\ LET t == NewTimer(when, interval)
     IN  /\ heap' = [heap EXCEPT ![a] = t]
         /\ AddTimerInLoop(a, t)
         /\ ids' = ids \cup {<<a, t.sequence>>}
  /\ numCreated' = numCreated + 1
  /\ UNCHANGED <<cancelingTimers, batchVars, clockVars, queue, adding, cancelled>>

\* cancel called in the loop thread.
CancelDirect(id) ==
  /\ InUserCode
  /\ id \in ids
  /\ CancelInLoop(id)
  /\ UNCHANGED <<numCreated, batchVars, armed, clockVars, callerVars>>

\* epoll_wait reports the timerfd.
PollTimerfd ==
  /\ mode = "idle"
  /\ Readable
  /\ mode' = "dispatch"
  /\ UNCHANGED <<heapVars, setVars, cancelingTimers, calling, expired, toRun,
                 batchNow, current, armed, clockVars, callerVars, cancelled>>

\* handleRead up to its loop of callbacks: read the timerfd, getExpired.
HandleRead ==
  /\ mode = "dispatch"
  /\ mode' = "calling"
  /\ batchNow' = wall
  /\ armed' = IF Readable THEN Off ELSE armed
  /\ expired' = {e \in timers : e[1] <= wall}
  /\ toRun' = expired'
  /\ timers' = timers \ expired'
  /\ activeTimers' = activeTimers \ {IdOf(e) : e \in expired'}
  /\ calling' = TRUE
  /\ cancelingTimers' = {}
  /\ UNCHANGED <<heapVars, current, clockVars, callerVars, cancelled>>

\* it.second->run(): the callback of the next expired timer starts.
RunCallback ==
  /\ mode = "calling"
  /\ toRun # {}
  /\ mode' = "callback"
  /\ current' = IdOf(First(toRun))
  /\ toRun' = toRun \ {First(toRun)}
  /\ UNCHANGED <<heapVars, setVars, cancelingTimers, calling, expired, batchNow,
                 armed, clockVars, callerVars, cancelled>>

EndCallback ==
  /\ mode = "callback"
  /\ mode' = "calling"
  /\ current' = NoId
  /\ UNCHANGED <<heapVars, setVars, cancelingTimers, calling, expired, toRun,
                 batchNow, armed, clockVars, callerVars, cancelled>>

\* Entries of the batch that reset starts again; the other timers are deleted.
Restarted ==
  {e \in expired : heap[e[2]].interval > 0 /\ IdOf(e) \notin cancelingTimers}

\* Timer::restart: the interval is one tick.
Restart == AddTime(batchNow, 1)

\* The rest of handleRead: callingExpiredTimers_ = false; reset(expired, now).
Reset ==
  LET restartedAddrs == {e[2] : e \in Restarted}
      deletedAddrs == {e[2] : e \in expired \ Restarted}
  IN  /\ mode = "calling"
      /\ toRun = {}
      /\ mode' = "idle"
      /\ calling' = FALSE
      /\ expired' = {}
      /\ heap' = [a \in Addrs |->
           IF a \in deletedAddrs THEN Free
           ELSE IF a \in restartedAddrs
             THEN [heap[a] EXCEPT !.expiration = Restart]
             ELSE heap[a]]
      /\ timers' = timers \cup {<<Restart, a>> : a \in restartedAddrs}
      /\ activeTimers' = activeTimers \cup {IdOf(e) : e \in Restarted}
      /\ armed' = IF timers' = {} THEN armed ELSE ResetTimerfd(First(timers')[1])
      /\ batchNow' = 0
      /\ UNCHANGED <<numCreated, cancelingTimers, toRun, current, clockVars, callerVars, cancelled>>

\* ~TimerQueue, after loop() has returned: the timers in the list are deleted.
\* Functors still queued are dropped with the loop.
Destroy ==
  /\ mode = "idle"
  /\ mode' = "gone"
  /\ heap' = [a \in Addrs |-> IF a \in {e[2] : e \in timers} THEN Free ELSE heap[a]]
  /\ timers' = {}
  /\ activeTimers' = {}
  /\ cancelingTimers' = {}
  /\ armed' = Off
  /\ UNCHANGED <<numCreated, calling, expired, toRun, batchNow, current, clockVars,
                 callerVars, cancelled>>

-----------------------------------------------------------------------------
(* The clocks.                                                             *)

Tick ==
  /\ mode # "gone"
  /\ wall < MaxTime \/ armed \in 1..MaxTime
  /\ wall' = AddTime(wall, 1)
  /\ armed' = IF armed \in 1..MaxTime THEN armed - 1 ELSE armed
  /\ UNCHANGED <<heapVars, setVars, cancelingTimers, batchVars, steps, skew,
                 callerVars, cancelled>>

\* The wall clock is set to t, which the timerfd does not notice.
SetClock(t) ==
  /\ mode # "gone" /\ steps < MaxSteps
  /\ t # wall
  /\ wall' = t
  /\ steps' = steps + 1
  /\ skew' = IF t > wall THEN skew + (t - wall) ELSE skew
  /\ UNCHANGED <<heapVars, setVars, cancelingTimers, batchVars, armed, callerVars, cancelled>>

-----------------------------------------------------------------------------
WorkerStep(w) ==
  \/ \E a \in Addrs, when \in Time \ {0}, i \in Intervals : AddTimer(w, a, when, i)
  \/ ReturnTimerId(w)
  \/ \E id \in ids : Cancel(id)

UserStep ==
  \/ \E a \in Addrs, when \in Time \ {0}, i \in Intervals : AddTimerDirect(a, when, i)
  \/ \E id \in ids : CancelDirect(id)

LoopStep ==
  \/ RunQueued \/ PollTimerfd \/ HandleRead \/ RunCallback \/ EndCallback \/ Reset
  \/ Destroy

Clocks == Tick \/ \E t \in Time \ {0} : SetClock(t)

Next == UserStep \/ LoopStep \/ Clocks \/ \E w \in Workers : WorkerStep(w)

Spec == Init /\ [][Next]_vars

(***************************************************************************)
(* Fairness: time passes, and the loop keeps polling, running functors and *)
(* calling back; user code ends.                                           *)
(***************************************************************************)
Fairness ==
  /\ WF_vars(Tick)
  /\ SF_vars(RunQueued) /\ SF_vars(PollTimerfd) /\ SF_vars(HandleRead)
  /\ WF_vars(RunCallback) /\ SF_vars(EndCallback) /\ WF_vars(Reset)

FairSpec == Spec /\ Fairness

-----------------------------------------------------------------------------
(* Properties.                                                             *)

(***************************************************************************)
(* timers_ and activeTimers_ hold the same timers, and each entry's key is *)
(* its timer's expiration: what the size assertions in insert, getExpired  *)
(* and cancelInLoop, and their assert(n == 1), rely on.                    *)
(***************************************************************************)
SameTimers ==
  /\ activeTimers = {IdOf(e) : e \in timers}
  /\ \A e \in timers : heap[e[2]].expiration = e[1]

\* The addresses of timers whose addTimerInLoop is still queued.
QueuedAddrs == {queue[i].id[1] : i \in {j \in DOMAIN queue : queue[j].op = "add"}}

(***************************************************************************)
(* Every Timer is owned by exactly one of the queued functor, the timer    *)
(* list and the expired batch: none is leaked, none is deleted twice, and  *)
(* nothing the loop will dereference has been deleted.  ~TimerQueue leaves *)
(* only the timers whose addTimerInLoop was still queued.                  *)
(***************************************************************************)
OneOwner ==
  \A a \in Addrs :
    LET owners == {o \in {"queue", "list", "batch"} :
                     \/ o = "queue" /\ a \in QueuedAddrs
                     \/ o = "list" /\ a \in {e[2] : e \in timers}
                     \/ o = "batch" /\ a \in {e[2] : e \in expired}}
    IN  Cardinality(owners) = IF heap[a] = Free THEN 0 ELSE 1

(***************************************************************************)
(* Outside handleRead the timerfd runs out no later than the earliest      *)
(* timer is due, or one minimal delay from now (addTimerInLoop, reset):    *)
(* only the wall clock being set forward delays a timer, and by no more    *)
(* than it was set.                                                        *)
(***************************************************************************)
ArmedForEarliest ==
  mode \in {"idle", "dispatch"} /\ timers # {} =>
    armed <= HowMuchTimeFromNow(First(timers)[1]) + skew /\ armed # Off

(***************************************************************************)
(* A timer cancelled while in the list or being called back, by its own    *)
(* callback or anybody else, is never put back into the list by reset.     *)
(***************************************************************************)
CancelledNotRestarted == cancelled \cap activeTimers = {}

(***************************************************************************)
(* A timer is stopped by its own id only.  It leaves the list to be called *)
(* back, by a cancel with its address and its sequence number, or when the *)
(* queue is destroyed; and a repeating timer returns from the batch to the *)
(* list unless it was cancelled so.  A TimerId kept from a deleted timer   *)
(* stops nothing, although new Timer reuses the address (cancelInLoop,     *)
(* reset).                                                                 *)
(***************************************************************************)
OnlyOwnIdStops ==
  [][/\ \A id \in activeTimers \ activeTimers' :
          id \in cancelled' \/ id \in {IdOf(e) : e \in expired}' \/ mode' = "gone"
     /\ \A e \in expired \ expired' :
          heap[e[2]].interval = 0 \/ IdOf(e) \in activeTimers' \cup cancelled']_vars

(***************************************************************************)
(* The callback of every timer in the list runs, unless the timer is       *)
(* cancelled or the queue destroyed: also when the wall clock is set back  *)
(* and the timerfd runs out before any timer is due (handleRead then finds *)
(* nothing expired and reset arms it again).                               *)
(***************************************************************************)
ActiveTimerFires ==
  \A id \in TimerIds :
    id \in activeTimers ~> current = id \/ id \in cancelled \/ mode = "gone"

\* addTimer reads the sequence number of a Timer that still exists.
AddTimerReadsLiveTimer ==
  \A w \in Workers : adding[w] # NoId => AddingAlive(w)
=============================================================================

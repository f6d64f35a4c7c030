----------------------------- MODULE EventLoop -----------------------------
(***************************************************************************)
(* One EventLoop (src/mymuduo/EventLoop.cpp): the loop thread runs         *)
(*                                                                         *)
(*   while (!m_quit) { poll; handle active channels; doPendingFunctors }   *)
(*                                                                         *)
(* and other threads hand it work through runInLoop / queueInLoop and stop *)
(* it through quit.  The eventfd m_wakeUpFd is what ends a blocked poll    *)
(* when work or a quit request arrives from outside.                       *)
(*                                                                         *)
(* Every step below is one access to shared state: the push under m_mutex, *)
(* the store to m_quit, the write to the eventfd, and so on, so threads    *)
(* interleave at each of them.  Callbacks (functors and channel handlers)  *)
(* are user code; while one runs the loop thread itself may call           *)
(* queueInLoop, runInLoop and quit.                                        *)
(***************************************************************************)
EXTENDS Naturals, Sequences, Functions

CONSTANTS
  Workers,        \* threads other than the one that owns the loop
  LoopThread,     \* the thread that constructed the loop and calls loop()
  Functors,       \* callbacks; each is submitted at most once (bounds the model)
  IoChannels,     \* channels other than the wake-up channel
  WakeChannel,    \* m_wakeUpChannel
  EventfdMax      \* largest value of the eventfd counter (2^64 - 2 in Linux)

ASSUME ThreadsAssumption == LoopThread \notin Workers
ASSUME ChannelsAssumption == WakeChannel \notin IoChannels
ASSUME EventfdAssumption == EventfdMax \in Nat \ {0}

Threads == Workers \cup {LoopThread}
Channels == IoChannels \cup {WakeChannel}

VARIABLES
  pc,             \* where the loop thread is
  tpc,            \* tpc[t]: where thread t is inside queueInLoop or quit
  pending,        \* m_pendingFunctors
  functors,       \* the vector that doPendingFunctors swapped out, not yet run
  calling,        \* m_callingPendingFunctors
  wakeFd,         \* the counter of m_wakeUpFd
  quit,           \* m_quit
  looping,        \* m_looping
  active,         \* m_activeChannels not handled yet in this iteration
  queued,         \* history: functors in the order they were queued
  ran,            \* history: queued functors in the order they were started
  inlined,        \* history: functors that runInLoop ran at once
  early           \* history: functors the owner queued before it called loop()

loopVars == <<pc, functors, calling, looping, active, ran>>
callVars == <<pending, queued, inlined, early>>
vars == <<pc, tpc, pending, functors, calling, wakeFd, quit, looping, active,
          queued, ran, inlined, early>>

PCs == {"before", "check", "poll", "dispatch", "handler", "swap", "run",
        "functor", "stopped"}

TypeOK ==
  /\ pc \in PCs
  /\ tpc \in [Threads -> {"idle", "queued", "quitting"}]
  /\ pending \in Seq(Functors)
  /\ functors \in Seq(Functors)
  /\ calling \in BOOLEAN
  /\ wakeFd \in 0..EventfdMax
  /\ quit \in BOOLEAN
  /\ looping \in BOOLEAN
  /\ active \subseteq Channels
  /\ queued \in Seq(Functors)
  /\ ran \in Seq(Functors)
  /\ inlined \subseteq Functors
  /\ early \subseteq Functors

\* The constructor has run: the eventfd is created with value 0 and registered.
Init ==
  /\ pc = "before"
  /\ tpc = [t \in Threads |-> "idle"]
  /\ pending = << >>
  /\ functors = << >>
  /\ calling = FALSE
  /\ wakeFd = 0
  /\ quit = FALSE
  /\ looping = FALSE
  /\ active = {}
  /\ queued = << >>
  /\ ran = << >>
  /\ inlined = {}
  /\ early = {}

-----------------------------------------------------------------------------
(* Calls into the loop, by any thread.                                     *)

\* Where thread t can start a call: a worker at any time, the loop thread while
\* it runs user code (before loop(), in a channel handler, in a functor).
MayCall(t) ==
  /\ tpc[t] = "idle"
  /\ t = LoopThread => pc \in {"before", "handler", "functor"}

\* write(m_wakeUpFd, 1): the counter grows; at its maximum the non-blocking
\* write fails with EAGAIN, which is only logged.
WakeUp == wakeFd' = IF wakeFd < EventfdMax THEN wakeFd + 1 ELSE wakeFd

\* queueInLoop, first half: push_back under m_mutex.
Push(t, f) ==
  /\ f \notin Range(queued) \cup inlined
  /\ pending' = Append(pending, f)
  /\ queued' = Append(queued, f)
  /\ early' = IF t = LoopThread /\ pc = "before" THEN early \cup {f} ELSE early
  /\ tpc' = [tpc EXCEPT ![t] = "queued"]
  /\ UNCHANGED <<loopVars, wakeFd, quit, inlined>>

QueueInLoop(t, f) == MayCall(t) /\ Push(t, f)

\* A faulty queueInLoop that never wakes the loop for a functor queued by the
\* loop thread itself.
WakeOnlyForOthers(t) ==
  /\ tpc[t] = "queued"
  /\ tpc' = [tpc EXCEPT ![t] = "idle"]
  /\ IF t # LoopThread THEN WakeUp ELSE UNCHANGED wakeFd
  /\ UNCHANGED <<loopVars, callVars, quit>>

\* queueInLoop, second half: the wake-up, decided after the mutex is released.
WakeIfNeeded(t) ==
  /\ tpc[t] = "queued"
  /\ tpc' = [tpc EXCEPT ![t] = "idle"]
  /\ IF t # LoopThread \/ calling THEN WakeUp ELSE UNCHANGED wakeFd
  /\ UNCHANGED <<loopVars, callVars, quit>>

\* runInLoop: at once in the loop thread, through the queue otherwise.
RunInLoop(t, f) ==
  /\ MayCall(t)
  /\ \/ /\ t = LoopThread
        /\ f \notin Range(queued) \cup inlined
        /\ inlined' = inlined \cup {f}
        /\ UNCHANGED <<loopVars, tpc, pending, wakeFd, quit, queued, early>>
     \/ /\ t # LoopThread
        /\ Push(t, f)

\* quit, first half: the store to the atomic m_quit.
Quit(t) ==
  /\ MayCall(t)
  /\ quit' = TRUE
  /\ tpc' = [tpc EXCEPT ![t] = "quitting"]
  /\ UNCHANGED <<loopVars, callVars, wakeFd>>

\* A faulty quit that leaves the loop blocked in poll.
QuitWithoutWakeUp(t) ==
  /\ tpc[t] = "quitting"
  /\ tpc' = [tpc EXCEPT ![t] = "idle"]
  /\ UNCHANGED <<loopVars, callVars, wakeFd, quit>>

\* quit, second half: wake the loop unless it is the caller's own.
QuitWakeUp(t) ==
  /\ tpc[t] = "quitting"
  /\ tpc' = [tpc EXCEPT ![t] = "idle"]
  /\ IF t # LoopThread THEN WakeUp ELSE UNCHANGED wakeFd
  /\ UNCHANGED <<loopVars, callVars, quit>>

-----------------------------------------------------------------------------
(* The loop thread.                                                        *)

\* A step of the loop thread itself is possible when it is not inside a call.
LoopAt(p) == pc = p /\ tpc[LoopThread] = "idle"

\* loop() is called: m_looping = true; m_quit = false.
EnterLoop ==
  /\ LoopAt("before")
  /\ pc' = "check"
  /\ looping' = TRUE
  /\ quit' = FALSE
  /\ UNCHANGED <<tpc, functors, calling, active, ran, callVars, wakeFd>>

\* while (!m_quit), then m_activeChannels.clear() or m_looping = false.
CheckQuit ==
  /\ LoopAt("check")
  /\ IF quit THEN pc' = "stopped" /\ looping' = FALSE
             ELSE pc' = "poll" /\ UNCHANGED looping
  /\ active' = {}
  /\ UNCHANGED <<tpc, functors, calling, ran, callVars, wakeFd, quit>>

\* Channels that epoll_wait may report: any i/o channel, and the wake-up channel
\* while its counter is not zero (level triggered).
Ready == IoChannels \cup (IF wakeFd > 0 THEN {WakeChannel} ELSE {})

\* poll returns some of the ready channels (at most m_reventList.size() of them).
PollReady ==
  /\ LoopAt("poll")
  /\ \E S \in SUBSET Ready \ {{}} : active' = S
  /\ pc' = "dispatch"
  /\ UNCHANGED <<tpc, functors, calling, looping, ran, callVars, wakeFd, quit>>

\* poll returns without channels: kPollTimeMs elapsed, or EINTR.
PollTimeout ==
  /\ LoopAt("poll")
  /\ active' = {}
  /\ pc' = "dispatch"
  /\ UNCHANGED <<tpc, functors, calling, looping, ran, callVars, wakeFd, quit>>

\* The wake-up channel's handler reads the eventfd, which resets the counter.
HandRead ==
  /\ LoopAt("dispatch")
  /\ WakeChannel \in active
  /\ active' = active \ {WakeChannel}
  /\ wakeFd' = 0
  /\ UNCHANGED <<pc, tpc, functors, calling, looping, ran, callVars, quit>>

\* Another channel's handler starts: user code.
HandleEvent(c) ==
  /\ LoopAt("dispatch")
  /\ c \in active \ {WakeChannel}
  /\ active' = active \ {c}
  /\ pc' = "handler"
  /\ UNCHANGED <<tpc, functors, calling, looping, ran, callVars, wakeFd, quit>>

EndHandler ==
  /\ LoopAt("handler")
  /\ pc' = "dispatch"
  /\ UNCHANGED <<tpc, functors, calling, looping, active, ran, callVars, wakeFd, quit>>

\* A faulty doPendingFunctors that does not announce itself.
BeginUnannounced ==
  /\ LoopAt("dispatch")
  /\ active = {}
  /\ pc' = "swap"
  /\ UNCHANGED <<tpc, functors, calling, looping, active, ran, callVars, wakeFd, quit>>

\* doPendingFunctors entered: m_callingPendingFunctors = true.
BeginPendingFunctors ==
  /\ LoopAt("dispatch")
  /\ active = {}
  /\ calling' = TRUE
  /\ pc' = "swap"
  /\ UNCHANGED <<tpc, functors, looping, active, ran, callVars, wakeFd, quit>>

\* A faulty doPendingFunctors that copies m_pendingFunctors without emptying it.
CopyFunctors ==
  /\ LoopAt("swap")
  /\ functors' = pending
  /\ pc' = "run"
  /\ UNCHANGED <<tpc, calling, looping, active, ran, callVars, wakeFd, quit>>

\* functors.swap(m_pendingFunctors), under m_mutex.
SwapFunctors ==
  /\ LoopAt("swap")
  /\ functors' = pending
  /\ pending' = << >>
  /\ pc' = "run"
  /\ UNCHANGED <<tpc, calling, looping, active, ran, queued, inlined, early, wakeFd, quit>>

\* A faulty doPendingFunctors that starts with the newest functor.
RunNewestFunctor ==
  /\ LoopAt("run")
  /\ functors # << >>
  /\ ran' = Append(ran, functors[Len(functors)])
  /\ functors' = SubSeq(functors, 1, Len(functors) - 1)
  /\ pc' = "functor"
  /\ UNCHANGED <<tpc, calling, looping, active, callVars, wakeFd, quit>>

\* The next functor of the swapped vector starts: user code.
RunFunctor ==
  /\ LoopAt("run")
  /\ functors # << >>
  /\ ran' = Append(ran, Head(functors))
  /\ functors' = Tail(functors)
  /\ pc' = "functor"
  /\ UNCHANGED <<tpc, calling, looping, active, callVars, wakeFd, quit>>

EndFunctor ==
  /\ LoopAt("functor")
  /\ pc' = "run"
  /\ UNCHANGED <<tpc, functors, calling, looping, active, ran, callVars, wakeFd, quit>>

\* doPendingFunctors left: m_callingPendingFunctors = false.
EndPendingFunctors ==
  /\ LoopAt("run")
  /\ functors = << >>
  /\ calling' = FALSE
  /\ pc' = "check"
  /\ UNCHANGED <<tpc, functors, looping, active, ran, callVars, wakeFd, quit>>

-----------------------------------------------------------------------------
LoopStep ==
  \/ EnterLoop \/ CheckQuit \/ PollReady \/ PollTimeout \/ HandRead
  \/ \E c \in IoChannels : HandleEvent(c)
  \/ EndHandler \/ BeginPendingFunctors \/ SwapFunctors \/ RunFunctor
  \/ EndFunctor \/ EndPendingFunctors

CallStep(t) ==
  \/ \E f \in Functors : QueueInLoop(t, f) \/ RunInLoop(t, f)
  \/ WakeIfNeeded(t) \/ Quit(t) \/ QuitWakeUp(t)

Next == LoopStep \/ \E t \in Threads : CallStep(t)

Spec == Init /\ [][Next]_vars

(***************************************************************************)
(* Fairness.  The loop thread keeps running, a thread inside a call        *)
(* finishes it, user code of the owner thread (its code before loop(), the *)
(* handlers and the functors) ends after finitely many calls, hence strong *)
(* fairness, and epoll_wait returns when the wake-up channel is ready.     *)
(* Nothing is assumed of i/o channels, of the poll time-out, or of when    *)
(* threads make calls.                                                     *)
(***************************************************************************)
Fairness ==
  /\ SF_vars(EnterLoop)
  /\ WF_vars(CheckQuit)
  /\ WF_vars(wakeFd > 0 /\ PollReady)
  /\ WF_vars(HandRead)
  /\ WF_vars(\E c \in IoChannels : HandleEvent(c))
  /\ SF_vars(EndHandler)
  /\ WF_vars(BeginPendingFunctors)
  /\ WF_vars(SwapFunctors)
  /\ WF_vars(RunFunctor)
  /\ SF_vars(EndFunctor)
  /\ WF_vars(EndPendingFunctors)
  /\ \A t \in Threads : WF_vars(WakeIfNeeded(t)) /\ WF_vars(QuitWakeUp(t))

FairSpec == Spec /\ Fairness

-----------------------------------------------------------------------------
(* Properties.                                                             *)

\* Some thread has woken the loop, or is about to.
Signalled ==
  \/ wakeFd > 0
  \/ \E t \in Workers : tpc[t] = "queued"

(***************************************************************************)
(* No wake-up is lost (queueInLoop, handRead, doPendingFunctors): when the *)
(* loop is about to poll or blocked in poll while functors are pending,    *)
(* the eventfd is readable or a queueing thread is about to write it.  The *)
(* only functors that may have to wait for the poll time-out are the ones  *)
(* the owner thread queued before it called loop().                        *)
(***************************************************************************)
NoLostWakeup ==
  pc \in {"check", "poll"} /\ ~ Signalled => Range(pending) \subseteq early

(***************************************************************************)
(* queueInLoop is first in, first out and loses or repeats nothing: what   *)
(* ran, what doPendingFunctors swapped out and what is pending are, in     *)
(* this order, exactly the functors queued.                                *)
(***************************************************************************)
FifoOrder == queued = ran \o functors \o pending

(***************************************************************************)
(* A functor queued by another thread or by a running callback is started, *)
(* or the loop stops, without help from the poll time-out or from i/o.     *)
(***************************************************************************)
QueuedRuns ==
  \A f \in Functors :
    f \in Range(pending) \ early ~> f \in Range(ran) \/ pc = "stopped"

(***************************************************************************)
(* quit() called while loop() is running ends it, from whatever thread,    *)
(* without help from the poll time-out or from i/o.                        *)
(***************************************************************************)
QuitStops == quit /\ pc # "before" ~> pc = "stopped"

\* The abstract queue: what doPendingFunctors swapped out comes before what is pending.
Tasks == INSTANCE TaskQueue WITH
           todo <- functors \o pending,
           done <- ran,
           open <- pc # "stopped"

(***************************************************************************)
(* Every step of the loop (queueInLoop, doPendingFunctors, loop's return)  *)
(* is a step of the abstract first-in first-out queue or leaves it         *)
(* unchanged; the swap in particular does.                                 *)
(***************************************************************************)
ImplementsTaskQueue == Tasks!Spec
=============================================================================

-------------------------- MODULE EventLoopProofs --------------------------
(***************************************************************************)
(* Proofs about EventLoop for any number of threads, functors and channels *)
(* and any eventfd limit: type correctness, no lost wake-up, first-in      *)
(* first-out order, and the refinement of TaskQueue.                       *)
(***************************************************************************)
EXTENDS EventLoop, SharedLemmas

\* The loop thread is one of the threads that may call into the loop.
LEMMA LoopThreadInThreads == LoopThread \in Threads
BY DEF Threads

-----------------------------------------------------------------------------
(* Type correctness.                                                       *)

\* Init establishes the types and every step of the loop or of a caller keeps
\* them; in particular wakeUp never pushes the eventfd beyond its limit.
LEMMA TypeCorrect == Spec => []TypeOK
<1>1. Init => TypeOK
  <2> SUFFICES ASSUME Init PROVE TypeOK
    OBVIOUS
  <2>1. << >> \in Seq(Functors)
    BY EmptySeq
  <2>2. 0 \in 0..EventfdMax
    BY EventfdAssumption
  <2>3. QED
    BY <2>1, <2>2, Zenon DEF Init, TypeOK, PCs
<1>2. TypeOK /\ [Next]_vars => TypeOK'
  <2> SUFFICES ASSUME TypeOK, [Next]_vars PROVE TypeOK'
    OBVIOUS
  <2> USE EventfdAssumption, LoopThreadInThreads
      DEF TypeOK, PCs, loopVars, callVars, LoopAt, Channels
  <2>1. CASE EnterLoop BY <2>1 DEF EnterLoop
  <2>2. CASE CheckQuit BY <2>2 DEF CheckQuit
  <2>3. CASE PollReady BY <2>3 DEF PollReady, Ready
  <2>4. CASE PollTimeout BY <2>4 DEF PollTimeout
  <2>5. CASE HandRead BY <2>5 DEF HandRead
  <2>6. ASSUME NEW c \in IoChannels, HandleEvent(c) PROVE TypeOK'
    BY <2>6 DEF HandleEvent
  <2>7. CASE EndHandler BY <2>7 DEF EndHandler
  <2>8. CASE BeginPendingFunctors BY <2>8 DEF BeginPendingFunctors
  <2>9. CASE SwapFunctors BY <2>9 DEF SwapFunctors
  <2>10. CASE RunFunctor BY <2>10 DEF RunFunctor
  <2>11. CASE EndFunctor BY <2>11 DEF EndFunctor
  <2>12. CASE EndPendingFunctors BY <2>12 DEF EndPendingFunctors
  <2>13. ASSUME NEW t \in Threads, NEW f \in Functors, Push(t, f) PROVE TypeOK'
    BY <2>13 DEF Push
  <2>14. ASSUME NEW t \in Threads, NEW f \in Functors, RunInLoop(t, f)
         PROVE TypeOK'
    BY <2>13, <2>14 DEF RunInLoop
  <2>15. ASSUME NEW t \in Threads, WakeIfNeeded(t) PROVE TypeOK'
    BY <2>15 DEF WakeIfNeeded, WakeUp
  <2>16. ASSUME NEW t \in Threads, Quit(t) PROVE TypeOK'
    BY <2>16 DEF Quit
  <2>17. ASSUME NEW t \in Threads, QuitWakeUp(t) PROVE TypeOK'
    BY <2>17 DEF QuitWakeUp, WakeUp
  <2>18. CASE UNCHANGED vars BY <2>18 DEF vars
  <2>19. QED
    BY <2>1, <2>2, <2>3, <2>4, <2>5, <2>6, <2>7, <2>8, <2>9, <2>10, <2>11,
       <2>12, <2>13, <2>14, <2>15, <2>16, <2>17, <2>18
       DEF Next, LoopStep, CallStep, QueueInLoop
<1>3. QED
  BY <1>1, <1>2, PTL DEF Spec

-----------------------------------------------------------------------------
(* No lost wake-up.                                                        *)

\* m_callingPendingFunctors is set exactly inside doPendingFunctors.
CallingInv == calling <=> pc \in {"swap", "run", "functor"}

\* The loop thread is inside queueInLoop or quit only while it runs user code.
CallerInv == tpc[LoopThread] # "idle" => pc \in {"before", "handler", "functor"}

\* Before a poll, what is pending and not signalled was queued before loop().
PollInv ==
  pc \in {"before", "check", "poll"} /\ ~ Signalled => Range(pending) \subseteq early

\* After the swap, what is pending is signalled, or its signal is the next step
\* of the loop thread.
BatchInv ==
  pc \in {"run", "functor"} /\ ~ Signalled /\ tpc[LoopThread] # "queued"
    => pending = << >>

WakeInv == CallingInv /\ CallerInv /\ PollInv /\ BatchInv

\* A wake-up leaves the eventfd readable.
LEMMA WakeUpSignals ==
  ASSUME TypeOK, WakeUp
  PROVE  wakeFd' \in Nat /\ wakeFd' > 0
BY EventfdAssumption DEF TypeOK, WakeUp

\* A worker that queued and did not yet wake the loop counts as a signal.
LEMMA PushSignals ==
  ASSUME TypeOK, NEW t \in Workers, NEW f \in Functors, Push(t, f)
  PROVE  Signalled'
<1>1. tpc'[t] = "queued"
  BY DEF TypeOK, Push, Threads
<1>2. QED
  BY <1>1 DEF Signalled

\* The wake-up protocol of queueInLoop, handRead and doPendingFunctors is kept
\* by every step.
LEMMA WakeInvStep == TypeOK /\ WakeInv /\ [Next]_vars => WakeInv'
<1> SUFFICES ASSUME TypeOK, WakeInv, [Next]_vars PROVE WakeInv'
  OBVIOUS
<1> USE LoopThreadInThreads, ThreadsAssumption DEF loopVars, callVars, LoopAt
<1>1. CASE EnterLoop
  BY <1>1 DEF EnterLoop, WakeInv, CallingInv, CallerInv, PollInv, BatchInv, Signalled
<1>2. CASE CheckQuit
  BY <1>2 DEF CheckQuit, WakeInv, CallingInv, CallerInv, PollInv, BatchInv, Signalled
<1>3. CASE PollReady
  BY <1>3 DEF PollReady, WakeInv, CallingInv, CallerInv, PollInv, BatchInv, Signalled
<1>4. CASE PollTimeout
  BY <1>4 DEF PollTimeout, WakeInv, CallingInv, CallerInv, PollInv, BatchInv, Signalled
<1>5. CASE HandRead
  BY <1>5 DEF HandRead, WakeInv, CallingInv, CallerInv, PollInv, BatchInv
<1>6. ASSUME NEW c \in IoChannels, HandleEvent(c) PROVE WakeInv'
  BY <1>6 DEF HandleEvent, WakeInv, CallingInv, CallerInv, PollInv, BatchInv
<1>7. CASE EndHandler
  BY <1>7 DEF EndHandler, WakeInv, CallingInv, CallerInv, PollInv, BatchInv
<1>8. CASE BeginPendingFunctors
  BY <1>8 DEF BeginPendingFunctors, WakeInv, CallingInv, CallerInv, PollInv, BatchInv
<1>9. CASE SwapFunctors
  BY <1>9 DEF SwapFunctors, WakeInv, CallingInv, CallerInv, PollInv, BatchInv
<1>10. CASE RunFunctor
  BY <1>10 DEF RunFunctor, WakeInv, CallingInv, CallerInv, PollInv, BatchInv, Signalled
<1>11. CASE EndFunctor
  BY <1>11 DEF EndFunctor, WakeInv, CallingInv, CallerInv, PollInv, BatchInv, Signalled
<1>12. CASE EndPendingFunctors
  BY <1>12, RangeOfEmpty
     DEF EndPendingFunctors, WakeInv, CallingInv, CallerInv, PollInv, BatchInv, Signalled
<1>13. ASSUME NEW t \in Threads, NEW f \in Functors, MayCall(t), Push(t, f)
       PROVE  WakeInv'
  <2>1. CASE t = LoopThread
    <3>1. tpc' = [tpc EXCEPT ![LoopThread] = "queued"] /\ tpc'[LoopThread] = "queued"
      BY <1>13, <2>1 DEF Push, TypeOK
    <3>2. pc' = pc /\ calling' = calling /\ wakeFd' = wakeFd
      BY <1>13 DEF Push
    <3>3. Signalled' <=> Signalled
      <4>1. \A u \in Workers : tpc'[u] = tpc[u]
        BY <3>1 DEF TypeOK, Threads
      <4>2. QED
        BY <4>1, <3>2 DEF Signalled
    <3>4. CallingInv' /\ CallerInv' /\ BatchInv'
      BY <1>13, <2>1, <3>1, <3>2 DEF MayCall, WakeInv, CallingInv, CallerInv, BatchInv
    <3>5. PollInv'
      <4>1. pc' \in {"before", "check", "poll"} => pc = "before"
        BY <1>13, <2>1, <3>2 DEF MayCall
      <4>2. pc = "before" => early' = early \cup {f}
        BY <1>13, <2>1 DEF Push
      <4>3. Range(pending') = Range(pending) \cup {f}
        BY <1>13, RangeOfAppend DEF Push, TypeOK
      <4>4. QED
        BY <4>1, <4>2, <4>3, <3>2, <3>3 DEF WakeInv, PollInv
    <3>6. QED
      BY <3>4, <3>5 DEF WakeInv
  <2>2. CASE t # LoopThread
    <3>1. t \in Workers
      BY <2>2 DEF Threads
    <3>2. Signalled'
      BY <1>13, <3>1, PushSignals
    <3>3. pc' = pc /\ calling' = calling /\ tpc'[LoopThread] = tpc[LoopThread]
      BY <1>13, <2>2 DEF Push, TypeOK
    <3>4. QED
      BY <3>2, <3>3 DEF WakeInv, CallingInv, CallerInv, PollInv, BatchInv
  <2>3. QED
    BY <2>1, <2>2
<1>14. ASSUME NEW t \in Threads, NEW f \in Functors, RunInLoop(t, f)
       PROVE WakeInv'
  <2>1. CASE UNCHANGED <<pc, tpc, calling, wakeFd, pending, early>>
    BY <2>1 DEF WakeInv, CallingInv, CallerInv, PollInv, BatchInv, Signalled
  <2>2. QED
    BY <1>13, <1>14, <2>1 DEF RunInLoop
<1>15. ASSUME NEW t \in Threads, WakeIfNeeded(t) PROVE WakeInv'
  <2>1. pc' = pc /\ calling' = calling /\ pending' = pending /\ early' = early
    BY <1>15 DEF WakeIfNeeded
  <2>2. tpc'[LoopThread] # "idle" => tpc[LoopThread] # "idle"
    BY <1>15 DEF WakeIfNeeded, TypeOK
  <2>3. CASE t # LoopThread \/ calling
    <3>1. Signalled'
      BY <1>15, <2>3, WakeUpSignals DEF WakeIfNeeded, Signalled
    <3>2. QED
      BY <2>1, <2>2, <3>1 DEF WakeInv, CallingInv, CallerInv, PollInv, BatchInv
  <2>4. CASE t = LoopThread /\ ~ calling
    <3>1. pc \notin {"run", "functor"}
      BY <2>4 DEF WakeInv, CallingInv
    <3>2. Signalled' <=> Signalled
      <4>1. wakeFd' = wakeFd /\ \A u \in Workers : tpc'[u] = tpc[u]
        BY <1>15, <2>4 DEF WakeIfNeeded, TypeOK, Threads
      <4>2. QED
        BY <4>1 DEF Signalled
    <3>3. QED
      BY <2>1, <2>2, <3>1, <3>2 DEF WakeInv, CallingInv, CallerInv, PollInv, BatchInv
  <2>5. QED
    BY <2>3, <2>4
<1>16. ASSUME NEW t \in Threads, Quit(t) PROVE WakeInv'
  <2>1. /\ pc' = pc /\ calling' = calling /\ pending' = pending
        /\ early' = early /\ wakeFd' = wakeFd
    BY <1>16 DEF Quit
  <2>2. \A u \in Threads : tpc'[u] = IF u = t THEN "quitting" ELSE tpc[u]
    BY <1>16 DEF Quit, TypeOK
  <2>3. tpc[t] = "idle" /\ (t = LoopThread => pc \in {"before", "handler", "functor"})
    BY <1>16 DEF Quit, MayCall
  <2>4. Signalled' <=> Signalled
    BY <2>1, <2>2, <2>3 DEF Signalled, Threads
  <2>5. QED
    BY <2>1, <2>2, <2>3, <2>4 DEF WakeInv, CallingInv, CallerInv, PollInv, BatchInv
<1>17. ASSUME NEW t \in Threads, QuitWakeUp(t) PROVE WakeInv'
  <2>1. pc' = pc /\ calling' = calling /\ pending' = pending /\ early' = early
    BY <1>17 DEF QuitWakeUp
  <2>2. \A u \in Threads : tpc'[u] = IF u = t THEN "idle" ELSE tpc[u]
    BY <1>17 DEF QuitWakeUp, TypeOK
  <2>3. tpc[t] = "quitting"
    BY <1>17 DEF QuitWakeUp
  <2>4. Signalled => Signalled'
    <3>1. CASE t = LoopThread
      BY <1>17, <2>2, <3>1 DEF QuitWakeUp, Signalled, Threads
    <3>2. CASE t # LoopThread
      BY <1>17, <3>2, WakeUpSignals DEF QuitWakeUp, Signalled
    <3>3. QED
      BY <3>1, <3>2
  <2>5. QED
    BY <2>1, <2>2, <2>3, <2>4 DEF WakeInv, CallingInv, CallerInv, PollInv, BatchInv
<1>18. CASE UNCHANGED vars
  BY <1>18 DEF vars, WakeInv, CallingInv, CallerInv, PollInv, BatchInv, Signalled
<1>19. QED
  BY <1>1, <1>2, <1>3, <1>4, <1>5, <1>6, <1>7, <1>8, <1>9, <1>10, <1>11,
     <1>12, <1>13, <1>14, <1>15, <1>16, <1>17, <1>18
     DEF Next, LoopStep, CallStep, QueueInLoop

\* No wake-up is lost: a loop that is about to block in poll, or blocked there,
\* with functors that were queued since loop() began has been signalled or is
\* about to be.
THEOREM WakeupNotLost == Spec => []NoLostWakeup
<1>1. Init => WakeInv
  BY LoopThreadInThreads, RangeOfEmpty
     DEF Init, WakeInv, CallingInv, CallerInv, PollInv, BatchInv
<1>2. WakeInv => NoLostWakeup
  BY DEF WakeInv, PollInv, NoLostWakeup
<1>3. QED
  BY <1>1, <1>2, TypeCorrect, WakeInvStep, PTL DEF Spec

-----------------------------------------------------------------------------
(* First in, first out.                                                    *)

\* Outside the run of a batch, nothing swapped out is left to run.
NoBatch == pc \notin {"run", "functor"} => functors = << >>

FifoInv == FifoOrder /\ NoBatch

\* Every step keeps what ran, what was swapped out and what is pending in the order
\* in which it was queued.
LEMMA FifoInvStep == TypeOK /\ FifoInv /\ [Next]_vars => FifoInv'
<1> SUFFICES ASSUME TypeOK, FifoInv, [Next]_vars PROVE FifoInv'
  OBVIOUS
<1> USE DEF LoopAt, loopVars, callVars
<1>1. CASE UNCHANGED <<queued, ran, functors, pending>> /\ NoBatch'
  BY <1>1 DEF FifoInv, FifoOrder
<1>2. ASSUME NEW t \in Threads, NEW f \in Functors, Push(t, f) PROVE FifoInv'
  <2>1. ran \o functors \in Seq(Functors)
    BY ConcatProperties DEF TypeOK
  <2>2. (ran \o functors) \o Append(pending, f) = Append((ran \o functors) \o pending, f)
    BY <2>1, ConcatAppend DEF TypeOK
  <2>3. QED
    BY <1>2, <2>2 DEF Push, FifoInv, FifoOrder, NoBatch
<1>3. CASE SwapFunctors
  <2>1. functors = << >> /\ functors' = pending /\ pending' = << >>
    BY <1>3 DEF SwapFunctors, FifoInv, NoBatch
  <2>2. ran \o << >> = ran /\ (ran \o pending) \o << >> = ran \o pending
    BY ConcatEmptySeq, ConcatProperties DEF TypeOK
  <2>3. QED
    BY <1>3, <2>1, <2>2 DEF SwapFunctors, FifoInv, FifoOrder, NoBatch
<1>4. CASE RunFunctor
  <2>1. Append(ran, Head(functors)) \o Tail(functors) = ran \o functors
    BY <1>4, MoveHead DEF RunFunctor, TypeOK
  <2>2. QED
    BY <1>4, <2>1 DEF RunFunctor, FifoInv, FifoOrder, NoBatch
<1>5. CASE EndFunctor
  BY <1>1, <1>5 DEF EndFunctor, FifoInv, NoBatch
<1>6. CASE EndPendingFunctors
  BY <1>1, <1>6 DEF EndPendingFunctors, FifoInv, NoBatch
<1>7. CASE \/ EnterLoop \/ CheckQuit \/ PollReady \/ PollTimeout \/ HandRead
           \/ (\E c \in IoChannels : HandleEvent(c))
           \/ EndHandler \/ BeginPendingFunctors
  BY <1>1, <1>7 DEF EnterLoop, CheckQuit, PollReady, PollTimeout, HandRead,
     HandleEvent, EndHandler, BeginPendingFunctors, FifoInv, NoBatch
<1>8. ASSUME NEW t \in Threads, NEW f \in Functors, RunInLoop(t, f) PROVE FifoInv'
  <2>1. CASE UNCHANGED <<loopVars, pending, queued>>
    BY <1>1, <2>1 DEF FifoInv, NoBatch
  <2>2. QED
    BY <1>2, <1>8, <2>1 DEF RunInLoop
<1>9. ASSUME NEW t \in Threads, WakeIfNeeded(t) \/ Quit(t) \/ QuitWakeUp(t)
      PROVE FifoInv'
  BY <1>1, <1>9 DEF WakeIfNeeded, Quit, QuitWakeUp, FifoInv, NoBatch
<1>10. CASE UNCHANGED vars
  BY <1>1, <1>10 DEF vars, FifoInv, NoBatch
<1>11. QED
  BY <1>2, <1>3, <1>4, <1>5, <1>6, <1>7, <1>8, <1>9, <1>10
     DEF Next, LoopStep, CallStep, QueueInLoop

\* The queue's order holds in every reachable state.
LEMMA FifoInvariant == Spec => []FifoInv
<1>1. Init => FifoInv
  <2> SUFFICES ASSUME Init PROVE FifoInv
    OBVIOUS
  <2>1. << >> \o << >> = << >> /\ << >> \in Seq(Functors)
    BY ConcatEmptySeq, EmptySeq
  <2>2. QED
    BY <2>1 DEF Init, FifoInv, FifoOrder, NoBatch
<1>2. QED
  BY <1>1, TypeCorrect, FifoInvStep, PTL DEF Spec

\* queueInLoop is first in, first out and neither loses nor repeats a functor.
THEOREM QueueIsFifo == Spec => []FifoOrder
<1>1. FifoInv => FifoOrder
  BY DEF FifoInv
<1>2. QED
  BY <1>1, FifoInvariant, PTL

-----------------------------------------------------------------------------
(* Refinement.                                                             *)

\* A new loop is an empty, open task queue.
LEMMA RefinementInit == Init => Tasks!Init
<1> SUFFICES ASSUME Init PROVE Tasks!Init
  OBVIOUS
<1>1. << >> \o << >> = << >>
  BY ConcatEmptySeq, EmptySeq
<1>2. QED
  BY <1>1 DEF Init, Tasks!Init

\* Push is Submit, RunFunctor is Execute, CheckQuit of a loop that was told to
\* quit is Stop, and every other step leaves the abstract queue as it is.
LEMMA RefinementStep ==
  TypeOK /\ FifoInv /\ [Next]_vars => [Tasks!Next]_(Tasks!vars)
<1> SUFFICES ASSUME TypeOK, FifoInv, [Next]_vars PROVE [Tasks!Next]_(Tasks!vars)
  OBVIOUS
<1> USE DEF LoopAt, loopVars, callVars
<1>1. CASE /\ UNCHANGED <<functors, pending, ran>>
           /\ pc' # "stopped" <=> pc # "stopped"
  BY <1>1 DEF Tasks!vars
<1>2. ASSUME NEW t \in Threads, NEW f \in Functors, Push(t, f)
      PROVE [Tasks!Next]_(Tasks!vars)
  <2>1. functors \o Append(pending, f) = Append(functors \o pending, f)
    BY ConcatAppend DEF TypeOK
  <2>2. Tasks!Submit(f)
    BY <1>2, <2>1 DEF Push, Tasks!Submit
  <2>3. QED
    BY <2>2 DEF Tasks!Next
<1>3. CASE SwapFunctors
  <2>1. functors = << >> /\ functors' = pending /\ pending' = << >>
    BY <1>3 DEF SwapFunctors, FifoInv, NoBatch
  <2>2. << >> \o pending = pending \o << >>
    BY ConcatEmptySeq DEF TypeOK
  <2>3. QED
    BY <1>3, <2>1, <2>2 DEF SwapFunctors, Tasks!vars
<1>4. CASE RunFunctor
  <2>1. /\ functors \o pending # << >>
        /\ Head(functors \o pending) = Head(functors)
        /\ Tail(functors \o pending) = Tail(functors) \o pending
    BY <1>4, HeadTailOfConcat DEF RunFunctor, TypeOK
  <2>2. Tasks!Execute
    BY <1>4, <2>1 DEF RunFunctor, Tasks!Execute
  <2>3. QED
    BY <2>2 DEF Tasks!Next
<1>5. CASE CheckQuit
  <2>1. CASE quit
    BY <1>5, <2>1 DEF CheckQuit, Tasks!Next, Tasks!Stop
  <2>2. CASE ~ quit
    BY <1>1, <1>5, <2>2 DEF CheckQuit
  <2>3. QED
    BY <2>1, <2>2
<1>6. CASE \/ EnterLoop \/ PollReady \/ PollTimeout \/ HandRead
           \/ (\E c \in IoChannels : HandleEvent(c))
           \/ EndHandler \/ BeginPendingFunctors \/ EndFunctor \/ EndPendingFunctors
  BY <1>1, <1>6 DEF EnterLoop, PollReady, PollTimeout, HandRead, HandleEvent,
     EndHandler, BeginPendingFunctors, EndFunctor, EndPendingFunctors
<1>7. ASSUME NEW t \in Threads, NEW f \in Functors, RunInLoop(t, f)
      PROVE [Tasks!Next]_(Tasks!vars)
  <2>1. CASE UNCHANGED <<loopVars, pending>>
    BY <1>1, <2>1
  <2>2. QED
    BY <1>2, <1>7, <2>1 DEF RunInLoop
<1>8. ASSUME NEW t \in Threads, WakeIfNeeded(t) \/ Quit(t) \/ QuitWakeUp(t)
      PROVE [Tasks!Next]_(Tasks!vars)
  BY <1>1, <1>8 DEF WakeIfNeeded, Quit, QuitWakeUp
<1>9. CASE UNCHANGED vars
  BY <1>1, <1>9 DEF vars
<1>10. QED
  BY <1>2, <1>3, <1>4, <1>5, <1>6, <1>7, <1>8, <1>9
     DEF Next, LoopStep, CallStep, QueueInLoop

\* The loop implements the abstract first-in first-out queue: callbacks run one
\* at a time, in order, at most once, and none after the loop stopped.
THEOREM LoopImplementsTaskQueue == Spec => ImplementsTaskQueue
BY RefinementInit, RefinementStep, TypeCorrect, FifoInvariant, PTL
   DEF Spec, ImplementsTaskQueue, Tasks!Spec
=============================================================================

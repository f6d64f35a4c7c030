----------------------- MODULE EventLoopThreadProofs -----------------------
(***************************************************************************)
(* Proofs about EventLoopThread.  A loop that lives inside an              *)
(* EventLoopThread is an EventLoop: what EventLoopProofs establishes of    *)
(* the loop alone carries over to the thread that runs it.  The handshake  *)
(* of startLoop, threadFunc and the destructor over m_loop follows from an *)
(* inductive invariant that relates the owner's place to the child's.      *)
(***************************************************************************)
EXTENDS EventLoopThread, EventLoopProofs

\* The owner and the child only ever use the loop through its own operations:
\* every step of the thread object is a step of the loop or does not touch it.
LEMMA ThreadStepIsLoopStep == [ThreadNext]_allVars => [Next]_vars
<1> SUFFICES ASSUME [ThreadNext]_allVars PROVE [Next]_vars
  OBVIOUS
<1>1. CASE OwnerStep
  <2>1. Owner \in Threads
    BY OwnerAssumption DEF Threads
  <2>2. CASE DestructorQuit
    BY <2>1, <2>2 DEF DestructorQuit, Next, CallStep
  <2>3. CASE DestructorWakeUp
    BY <2>1, <2>3 DEF DestructorWakeUp, Next, CallStep
  <2>4. CASE UNCHANGED vars
    BY <2>4
  <2>5. QED
    BY <1>1, <2>2, <2>3, <2>4 DEF OwnerStep, StartThread, SemWait, CheckLoop,
       SpuriousWakeUp, BeginDestructor, Join
<1>2. CASE ChildStep
  <2>1. CASE CallLoop
    BY <2>1 DEF CallLoop, Next, LoopStep
  <2>2. CASE RunLoop
    BY <2>2 DEF RunLoop, Next
  <2>3. CASE UNCHANGED vars
    BY <2>3
  <2>4. QED
    BY <1>2, <2>1, <2>2, <2>3 DEF ChildStep, SemPost, ConstructLoop, Publish,
       ClearLoop, ExitThread
<1>3. ASSUME NEW t \in Threads, UserCall(t) PROVE [Next]_vars
  <2>1. CallStep(t)
    BY <1>3 DEF UserCall, CallStep
  <2>2. QED
    BY <2>1 DEF Next
<1>4. CASE UNCHANGED allVars
  BY <1>4 DEF allVars
<1>5. QED
  BY <1>1, <1>2, <1>3, <1>4 DEF ThreadNext

\* The loop of an EventLoopThread is an EventLoop: constructing it, publishing it
\* and destroying its thread add no behaviour to it.
THEOREM ThreadRunsEventLoop == ThreadSpec => Spec
<1>1. ThreadInit => Init
  BY DEF ThreadInit
<1>2. QED
  BY <1>1, ThreadStepIsLoopStep, PTL DEF ThreadSpec, Spec

\* Functors queued through startLoop's pointer are run first in, first out.
THEOREM ThreadLoopIsFifo == ThreadSpec => []FifoOrder
BY ThreadRunsEventLoop, QueueIsFifo, PTL

\* No wake-up is lost between the owner's calls and the loop of the child,
\* whether the functor is queued before or after the child entered loop().
THEOREM ThreadWakeupNotLost == ThreadSpec => []NoLostWakeup
BY ThreadRunsEventLoop, WakeupNotLost, PTL

-----------------------------------------------------------------------------
(* The handshake over m_loop.                                              *)

\* A thread object whose startLoop was not called has no thread.
NotStarted == owner = "new" => child = "none"

\* m_loop is set exactly while the loop is published and not yet left.
LoopPointer == mLoop <=> child \in {"published", "running"}

\* startLoop has returned only after the child had published its loop.
OwnerSawLoop ==
  owner \in {"started", "quit", "wakeUp", "join"}
    => child \in {"published", "running", "cleared", "exited"}

HandshakeInv == NotStarted /\ LoopPointer /\ OwnerSawLoop /\ NoOrphanThread

\* Types of the owner's and the child's places and of m_loop.
HandshakeTypes == owner \in OwnerPCs /\ child \in ChildPCs /\ mLoop \in BOOLEAN

\* A step inside the loop or of a caller does not move the handshake.
LEMMA OtherStepsKeepHandshake ==
  ASSUME UNCHANGED threadVars
  PROVE  /\ HandshakeTypes => HandshakeTypes'
         /\ HandshakeInv => HandshakeInv'
BY DEF threadVars, HandshakeTypes, HandshakeInv, NotStarted, LoopPointer,
   OwnerSawLoop, NoOrphanThread

\* Every step of startLoop, threadFunc and the destructor keeps the types.
LEMMA HandshakeTypesStep == HandshakeTypes /\ [ThreadNext]_allVars => HandshakeTypes'
<1> SUFFICES ASSUME HandshakeTypes, [ThreadNext]_allVars PROVE HandshakeTypes'
  OBVIOUS
<1>1. CASE OwnerStep
  BY <1>1 DEF OwnerStep, StartThread, SemWait, CheckLoop, SpuriousWakeUp,
     BeginDestructor, DestructorQuit, DestructorWakeUp, Join,
     HandshakeTypes, OwnerPCs, ChildPCs
<1>2. CASE ChildStep /\ ~ RunLoop
  BY <1>2 DEF ChildStep, SemPost, ConstructLoop, Publish, CallLoop, ClearLoop,
     ExitThread, HandshakeTypes, OwnerPCs, ChildPCs
<1>3. CASE UNCHANGED threadVars
  BY <1>3, OtherStepsKeepHandshake
<1>4. QED
  BY <1>1, <1>2, <1>3 DEF ThreadNext, RunLoop, UserCall, allVars

\* The places of the owner, of the child and the value of m_loop are always among
\* the ones the code has, as are the fields of the loop.
LEMMA ThreadTypeCorrect == ThreadSpec => []ThreadTypeOK
<1>1. ThreadInit => HandshakeTypes
  BY DEF ThreadInit, HandshakeTypes, OwnerPCs, ChildPCs
<1>2. TypeOK /\ HandshakeTypes => ThreadTypeOK
  BY DEF HandshakeTypes, ThreadTypeOK
<1>3. ThreadSpec => []HandshakeTypes
  BY <1>1, HandshakeTypesStep, PTL DEF ThreadSpec
<1>4. QED
  BY <1>2, <1>3, ThreadRunsEventLoop, TypeCorrect, PTL

\* Every step keeps the owner's place consistent with the child's.  The interesting
\* ones are CheckLoop and BeginDestructor, which read m_loop, and Publish and
\* ClearLoop, which write it.
LEMMA HandshakeStep == HandshakeInv /\ [ThreadNext]_allVars => HandshakeInv'
<1> SUFFICES ASSUME HandshakeInv, [ThreadNext]_allVars PROVE HandshakeInv'
  OBVIOUS
<1> USE DEF HandshakeInv, NotStarted, LoopPointer, OwnerSawLoop, NoOrphanThread
<1>1. CASE StartThread BY <1>1 DEF StartThread
<1>2. CASE SemWait BY <1>2 DEF SemWait
<1>3. CASE CheckLoop BY <1>3 DEF CheckLoop
<1>4. CASE SpuriousWakeUp BY <1>4 DEF SpuriousWakeUp
<1>5. CASE BeginDestructor BY <1>5 DEF BeginDestructor
<1>6. CASE DestructorQuit BY <1>6 DEF DestructorQuit
<1>7. CASE DestructorWakeUp BY <1>7 DEF DestructorWakeUp
<1>8. CASE Join BY <1>8 DEF Join
<1>9. CASE SemPost BY <1>9 DEF SemPost
<1>10. CASE ConstructLoop BY <1>10 DEF ConstructLoop
<1>11. CASE Publish BY <1>11 DEF Publish
<1>12. CASE CallLoop BY <1>12 DEF CallLoop
<1>13. CASE ClearLoop BY <1>13 DEF ClearLoop
<1>14. CASE ExitThread BY <1>14 DEF ExitThread
<1>15. CASE UNCHANGED threadVars
  BY <1>15, OtherStepsKeepHandshake
<1>16. QED
  BY <1>1, <1>2, <1>3, <1>4, <1>5, <1>6, <1>7, <1>8, <1>9, <1>10, <1>11,
     <1>12, <1>13, <1>14, <1>15
     DEF ThreadNext, OwnerStep, ChildStep, RunLoop, UserCall, allVars

\* The handshake holds from the construction of the EventLoopThread on.
LEMMA HandshakeInvariant == ThreadSpec => []HandshakeInv
<1>1. ThreadInit => HandshakeInv
  BY DEF ThreadInit, HandshakeInv, NotStarted, LoopPointer, OwnerSawLoop,
     NoOrphanThread
<1>2. QED
  BY <1>1, HandshakeStep, PTL DEF ThreadSpec

\* m_loop never points to a loop that threadFunc has not constructed yet or has
\* already left, although the destructor reads it without the mutex.
THEOREM LoopPointerNeverDangles == ThreadSpec => []PublishedLoopLives
<1>1. HandshakeInv => PublishedLoopLives
  BY DEF HandshakeInv, LoopPointer, PublishedLoopLives
<1>2. QED
  BY <1>1, HandshakeInvariant, PTL

\* ~EventLoopThread never returns while a thread of it runs the loop or may still
\* publish one.
THEOREM NoThreadOutlivesOwner == ThreadSpec => []NoOrphanThread
<1>1. HandshakeInv => NoOrphanThread
  BY DEF HandshakeInv
<1>2. QED
  BY <1>1, HandshakeInvariant, PTL
=============================================================================

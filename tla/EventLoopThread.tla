-------------------------- MODULE EventLoopThread --------------------------
(***************************************************************************)
(* An EventLoopThread (src/mymuduo/EventLoopThread.cpp, with Thread.cpp):  *)
(* its owner starts a thread that constructs an EventLoop on its own stack *)
(* and publishes its address in m_loop; the owner waits for the address,   *)
(* uses the loop, and finally destroys the EventLoopThread, which tells    *)
(* the loop to quit and joins the thread.                                  *)
(*                                                                         *)
(* The loop itself is module EventLoop: its actions are taken here between *)
(* the construction of the loop and the return of loop().  The owner and   *)
(* the other workers use the loop only between startLoop and the           *)
(* destructor, as EventLoopThreadPool and TcpServer do.                    *)
(***************************************************************************)
EXTENDS EventLoop

CONSTANTS
  Owner           \* the thread that owns the EventLoopThread object

ASSUME OwnerAssumption == Owner \in Workers

VARIABLES
  owner,          \* where the owner is in startLoop or in the destructor
  child,          \* where the started thread is in Thread::start's lambda
  mLoop           \* m_loop # nullptr

threadVars == <<owner, child, mLoop>>
allVars == <<vars, threadVars>>

OwnerPCs == {"new", "semWait", "lock", "cond", "started", "quit", "wakeUp",
             "join", "gone"}
ChildPCs == {"none", "spawned", "posted", "init", "published", "running",
             "cleared", "exited"}

\* Types of the thread object, on top of the types of its loop.
ThreadTypeOK ==
  /\ TypeOK
  /\ owner \in OwnerPCs
  /\ child \in ChildPCs
  /\ mLoop \in BOOLEAN

ThreadInit ==
  /\ Init
  /\ owner = "new"
  /\ child = "none"
  /\ mLoop = FALSE

-----------------------------------------------------------------------------
(* The owner: startLoop, then the destructor.                              *)

\* Thread::start: the std::thread is created, then sem_wait.
StartThread ==
  /\ owner = "new"
  /\ owner' = "semWait"
  /\ child' = "spawned"
  /\ UNCHANGED <<vars, mLoop>>

SemWait ==
  /\ owner = "semWait"
  /\ child # "spawned"
  /\ owner' = "lock"
  /\ UNCHANGED <<vars, child, mLoop>>

\* A faulty startLoop that does not look at m_loop before it waits.
WaitAlways ==
  /\ owner = "lock"
  /\ owner' = "cond"
  /\ UNCHANGED <<vars, child, mLoop>>

\* while (m_loop == nullptr) m_cond.wait(lock), evaluated with m_mutex held.
CheckLoop ==
  /\ owner = "lock"
  /\ owner' = IF mLoop THEN "started" ELSE "cond"
  /\ UNCHANGED <<vars, child, mLoop>>

\* A condition variable may wake its waiter without a notification.
SpuriousWakeUp ==
  /\ owner = "cond"
  /\ owner' = "lock"
  /\ UNCHANGED <<vars, child, mLoop>>

\* ~EventLoopThread reads m_loop, without m_mutex.  If it is null nothing is
\* joined and ~Thread detaches what was started.  Callers are done by then.
BeginDestructor ==
  /\ owner \in {"new", "started"}
  /\ \A w \in Workers : tpc[w] = "idle"
  /\ owner' = IF mLoop THEN "quit" ELSE "gone"
  /\ UNCHANGED <<vars, child, mLoop>>

\* A faulty destructor that joins without telling the loop to quit.
DestructorForgetsQuit ==
  /\ owner = "quit"
  /\ owner' = "join"
  /\ UNCHANGED <<vars, child, mLoop>>

\* m_loop->quit(), in its two steps.
DestructorQuit ==
  /\ owner = "quit"
  /\ Quit(Owner)
  /\ owner' = "wakeUp"
  /\ UNCHANGED <<child, mLoop>>

\* A faulty destructor that does not join the thread.
DestructorForgetsJoin ==
  /\ owner = "wakeUp"
  /\ QuitWakeUp(Owner)
  /\ owner' = "gone"
  /\ UNCHANGED <<child, mLoop>>

DestructorWakeUp ==
  /\ owner = "wakeUp"
  /\ QuitWakeUp(Owner)
  /\ owner' = "join"
  /\ UNCHANGED <<child, mLoop>>

\* m_thread.join() returns.
Join ==
  /\ owner = "join"
  /\ child = "exited"
  /\ owner' = "gone"
  /\ UNCHANGED <<vars, child, mLoop>>

-----------------------------------------------------------------------------
(* The started thread: Thread::start's lambda and threadFunc.              *)

SemPost ==
  /\ child = "spawned"
  /\ child' = "posted"
  /\ UNCHANGED <<vars, owner, mLoop>>

\* EventLoop loop; then m_threadInitCallback(&loop) runs.
ConstructLoop ==
  /\ child = "posted"
  /\ child' = "init"
  /\ UNCHANGED <<vars, owner, mLoop>>

\* m_loop = &loop; m_cond.notify_one(), with m_mutex held.
Publish ==
  /\ child = "init"
  /\ tpc[LoopThread] = "idle"
  /\ child' = "published"
  /\ mLoop' = TRUE
  /\ owner' = IF owner = "cond" THEN "lock" ELSE owner
  /\ UNCHANGED vars

\* loop.loop() is entered: m_quit = false.
CallLoop ==
  /\ child = "published"
  /\ EnterLoop
  /\ child' = "running"
  /\ UNCHANGED <<owner, mLoop>>

\* A faulty threadFunc that leaves m_loop pointing to its dead stack frame.
ReturnWithoutClear ==
  /\ child = "running"
  /\ pc = "stopped"
  /\ child' = "cleared"
  /\ UNCHANGED <<vars, owner, mLoop>>

\* loop() has returned: m_loop = nullptr, with m_mutex held.
ClearLoop ==
  /\ child = "running"
  /\ pc = "stopped"
  /\ child' = "cleared"
  /\ mLoop' = FALSE
  /\ UNCHANGED <<vars, owner>>

\* The mutex is released, the loop is destroyed and the thread ends.
ExitThread ==
  /\ child = "cleared"
  /\ child' = "exited"
  /\ UNCHANGED <<vars, owner, mLoop>>

-----------------------------------------------------------------------------
\* A step inside loop().
RunLoop ==
  /\ child = "running"
  /\ LoopStep
  /\ UNCHANGED threadVars

\* User code of thread t uses the loop.
UserCall(t) ==
  /\ IF t = LoopThread THEN child \in {"init", "running"} ELSE owner = "started"
  /\ \/ \E f \in Functors : QueueInLoop(t, f) \/ RunInLoop(t, f)
     \/ WakeIfNeeded(t)
     \/ t = LoopThread /\ (Quit(t) \/ QuitWakeUp(t))
  /\ UNCHANGED threadVars

OwnerStep ==
  \/ StartThread \/ SemWait \/ CheckLoop \/ SpuriousWakeUp \/ BeginDestructor
  \/ DestructorQuit \/ DestructorWakeUp \/ Join

ChildStep ==
  SemPost \/ ConstructLoop \/ Publish \/ CallLoop \/ RunLoop \/ ClearLoop \/ ExitThread

ThreadNext == OwnerStep \/ ChildStep \/ \E t \in Threads : UserCall(t)

ThreadSpec == ThreadInit /\ [][ThreadNext]_allVars

(***************************************************************************)
(* Fairness: both threads run; the fairness of the loop's own steps is     *)
(* that of module EventLoop, with the poll time-out; the init callback     *)
(* ends after finitely many calls.  Nothing forces the owner to start the  *)
(* thread or to destroy the object.                                        *)
(***************************************************************************)
InLoop(A) == child = "running" /\ A /\ UNCHANGED threadVars

ThreadFairness ==
  /\ WF_allVars(SemWait) /\ WF_allVars(CheckLoop)
  /\ WF_allVars(DestructorQuit) /\ WF_allVars(DestructorWakeUp) /\ WF_allVars(Join)
  /\ WF_allVars(SemPost) /\ WF_allVars(ConstructLoop) /\ SF_allVars(Publish)
  /\ WF_allVars(CallLoop) /\ WF_allVars(ClearLoop) /\ WF_allVars(ExitThread)
  /\ WF_allVars(InLoop(CheckQuit))
  /\ WF_allVars(InLoop(PollTimeout))
  /\ WF_allVars(InLoop(HandRead))
  /\ WF_allVars(InLoop(\E c \in IoChannels : HandleEvent(c)))
  /\ SF_allVars(InLoop(EndHandler))
  /\ WF_allVars(InLoop(BeginPendingFunctors))
  /\ WF_allVars(InLoop(SwapFunctors))
  /\ WF_allVars(InLoop(RunFunctor))
  /\ SF_allVars(InLoop(EndFunctor))
  /\ WF_allVars(InLoop(EndPendingFunctors))
  /\ \A t \in Threads : WF_allVars(WakeIfNeeded(t) /\ UserCall(t))
  /\ WF_allVars(QuitWakeUp(LoopThread) /\ UserCall(LoopThread))

FairThreadSpec == ThreadSpec /\ ThreadFairness

-----------------------------------------------------------------------------
(* Properties.                                                             *)

(***************************************************************************)
(* m_loop never dangles: what startLoop hands out and the destructor tests *)
(* is a loop that threadFunc has constructed and not yet left.             *)
(***************************************************************************)
PublishedLoopLives == mLoop => child \in {"published", "running"}

(***************************************************************************)
(* When the destructor has returned, no thread is left that runs the loop  *)
(* or will publish it.  Only a loop that a callback has quit may leave a   *)
(* thread that has cleared m_loop and is about to end: the destructor      *)
(* reads m_loop without m_mutex, finds it null and does not join.          *)
(***************************************************************************)
NoOrphanThread == owner = "gone" => child \in {"none", "cleared", "exited"}

(***************************************************************************)
(* startLoop returns: neither the semaphore nor m_cond is waited on for    *)
(* ever, unless a callback quits the loop before startLoop looks at m_loop *)
(* (threadFunc then has reset it, and nobody notifies m_cond again).       *)
(***************************************************************************)
StartLoopReturns == owner = "semWait" ~> owner = "started" \/ pc = "stopped"

(***************************************************************************)
(* The destructor returns if its quit() finds the loop inside loop(): quit *)
(* ends the loop, threadFunc returns and join does.                        *)
(***************************************************************************)
DestructorReturnsFromRunningLoop ==
  owner = "quit" /\ child = "running" ~> owner = "gone"

\* The destructor returns, whenever it is called after startLoop.
DestructorReturns == owner = "quit" ~> owner = "gone"
=============================================================================

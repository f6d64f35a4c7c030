----------------------------- MODULE TaskQueue -----------------------------
(***************************************************************************)
(* What an EventLoop promises to the threads that hand it callbacks with   *)
(* queueInLoop: callbacks run one at a time, in the order in which they    *)
(* were queued, each at most once; as long as the loop has not stopped,    *)
(* every queued callback is eventually run.  Callbacks that are still      *)
(* queued when the loop stops are never run.                               *)
(*                                                                         *)
(* This is the abstract specification that module EventLoop implements.    *)
(***************************************************************************)
EXTENDS Sequences

CONSTANT Functors            \* the callbacks that clients may queue

VARIABLES
  todo,                      \* callbacks queued and not yet started, in order
  done,                      \* callbacks started, in order
  open                       \* FALSE once the loop has stopped

vars == <<todo, done, open>>

TypeOK ==
  /\ todo \in Seq(Functors)
  /\ done \in Seq(Functors)
  /\ open \in BOOLEAN

Init ==
  /\ todo = << >>
  /\ done = << >>
  /\ open = TRUE

\* A client queues f.  Nothing prevents it from doing so after the loop stopped.
Submit(f) ==
  /\ todo' = Append(todo, f)
  /\ UNCHANGED <<done, open>>

\* The loop thread starts the oldest queued callback.
Execute ==
  /\ open
  /\ todo # << >>
  /\ done' = Append(done, Head(todo))
  /\ todo' = Tail(todo)
  /\ UNCHANGED open

\* The loop stops; what is still queued stays queued.
Stop ==
  /\ open
  /\ open' = FALSE
  /\ UNCHANGED <<todo, done>>

Next ==
  \/ \E f \in Functors : Submit(f)
  \/ Execute
  \/ Stop

Spec == Init /\ [][Next]_vars
=============================================================================

---------------------------- MODULE MCTcpServer ----------------------------
(* Small instances of TcpServer for TLC. *)
EXTENDS TcpServer, TLC

\* The thread pool may start none, one or two i/o loops.
OneLoop == <<"io1">>
TwoLoops == <<"io1", "io2">>

\* Connections are interchangeable, and so are workers.
Symmetry == Permutations(Conns) \cup Permutations(Workers)
=============================================================================

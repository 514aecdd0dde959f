---------------------------- MODULE MCTaskWorker ----------------------------
(* TaskWorker with two kinds of tasks and at most four of them. *)
EXTENDS TaskWorker

CONSTANTS b1, b2

MCTask == {b1, b2}
=============================================================================

----------------------------- MODULE MCTaskQueue -----------------------------
(***************************************************************************)
(* Instances of TaskQueue for TLC.  Workers are interchangeable; tasks are *)
(* not, since one of them has no handler.                                  *)
(***************************************************************************)
EXTENDS TaskQueue, TLC

WorkerSymmetry == Permutations(Worker)
==============================================================================

---------------------------- MODULE MCTaskLedger ----------------------------
(***************************************************************************)
(* TLC instance of TaskLedger.  Task and run identifiers are random UUIDs  *)
(* in the code, so both sets are symmetric.  QueueSplice comes along for  *)
(* its assumptions about the queue.                                        *)
(***************************************************************************)
EXTENDS TaskLedger, TLC, QueueSplice

Symmetric == Permutations(Tasks) \cup Permutations(Runs)
=============================================================================

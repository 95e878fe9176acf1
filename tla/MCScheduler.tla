----------------------------- MODULE MCScheduler -----------------------------
(* One task that skips and one that overlaps under a lock, three runs. *)
EXTENDS Scheduler

CONSTANTS skips, locks

OneRetry == [t \in Task |-> 1]
=============================================================================

--------------------------- MODULE MCBackfillJob ---------------------------
(***************************************************************************)
(* Model-checking instances of BackfillJob, and what the documentation     *)
(* says of a backfill job that its code does not keep.                     *)
(***************************************************************************)
EXTENDS BackfillJob, TLC

\* Executors are interchangeable (safety runs only).
ExecutorSymmetry == Permutations(Executors)

(* The runbook's state table: "completed | All partitions done".  The CLI   *)
(* commits the job before its partition rows, so an executor can find no    *)
(* partition to claim and complete the job ahead of them.                   *)
CompletedJobIsDone ==
    state = "completed" =>
        \A p \in Partitions : row[p] \in {"completed", "failed"}

(* The runbook on crashed executors: the job is reclaimed and "Partitions   *)
(* will retry".  No finished job may have a partition row still 'running'   *)
(* that no executor is working on.                                          *)
NoOrphanedPartition ==
    state \in {"completed", "failed"} =>
        \A p \in Partitions : row[p] = "running" =>
            \E e \in Executors : Holding(e) /\ part[e] = p

(* Migration 009: "running -> completed (all partitions done)".  No         *)
(* executor may still be executing a partition of a completed job.          *)
CompletedMeansQuiet ==
    state = "completed" => \A e \in Executors : ~Holding(e)

(* backfill_executor.rs on check_upstream_ready: "Returns true if all       *)
(* required upstream partitions have been completed in any backfill job".   *)
ReadyMeansReady ==
    \A e \in Executors : pc[e] = "execute" => part[e] \in ready

(* README of the runtime: "Checkpoint persistence: Progress saved for       *)
(* accurate resumption".  A completed job all of whose partitions are       *)
(* completed has counted them all.                                          *)
ProgressSurvivesPause ==
    (state = "completed" /\ \A p \in Partitions : row[p] = "completed")
        => completed_partitions = N

(* The runbook on pausing: "Current partition completes before stopping".   *)
(* No further partition starts once the job is paused.                      *)
PauseStartsNothing ==
    [][state = "paused" =>
          \A p \in Partitions : row'[p] = "running" => row[p] = "running"]_vars
=============================================================================

---------------------------- MODULE BackfillJob ----------------------------
(***************************************************************************)
(* One backfill job, its partition rows in Postgres, and the executors     *)
(* that claim and process it.  A storage call is one transaction           *)
(* (with_tenant_context), hence one step; everything an executor remembers *)
(* between two calls is a local of the executor and may be stale.          *)
(*                                                                         *)
(* Nothing in the row says which executor owns the job: the executor id is *)
(* "reserved for future use".  A running job whose heartbeat is old may be *)
(* claimed again while its first executor is still alive, because the      *)
(* heartbeat is refreshed between partitions only and a partition may take *)
(* longer (300s) than the staleness threshold (120s).                      *)
(***************************************************************************)
EXTENDS Integers, FiniteSets

CONSTANTS
    N,            \* total_partitions of the job
    Executors,    \* BackfillExecutor instances polling the same tenant
    MaxRetries,   \* config.max_partition_retries
    HasUpstream,  \* does the asset have upstream dependencies?
    MaxFaults,    \* bound: crashes and storage errors
    MaxPauses,    \* bound: pause requests
    MaxRequeues   \* bound: partitions put back for a missing upstream

ASSUME JobAssumption ==
    /\ N \in Nat \ {0}
    /\ MaxRetries \in Nat \ {0}
    /\ HasUpstream \in BOOLEAN
    /\ MaxFaults \in Nat
    /\ MaxPauses \in Nat
    /\ MaxRequeues \in Nat

Partitions == 1 .. N        \* partition keys, in the order of partition_key ASC
NoKey == 0                  \* the NULL partition key

VARIABLES
    \* the row of backfill_jobs
    state, stale, completed_partitions, failed_partitions, checkpoint,
    \* the rows of backfill_partitions
    row, attempt_count, last_completed,
    \* the locals of each executor's process_job
    pc, part, attempt, completed_count, failed_count, last_key, cache,
    \* the environment: completed upstream partitions and the bounds' counters
    ready, faults, pauses, requeues

jobVars  == <<state, stale, completed_partitions, failed_partitions, checkpoint>>
rowVars  == <<row, attempt_count, last_completed>>
exVars   == <<pc, part, attempt, completed_count, failed_count, last_key, cache>>
envVars  == <<ready, faults, pauses, requeues>>
counts   == <<completed_count, failed_count, last_key>>
vars     == <<jobVars, rowVars, exVars, envVars>>

RowStates == {"absent", "pending", "running", "completed", "failed", "skipped"}

\* The await points of poll_and_process_jobs and process_job.
Labels == {"idle", "load", "cancelled?", "paused?", "heartbeat", "claim",
           "ready?", "execute", "progress", "finish"}

Terminal == {"completed", "failed", "cancelled"}

(***************************************************************************)
(* The CLI has committed the job row; the partition rows follow, one       *)
(* transaction each.                                                       *)
(***************************************************************************)
Init ==
    /\ state = "pending" /\ stale = FALSE
    /\ completed_partitions = 0 /\ failed_partitions = 0 /\ checkpoint = NoKey
    /\ row = [p \in Partitions |-> "absent"]
    /\ attempt_count = [p \in Partitions |-> 0]
    /\ last_completed = NoKey
    /\ pc = [e \in Executors |-> "idle"]
    /\ part = [e \in Executors |-> NoKey]
    /\ attempt = [e \in Executors |-> 0]
    /\ completed_count = [e \in Executors |-> 0]
    /\ failed_count = [e \in Executors |-> 0]
    /\ last_key = [e \in Executors |-> NoKey]
    /\ cache = [e \in Executors |-> FALSE]
    /\ ready = IF HasUpstream THEN {} ELSE Partitions
    /\ faults = 0 /\ pauses = 0 /\ requeues = 0

Goto(e, label) == pc' = [pc EXCEPT ![e] = label]

\* The end of a loop iteration drops the claimed partition.
DropPartition(e) ==
    /\ part' = [part EXCEPT ![e] = NoKey]
    /\ attempt' = [attempt EXCEPT ![e] = 0]

\* process_job returns: its locals are gone.
Return(e) ==
    /\ Goto(e, "idle")
    /\ DropPartition(e)
    /\ completed_count' = [completed_count EXCEPT ![e] = 0]
    /\ failed_count' = [failed_count EXCEPT ![e] = 0]
    /\ last_key' = [last_key EXCEPT ![e] = NoKey]
    /\ cache' = [cache EXCEPT ![e] = FALSE]

\* COALESCE($k, current)
Coalesce(key, current) == IF key = NoKey THEN current ELSE key

-----------------------------------------------------------------------------
(* The CLI: creating the partition rows, in key order.                      *)

CreatePartition(p) ==
    /\ row[p] = "absent"
    /\ \A q \in Partitions : q < p => row[q] # "absent"
    /\ row' = [row EXCEPT ![p] = "pending"]
    /\ UNCHANGED <<jobVars, attempt_count, last_completed, exVars, envVars>>

(* The operator: pause, resume, cancel.                                     *)

Pause ==
    /\ pauses < MaxPauses
    /\ state = "running"
    /\ state' = "paused"
    /\ checkpoint' = Coalesce(last_completed, checkpoint)
    /\ stale' = FALSE
    /\ pauses' = pauses + 1
    /\ UNCHANGED <<completed_partitions, failed_partitions, rowVars, exVars,
                   ready, faults, requeues>>

Resume ==
    /\ state = "paused"
    /\ state' = "resuming"
    /\ stale' = FALSE
    /\ UNCHANGED <<completed_partitions, failed_partitions, checkpoint, rowVars,
                   exVars, envVars>>

\* Mutant: cancelling skips every row that has not failed.
CancelSkipsAll ==
    /\ state \notin Terminal
    /\ state' = "cancelled"
    /\ row' = [p \in Partitions |->
                 IF row[p] \notin {"absent", "failed"} THEN "skipped" ELSE row[p]]
    /\ UNCHANGED <<stale, completed_partitions, failed_partitions, checkpoint,
                   attempt_count, last_completed, exVars, envVars>>

Cancel ==
    /\ state \notin Terminal
    /\ state' = "cancelled"
    /\ row' = [p \in Partitions |->
                 IF row[p] = "pending" THEN "skipped" ELSE row[p]]
    /\ UNCHANGED <<stale, completed_partitions, failed_partitions, checkpoint,
                   attempt_count, last_completed, exVars, envVars>>

(* The environment: 120s without a heartbeat; an upstream backfill ends.    *)

HeartbeatExpires ==
    /\ state = "running" /\ ~stale
    /\ stale' = TRUE
    /\ UNCHANGED <<state, completed_partitions, failed_partitions, checkpoint,
                   rowVars, exVars, envVars>>

UpstreamCompletes(p) ==
    /\ p \notin ready
    /\ ready' = ready \cup {p}
    /\ UNCHANGED <<jobVars, rowVars, exVars, faults, pauses, requeues>>

-----------------------------------------------------------------------------
(* The executor.                                                            *)

\* Mutant: a running job is never claimed again.
ClaimableFresh == state \in {"pending", "resuming"}

Claimable == state \in {"pending", "resuming"} \/ (state = "running" /\ stale)

\* The claim returns a snapshot of the row; process_job counts on from it.
ClaimJob(e) ==
    /\ pc[e] = "idle"
    /\ Claimable
    /\ state' = "running" /\ stale' = FALSE
    /\ completed_count' = [completed_count EXCEPT ![e] = completed_partitions]
    /\ failed_count' = [failed_count EXCEPT ![e] = failed_partitions]
    /\ last_key' = [last_key EXCEPT ![e] = checkpoint]
    /\ Goto(e, "load")
    /\ UNCHANGED <<completed_partitions, failed_partitions, checkpoint, rowVars,
                   part, attempt, cache, envVars>>

\* load_upstream_dependency_cache(..).ok(): an error is read as "no upstream".
LoadCache(e) ==
    /\ pc[e] = "load"
    /\ Goto(e, "cancelled?")
    /\ \/ cache' = [cache EXCEPT ![e] = HasUpstream] /\ UNCHANGED faults
       \/ /\ faults < MaxFaults /\ faults' = faults + 1
          /\ cache' = [cache EXCEPT ![e] = FALSE]
    /\ UNCHANGED <<jobVars, rowVars, part, attempt, counts, ready, pauses, requeues>>

CheckCancelled(e) ==
    /\ pc[e] = "cancelled?"
    /\ IF state = "cancelled"
         THEN Return(e)
         ELSE Goto(e, "paused?") /\ UNCHANGED <<part, attempt, counts, cache>>
    /\ UNCHANGED <<jobVars, rowVars, envVars>>

CheckPaused(e) ==
    /\ pc[e] = "paused?"
    /\ IF state = "paused"
         THEN Return(e)
         ELSE Goto(e, "heartbeat") /\ UNCHANGED <<part, attempt, counts, cache>>
    /\ UNCHANGED <<jobVars, rowVars, envVars>>

UpdateHeartbeat(e) ==
    /\ pc[e] = "heartbeat"
    /\ stale' = (stale /\ state # "running")
    /\ Goto(e, "claim")
    /\ UNCHANGED <<state, completed_partitions, failed_partitions, checkpoint,
                   rowVars, part, attempt, counts, cache, envVars>>

Pending   == {p \in Partitions : row[p] = "pending"}
\* Mutant: a reclaimed job also takes back the rows left 'running'.
RetryableOrRunning ==
    {p \in Partitions : row[p] \in {"failed", "running"} /\ attempt_count[p] < MaxRetries}

Retryable == {p \in Partitions : row[p] = "failed" /\ attempt_count[p] < MaxRetries}

\* ORDER BY pending first, then partition_key.
NextPartition(p) ==
    IF Pending # {} THEN p \in Pending /\ \A q \in Pending : p <= q
                    ELSE p \in Retryable /\ \A q \in Retryable : p <= q

\* The claim looks at the partition rows only, never at the job's state.
ClaimPartition(e) ==
    /\ pc[e] = "claim"
    /\ \E p \in Partitions :
         /\ NextPartition(p)
         /\ row' = [row EXCEPT ![p] = "running"]
         /\ attempt_count' = [attempt_count EXCEPT ![p] = @ + 1]
         /\ part' = [part EXCEPT ![e] = p]
         /\ attempt' = [attempt EXCEPT ![e] = attempt_count[p] + 1]
    /\ Goto(e, "ready?")
    /\ UNCHANGED <<jobVars, last_completed, counts, cache, envVars>>

NothingToClaim(e) ==
    /\ pc[e] = "claim"
    /\ Pending \cup Retryable = {}
    /\ Goto(e, "finish")
    /\ UNCHANGED <<jobVars, rowVars, part, attempt, counts, cache, envVars>>

\* execute_partition returned Ok: the partition counts as completed.
CountCompleted(e) ==
    /\ completed_count' = [completed_count EXCEPT ![e] = @ + 1]
    /\ last_key' = [last_key EXCEPT ![e] = part[e]]
    /\ UNCHANGED failed_count

\* execute_partition returned Err: it counts as failed once the budget is spent.
\* Mutants: every failed attempt counts; a failure moves the checkpoint too.
CountEveryFailure(e) ==
    /\ failed_count' = [failed_count EXCEPT ![e] = @ + 1]
    /\ UNCHANGED <<completed_count, last_key>>
CountFailedAsLast(e) ==
    /\ failed_count' = [failed_count EXCEPT
                          ![e] = IF attempt[e] >= MaxRetries THEN @ + 1 ELSE @]
    /\ last_key' = [last_key EXCEPT ![e] = part[e]]
    /\ UNCHANGED completed_count

CountFailed(e) ==
    /\ failed_count' = [failed_count EXCEPT
                          ![e] = IF attempt[e] >= MaxRetries THEN @ + 1 ELSE @]
    /\ UNCHANGED <<completed_count, last_key>>

Fault == faults < MaxFaults /\ faults' = faults + 1

\* UPDATE .. WHERE id = .. AND state = 'running': no row affected is an Err.
SetRow(e, to) ==
    row' = IF row[part[e]] = "running" THEN [row EXCEPT ![part[e]] = to] ELSE row

CountResult(e) ==
    IF row[part[e]] = "running" THEN CountCompleted(e) ELSE CountFailed(e)

\* Mutant: the readiness check is skipped on a retry.
UpstreamReadyOrRetry(e) ==
    /\ pc[e] = "ready?"
    /\ cache[e] => part[e] \in ready \/ attempt[e] > 1
    /\ Goto(e, "execute")
    /\ UNCHANGED <<jobVars, rowVars, part, attempt, counts, cache, envVars>>

UpstreamReady(e) ==
    /\ pc[e] = "ready?"
    /\ cache[e] => part[e] \in ready
    /\ Goto(e, "execute")
    /\ UNCHANGED <<jobVars, rowVars, part, attempt, counts, cache, envVars>>

\* Not ready: the row goes back to pending, its attempt is kept, and
\* execute_partition returns Ok.
Requeue(e) ==
    /\ pc[e] = "ready?"
    /\ cache[e] /\ part[e] \notin ready
    /\ requeues < MaxRequeues /\ requeues' = requeues + 1
    /\ SetRow(e, "pending")
    /\ CountResult(e)
    /\ Goto(e, "progress")
    /\ UNCHANGED <<jobVars, attempt_count, last_completed, part, attempt, cache,
                   ready, faults, pauses>>

\* get_asset or the readiness query failed: Err, and the row stays 'running'.
ReadinessError(e) ==
    /\ pc[e] = "ready?"
    /\ Fault
    /\ CountFailed(e)
    /\ Goto(e, "progress")
    /\ UNCHANGED <<jobVars, rowVars, part, attempt, cache, ready, pauses, requeues>>

\* The execution succeeded and complete_backfill_partition committed.
ExecuteSucceeds(e) ==
    /\ pc[e] = "execute"
    /\ SetRow(e, "completed")
    /\ last_completed' = IF row[part[e]] = "running" THEN part[e] ELSE last_completed
    /\ CountResult(e)
    /\ Goto(e, "progress")
    /\ UNCHANGED <<jobVars, attempt_count, part, attempt, cache, envVars>>

\* Mutant: a failed execution is counted but its row is not updated.
ExecuteFailsSilently(e) ==
    /\ pc[e] = "execute"
    /\ CountFailed(e)
    /\ Goto(e, "progress")
    /\ UNCHANGED <<jobVars, rowVars, part, attempt, cache, envVars>>

\* The execution failed, was cancelled or timed out; the row is marked failed.
ExecuteFails(e) ==
    /\ pc[e] = "execute"
    /\ SetRow(e, "failed")
    /\ CountFailed(e)
    /\ Goto(e, "progress")
    /\ UNCHANGED <<jobVars, attempt_count, last_completed, part, attempt, cache,
                   envVars>>

\* The statement that records the outcome failed, or its reply was lost: the
\* row is still 'running' or is already 'completed', and the result is an Err.
RecordError(e) ==
    /\ pc[e] = "execute"
    /\ Fault
    /\ \/ UNCHANGED <<row, last_completed>>
       \/ /\ row[part[e]] = "running"
          /\ SetRow(e, "completed")
          /\ last_completed' = part[e]
    /\ CountFailed(e)
    /\ Goto(e, "progress")
    /\ UNCHANGED <<jobVars, attempt_count, part, attempt, cache, ready, pauses,
                   requeues>>

\* Absolute values, written only WHERE state = 'running'.
UpdateProgress(e) ==
    /\ pc[e] = "progress"
    /\ IF state = "running"
         THEN /\ completed_partitions' = completed_count[e]
              /\ failed_partitions' = failed_count[e]
              /\ checkpoint' = Coalesce(last_key[e], checkpoint)
              /\ stale' = FALSE
         ELSE UNCHANGED <<completed_partitions, failed_partitions, checkpoint, stale>>
    /\ Goto(e, "cancelled?")
    /\ DropPartition(e)
    /\ UNCHANGED <<state, rowVars, counts, cache, envVars>>

\* Mutant: "nothing completed" is a failure.
FinalStateByCompleted(e) ==
    IF completed_count[e] = 0 THEN "failed" ELSE "completed"

FinalState(e) ==
    IF failed_count[e] > 0 /\ completed_count[e] = 0 THEN "failed" ELSE "completed"

\* Mutant: the final UPDATE forgets "AND state = 'running'".
FinishUnguarded(e) ==
    /\ pc[e] = "finish"
    /\ state' = FinalState(e) /\ stale' = FALSE
    /\ Return(e)
    /\ UNCHANGED <<completed_partitions, failed_partitions, checkpoint, rowVars,
                   envVars>>

\* running -> final state; refused when the job is no longer 'running'.
Finish(e) ==
    /\ pc[e] = "finish"
    /\ IF state = "running" THEN state' = FinalState(e) /\ stale' = FALSE
                            ELSE UNCHANGED <<state, stale>>
    /\ Return(e)
    /\ UNCHANGED <<completed_partitions, failed_partitions, checkpoint, rowVars,
                   envVars>>

\* The process dies and is restarted, or a storage call outside
\* execute_partition returns Err, which ends process_job.
Abandon(e) ==
    /\ pc[e] # "idle"
    /\ Fault
    /\ Return(e)
    /\ UNCHANGED <<jobVars, rowVars, ready, pauses, requeues>>

\* Polling an empty table.
PollNothing ==
    /\ state \in Terminal
    /\ \A e \in Executors : pc[e] = "idle"
    /\ UNCHANGED vars

-----------------------------------------------------------------------------
ExecutorStep(e) ==
    \/ ClaimJob(e) \/ LoadCache(e) \/ CheckCancelled(e) \/ CheckPaused(e)
    \/ UpdateHeartbeat(e) \/ ClaimPartition(e) \/ NothingToClaim(e)
    \/ UpstreamReady(e) \/ Requeue(e) \/ ExecuteSucceeds(e) \/ ExecuteFails(e)
    \/ UpdateProgress(e) \/ Finish(e)

Next ==
    \/ \E p \in Partitions : CreatePartition(p) \/ UpstreamCompletes(p)
    \/ Pause \/ Resume \/ Cancel \/ HeartbeatExpires
    \/ \E e \in Executors : \/ ExecutorStep(e)
                            \/ ReadinessError(e) \/ RecordError(e) \/ Abandon(e)
    \/ PollNothing

Spec == Init /\ [][Next]_vars

(***************************************************************************)
(* Executors poll forever and every await of theirs is bounded (database   *)
(* timeouts, wait_for_execution's timeout), so each takes its next step;   *)
(* time passes; upstream backfills end.                                    *)
(***************************************************************************)
Fairness ==
    /\ \A e \in Executors : WF_vars(ExecutorStep(e))
    /\ WF_vars(HeartbeatExpires)
    /\ \A p \in Partitions : WF_vars(UpstreamCompletes(p))

FairSpec == Spec /\ Fairness

-----------------------------------------------------------------------------
(* Properties.                                                              *)

\* The partition an executor is working on: claimed, outcome not yet recorded.
Holding(e) == pc[e] \in {"ready?", "execute"}

(* Type invariant of the job row, the partition rows and the locals that    *)
(* process_job keeps across its storage calls.                              *)
TypeOK ==
    /\ state \in {"pending", "running", "paused", "resuming"} \cup Terminal
    /\ stale \in BOOLEAN
    /\ completed_partitions \in Nat /\ failed_partitions \in Nat
    /\ checkpoint \in Partitions \cup {NoKey}
    /\ row \in [Partitions -> RowStates]
    /\ attempt_count \in [Partitions -> Nat]
    /\ last_completed \in Partitions \cup {NoKey}
    /\ pc \in [Executors -> Labels]
    /\ part \in [Executors -> Partitions \cup {NoKey}]
    /\ attempt \in [Executors -> Nat]
    /\ completed_count \in [Executors -> Nat]
    /\ failed_count \in [Executors -> Nat]
    /\ last_key \in [Executors -> Partitions \cup {NoKey}]
    /\ cache \in [Executors -> BOOLEAN]
    /\ ready \subseteq Partitions
    /\ faults \in Nat /\ pauses \in Nat /\ requeues \in Nat

(* No partition is ever worked on by two executors, although a live         *)
(* executor's job can be claimed again: claim_pending_partition takes rows  *)
(* that are not 'running' and nothing but the holder's own outcome takes a  *)
(* row out of 'running'.  So complete/fail/requeue never miss their row.    *)
PartitionExclusive ==
    \A e \in Executors : Holding(e) =>
        /\ row[part[e]] = "running"
        /\ attempt[e] = attempt_count[part[e]]
        /\ \A f \in Executors \ {e} : Holding(f) => part[f] # part[e]

(* total - completed - failed, which process_job casts to u32 for the ETA,  *)
(* is never negative: whatever the interleaving of executors, pauses and    *)
(* reclaims, no partition is counted twice.                                 *)
RemainingNeverNegative ==
    /\ completed_partitions + failed_partitions <= N
    /\ \A e \in Executors : completed_count[e] + failed_count[e] <= N

(* checkpoint_partition_key names a partition that was really completed     *)
(* ("Last successfully processed partition key (for resumption)").          *)
CheckpointCompleted == checkpoint # NoKey => row[checkpoint] = "completed"

(* A job ends as 'failed' only after some partition used up its attempts.   *)
FailedJobHasExhaustedPartition ==
    state = "failed" => \E p \in Partitions : attempt_count[p] >= MaxRetries

(* As long as no storage call fails, a partition is executed only once its  *)
(* upstream partitions are completed, as check_upstream_ready promises:     *)
(* also when it was requeued, claimed by another and claimed back.          *)
ExecutesOnlyWhenReady ==
    faults = 0 => \A e \in Executors : pc[e] = "execute" => part[e] \in ready

(* A completed partition is never taken back, retried or skipped, by        *)
(* another executor's claim, by a reclaim or by cancelling the job.         *)
CompletedRowsStay ==
    [][\A p \in Partitions : row[p] = "completed" => row'[p] = "completed"]_vars

(* Every writer of backfill_jobs.state keeps to the transition table, the   *)
(* ones that do not go through validate_backfill_state_transition included. *)
Lifecycle == INSTANCE BackfillLifecycle
ObeysLifecycle == Lifecycle!Spec

(* A job is never left behind: whatever crashes (finitely often), it ends   *)
(* or sits in 'paused' for the operator.                                    *)
JobSettles == []<>(state \in Terminal \cup {"paused"})

(* As long as no storage call fails and no executor dies, a claimed         *)
(* partition is let go again: every path out of execute_partition, the      *)
(* requeue for a missing upstream included, writes the row's next state.    *)
ClaimedPartitionReleased ==
    \A p \in Partitions : row[p] = "running" ~> row[p] # "running" \/ faults > 0
=============================================================================

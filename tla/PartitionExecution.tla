------------------------- MODULE PartitionExecution -------------------------
(***************************************************************************)
(* One partition of a backfill from its claim to its outcome, each attempt *)
(* an execution of its own: the executors that claim it, start and await   *)
(* an execution (execute_partition, execute_asset_partition,               *)
(* wait_for_execution), the workers that run what is enqueued, and the     *)
(* operator, who cancels executions, and runs the same workflow by hand    *)
(* and waits for it (run.rs, polling.rs).                                  *)
(*                                                                         *)
(* An execution is named by the attempt in its idempotency key; that of    *)
(* the operator is ByHand.  An execution's row moves in single steps here; *)
(* the races on the row are those of ExecutionLifecycle.  A partition that *)
(* is requeued because its upstreams are not ready (BackfillJob) has not   *)
(* come this far.                                                          *)
(***************************************************************************)
EXTENDS Naturals, FiniteSets

CONSTANTS Executors,
          MaxRetries,    \* max_partition_retries
          PageSize,      \* the 100 of list_workflows
          MaxWorkflows,  \* bound: workflows created while the backfill runs
          MaxFaults      \* bound: calls and processes that fail, cancels

VARIABLES state, attempt_count, execution_id,  \* the row of the partition
          pc, attempt, outcome,                \* the locals of each executor
          execution,                           \* executions -> state of the row
          tasks,                               \* executions that have a task
          operator,                            \* what servo run does or reports
          newer,                               \* workflows made after this one
          delivered, givenUp,                  \* history: work that ended well;
                                               \* attempts not awaited to the end
          faults

vars == <<state, attempt_count, execution_id, pc, attempt, outcome, execution,
          tasks, operator, newer, delivered, givenUp, faults>>

partitionVars == <<state, attempt_count, execution_id>>
executorVars == <<pc, attempt, outcome>>

ByHand == 0
Executions == 0 .. MaxRetries

Final == {"succeeded", "failed", "cancelled", "timeout"}

Init ==
    /\ state = "pending" /\ attempt_count = 0 /\ execution_id = {}
    /\ pc = [e \in Executors |-> "claim"]
    /\ attempt = [e \in Executors |-> 0]
    /\ outcome = [e \in Executors |-> "none"]
    /\ execution = [x \in Executions |-> "absent"]
    /\ tasks = {}
    /\ operator = "idle"
    /\ newer = 0
    /\ delivered = {} /\ givenUp = {}
    /\ faults = 0

Fault == faults < MaxFaults /\ faults' = faults + 1

Goto(e, label) == pc' = [pc EXCEPT ![e] = label]
EndsAs(e, o) == outcome' = [outcome EXCEPT ![e] = o] /\ Goto(e, "record")
SetExecution(x, s) == execution' = [execution EXCEPT ![x] = s]

-----------------------------------------------------------------------------
(* The executor.                                                            *)

Claim(e) ==
    /\ pc[e] = "claim"
    /\ state = "pending" \/ (state = "failed" /\ attempt_count < MaxRetries)
    /\ state' = "running"
    /\ attempt_count' = attempt_count + 1
    /\ attempt' = [attempt EXCEPT ![e] = attempt_count + 1]
    /\ Goto(e, "lookup")
    /\ UNCHANGED <<execution_id, outcome, execution, tasks, operator, newer,
                   delivered, givenUp, faults>>

(***************************************************************************)
(* get_asset, then the workflow of its name among the newest 100.          *)
(***************************************************************************)
FindWorkflow(e) ==
    /\ pc[e] = "lookup"
    /\ \/ /\ IF newer < PageSize THEN Goto(e, "start") /\ UNCHANGED outcome
                                 ELSE EndsAs(e, "error")
          /\ UNCHANGED faults
       \/ EndsAs(e, "error") /\ Fault
    /\ UNCHANGED <<partitionVars, attempt, execution, tasks, operator, newer,
                   delivered, givenUp>>

\* "backfill:{job}:{partition}:{attempt_count}"
IdempotencyKey(e) == attempt[e]

(***************************************************************************)
(* start_execution_with_partition: the row, if the key has none, ...       *)
(***************************************************************************)
StartExecution(e) ==
    LET x == IdempotencyKey(e)
    IN  /\ pc[e] = "start"
        /\ IF execution[x] = "absent"
           THEN SetExecution(x, "pending") /\ Goto(e, "enqueue")
           ELSE Goto(e, "poll") /\ UNCHANGED execution
        /\ UNCHANGED <<partitionVars, attempt, outcome, tasks, operator, newer,
                       delivered, givenUp, faults>>

\* ... and its task.  An error may hide a task that was made all the same.
Enqueue(e) ==
    /\ pc[e] = "enqueue"
    /\ \/ /\ tasks' = tasks \cup {IdempotencyKey(e)}
          /\ Goto(e, "poll")
          /\ UNCHANGED <<outcome, givenUp, faults>>
       \/ /\ Fault
          /\ tasks' \in {tasks, tasks \cup {IdempotencyKey(e)}}
          /\ givenUp' = givenUp \cup {attempt[e]}
          /\ EndsAs(e, "error")
    /\ UNCHANGED <<partitionVars, attempt, execution, operator, newer, delivered>>

\* Mutant: whatever is not a success by now is a failure.
PollOnce(e) ==
    LET s == execution[IdempotencyKey(e)]
    IN  /\ pc[e] = "poll"
        /\ EndsAs(e, IF s = "succeeded" THEN "ok" ELSE "error")
        /\ UNCHANGED <<partitionVars, attempt, execution, tasks, operator, newer,
                       delivered, givenUp, faults>>

(***************************************************************************)
(* wait_for_execution: a state it does not name, "timeout" among them, is  *)
(* polled again.                                                           *)
(***************************************************************************)
Poll(e) ==
    LET s == execution[IdempotencyKey(e)]
    IN  /\ pc[e] = "poll"
        /\ s \in {"succeeded", "failed", "cancelled"}
        /\ EndsAs(e, IF s = "succeeded" THEN "ok" ELSE "error")
        /\ UNCHANGED <<partitionVars, attempt, execution, tasks, operator, newer,
                       delivered, givenUp, faults>>

\* Mutant: the timeout is looked at only while the execution runs.
WaitTimesOutRunning(e) ==
    /\ pc[e] = "poll" /\ execution[IdempotencyKey(e)] = "running"
    /\ givenUp' = givenUp \cup {attempt[e]}
    /\ EndsAs(e, "error")
    /\ UNCHANGED <<partitionVars, attempt, execution, tasks, operator, newer,
                   delivered, faults>>

\* partition_timeout is over, or get_execution fails.
WaitEnds(e) ==
    /\ pc[e] = "poll"
    /\ givenUp' = givenUp \cup {attempt[e]}
    /\ EndsAs(e, "error")
    /\ UNCHANGED <<partitionVars, attempt, execution, tasks, operator, newer,
                   delivered, faults>>

(***************************************************************************)
(* complete_backfill_partition or fail_backfill_partition: only a running  *)
(* row; if the update fails the row stays running.                         *)
(***************************************************************************)
Record(e) ==
    /\ pc[e] = "record"
    /\ \/ /\ IF outcome[e] = "ok"
             THEN state' = "completed" /\ execution_id' = {IdempotencyKey(e)}
             ELSE state' = "failed" /\ UNCHANGED execution_id
          /\ state = "running"
          /\ UNCHANGED faults
       \/ Fault /\ UNCHANGED <<state, execution_id>>
    /\ Goto(e, "claim")
    /\ attempt' = [attempt EXCEPT ![e] = 0]
    /\ outcome' = [outcome EXCEPT ![e] = "none"]
    /\ UNCHANGED <<attempt_count, execution, tasks, operator, newer, delivered,
                   givenUp>>

-----------------------------------------------------------------------------
(* The worker, and who else touches the executions.                         *)

Run(x) ==
    /\ x \in tasks /\ execution[x] = "pending"
    /\ SetExecution(x, "running")
    /\ UNCHANGED <<partitionVars, executorVars, tasks, operator, newer, delivered,
                   givenUp, faults>>

FinishRun(x) ==
    /\ execution[x] = "running"
    /\ \E s \in {"succeeded", "failed", "timeout"} :
          /\ SetExecution(x, s)
          /\ delivered' = IF s = "succeeded" THEN delivered \cup {x} ELSE delivered
    /\ UNCHANGED <<partitionVars, executorVars, tasks, operator, newer, givenUp,
                   faults>>

CancelExecution(x) ==
    /\ execution[x] \in {"pending", "running", "timeout"} /\ Fault
    /\ SetExecution(x, "cancelled")
    /\ UNCHANGED <<partitionVars, executorVars, tasks, operator, newer, delivered,
                   givenUp>>

\* servo run, with --wait or without: no enqueuer is configured, so the
\* execution has no task.
RunByHand ==
    /\ operator = "idle"
    /\ SetExecution(ByHand, "pending")
    /\ operator' \in {"polling", "started"}
    /\ UNCHANGED <<partitionVars, executorVars, tasks, newer, delivered, givenUp,
                   faults>>

\* poll_execution_status, whose terminal states include "timeout".
PollStatus ==
    /\ operator = "polling"
    /\ execution[ByHand] \in Final
    /\ operator' = execution[ByHand]
    /\ UNCHANGED <<partitionVars, executorVars, execution, tasks, newer, delivered,
                   givenUp, faults>>

\* The timeout of --wait, or get_execution fails.
StopPolling ==
    /\ operator = "polling"
    /\ operator' = "gave up"
    /\ UNCHANGED <<partitionVars, executorVars, execution, tasks, newer, delivered,
                   givenUp, faults>>

CreateWorkflow ==
    /\ newer < MaxWorkflows
    /\ newer' = newer + 1
    /\ UNCHANGED <<partitionVars, executorVars, execution, tasks, operator,
                   delivered, givenUp, faults>>

-----------------------------------------------------------------------------
Attempt(e) ==
    Claim(e) \/ FindWorkflow(e) \/ StartExecution(e) \/ Enqueue(e) \/ Poll(e)
      \/ Record(e)

Next ==
    \/ \E e \in Executors : Attempt(e) \/ WaitEnds(e)
    \/ \E x \in Executions : Run(x) \/ FinishRun(x) \/ CancelExecution(x)
    \/ RunByHand \/ PollStatus \/ StopPolling \/ CreateWorkflow

Spec == Init /\ [][Next]_vars

(***************************************************************************)
(* An executor goes on and its timer fires; of the worker and of Cloud     *)
(* Tasks nothing is assumed.                                               *)
(***************************************************************************)
Fairness == \A e \in Executors : WF_vars(Attempt(e)) /\ WF_vars(WaitEnds(e))

FairSpec == Spec /\ Fairness

-----------------------------------------------------------------------------
\* An execution that may still do work.
Live(x) == execution[x] = "running" \/ (execution[x] = "pending" /\ x \in tasks)

(***************************************************************************)
(* A completed partition names the execution of its last attempt, and that *)
(* one's work ended well.  Two attempts at a partition work at once only   *)
(* if the earlier was given up, its wait over or its enqueueing unclear,   *)
(* never because an outcome was misread.  And what servo run reports of an *)
(* execution it has awaited stays true.                                    *)
(***************************************************************************)
AttemptsSound ==
    /\ state = "completed" => execution_id = {attempt_count} /\ execution_id \subseteq delivered
    /\ \A x, y \in 1 .. MaxRetries :
          x < y /\ Live(x) /\ execution[y] # "absent" => x \in givenUp
    /\ operator \in Final => execution[ByHand] = operator

(***************************************************************************)
(* A claimed partition does not stay running: it is completed, or has used *)
(* up its attempts, though workers die, executions end as 'timeout' or are *)
(* cancelled, unless the update of its row itself fails.                   *)
(***************************************************************************)
PartitionSettles ==
    attempt_count > 0
        ~> \/ state = "completed"
           \/ state = "failed" /\ attempt_count = MaxRetries
           \/ faults > 0
=============================================================================

------------------------- MODULE ExecutionLifecycle -------------------------
(***************************************************************************)
(* One workflow execution, named by its idempotency key: clients that call *)
(* start_execution and retry it, the Cloud Tasks queue that delivers the   *)
(* task at least once, and the background tasks of the workers, each of    *)
(* which reads the row and later writes the whole row back.                *)
(*                                                                         *)
(* The assets and checks of the workflow are the single step Work.  An     *)
(* operator may cancel the execution through the Executor interface.       *)
(***************************************************************************)
EXTENDS Integers, FiniteSets

CONSTANTS
    Clients,        \* callers that share the idempotency key
    Workers,        \* concurrent background tasks of the worker service
    MaxRetries,     \* MAX_RETRIES of call_cloud_tasks_api (3 in the code)
    MaxDeliveries,  \* bound: deliveries by Cloud Tasks
    MaxCancels,     \* bound: calls of cancel
    MaxFaults       \* bound: failed API calls, crashes and storage errors

ASSUME ExecutionAssumption ==
    /\ MaxRetries \in Nat \ {0}
    /\ MaxDeliveries \in Nat /\ MaxCancels \in Nat /\ MaxFaults \in Nat

VARIABLES
    row,                 \* the executions row
    tasks, deliveries,   \* Cloud Tasks: tasks created, deliveries made
    accepted,            \* some client was answered Ok
    client, attempt,     \* per client
    pc, current, result, \* per worker: current is the row it has read
    cancelling, toCancel, cancels, \* the operator, and the row it has read
    faults

clientVars == <<client, attempt>>
workerVars == <<pc, current, result>>
queueVars == <<tasks, deliveries>>
operatorVars == <<cancelling, toCancel, cancels>>
vars == <<row, queueVars, accepted, clientVars, workerVars, operatorVars, faults>>

Row == [state : {"absent", "pending", "running", "succeeded", "failed",
                 "cancelled", "timeout"},
        started : BOOLEAN, completed : BOOLEAN, error : BOOLEAN]

Blank(state) ==
    [state |-> state, started |-> FALSE, completed |-> FALSE, error |-> FALSE]

Ended == {"succeeded", "failed", "cancelled", "timeout"}

Results == {"ok", "error", "timeout"}

Init ==
    /\ row = Blank("absent")
    /\ tasks = 0 /\ deliveries = 0
    /\ accepted = FALSE
    /\ client = [c \in Clients |-> "idle"]
    /\ attempt = [c \in Clients |-> 1]
    /\ pc = [w \in Workers |-> "idle"]
    /\ current = [w \in Workers |-> Blank("absent")]
    /\ result = [w \in Workers |-> "ok"]
    /\ cancelling = FALSE /\ toCancel = Blank("absent") /\ cancels = 0
    /\ faults = 0

Fault == faults < MaxFaults /\ faults' = faults + 1

-----------------------------------------------------------------------------
(* start_execution.                                                         *)

\* Mutant: whoever finds the row still pending enqueues it as well.
StartOrEnqueueAgain(c) ==
    /\ client[c] = "idle" /\ row.state \in {"absent", "pending"}
    /\ row' = Blank("pending")
    /\ client' = [client EXCEPT ![c] = "enqueue"]
    /\ UNCHANGED <<queueVars, accepted, attempt, workerVars, operatorVars, faults>>

\* INSERT .. ON CONFLICT DO NOTHING: this caller created the row.
StartCreates(c) ==
    /\ client[c] = "idle" /\ row.state = "absent"
    /\ row' = Blank("pending")
    /\ client' = [client EXCEPT ![c] = "enqueue"]
    /\ UNCHANGED <<queueVars, accepted, attempt, workerVars, operatorVars, faults>>

\* "Returning existing execution": Ok, whatever became of its task.
StartFindsExisting(c) ==
    /\ client[c] = "idle" /\ row.state # "absent"
    /\ accepted' = TRUE
    /\ UNCHANGED <<row, queueVars, clientVars, workerVars, operatorVars, faults>>

Answer(c) ==
    /\ client' = [client EXCEPT ![c] = "idle"]
    /\ attempt' = [attempt EXCEPT ![c] = 1]

\* Mutant: no task enqueuer is configured.
SkipTask(c) ==
    /\ client[c] = "enqueue"
    /\ accepted' = TRUE
    /\ Answer(c)
    /\ UNCHANGED <<row, queueVars, workerVars, operatorVars, faults>>

\* A 2xx answer of the Cloud Tasks API.
CreateTask(c) ==
    /\ client[c] = "enqueue"
    /\ tasks' = tasks + 1
    /\ accepted' = TRUE
    /\ Answer(c)
    /\ UNCHANGED <<row, deliveries, workerVars, operatorVars, faults>>

TriesLeft(c) == attempt[c] < MaxRetries

\* 429 and 5xx are tried again; other errors, and a crash, end the call with
\* Err.  The task has no name, so the API may have created it all the same.
CreateTaskFails(c, retryable, created) ==
    /\ client[c] = "enqueue"
    /\ Fault
    /\ tasks' = tasks + (IF created THEN 1 ELSE 0)
    /\ IF retryable /\ TriesLeft(c)
         THEN attempt' = [attempt EXCEPT ![c] = @ + 1] /\ UNCHANGED client
         ELSE Answer(c)
    /\ UNCHANGED <<row, deliveries, accepted, workerVars, operatorVars>>

-----------------------------------------------------------------------------
(* Delivery and WorkflowExecutor::execute.                                  *)

\* execute_handler spawns the execution and answers 200 at once.
Deliver(w) ==
    /\ tasks > 0 /\ deliveries < MaxDeliveries
    /\ pc[w] = "idle"
    /\ deliveries' = deliveries + 1
    /\ pc' = [pc EXCEPT ![w] = "read"]
    /\ UNCHANGED <<row, tasks, accepted, clientVars, current, result, operatorVars,
                   faults>>

Forget(w) ==
    /\ pc' = [pc EXCEPT ![w] = "idle"]
    /\ current' = [current EXCEPT ![w] = Blank("absent")]
    /\ result' = [result EXCEPT ![w] = "ok"]

\* transition_state(Pending, Running): get_execution and the checks on it.
ReadPending(w) ==
    /\ pc[w] = "read"
    /\ IF row.state = "pending"
         THEN /\ pc' = [pc EXCEPT ![w] = "start"]
              /\ current' = [current EXCEPT ![w] = row]
              /\ UNCHANGED result
         ELSE Forget(w)
    /\ UNCHANGED <<row, queueVars, accepted, clientVars, operatorVars, faults>>

\* Mutant: an UPDATE of the state and started_at columns only.
StartColumns(w) ==
    /\ pc[w] = "start"
    /\ row' = [row EXCEPT !.state = "running", !.started = TRUE]
    /\ pc' = [pc EXCEPT ![w] = "work"]
    /\ UNCHANGED <<queueVars, accepted, clientVars, current, result, operatorVars,
                   faults>>

\* update_execution: every column, with no condition on the state.
Start(w) ==
    /\ pc[w] = "start"
    /\ row' = [current[w] EXCEPT !.state = "running", !.started = TRUE]
    /\ pc' = [pc EXCEPT ![w] = "work"]
    /\ UNCHANGED <<queueVars, accepted, clientVars, current, result, operatorVars,
                   faults>>

\* execute_workflow against the timer.
Work(w, r) ==
    /\ pc[w] = "work"
    /\ result' = [result EXCEPT ![w] = r]
    /\ pc' = [pc EXCEPT ![w] = "record"]
    /\ UNCHANGED <<row, queueVars, accepted, clientVars, current, operatorVars, faults>>

\* Mutant: failures are recorded whatever the state.
MayRecordAnything(r) == r = "error" \/ row.state = "running"

\* transition_state(Running, _) and record_failure accept the same state.
MayRecord(r) == row.state = "running"

ReadRunning(w) ==
    /\ pc[w] = "record"
    /\ IF MayRecord(result[w])
         THEN /\ pc' = [pc EXCEPT ![w] = "finish"]
              /\ current' = [current EXCEPT ![w] = row]
              /\ UNCHANGED result
         ELSE Forget(w)
    /\ UNCHANGED <<row, queueVars, accepted, clientVars, operatorVars, faults>>

FinalState(r) ==
    CASE r = "ok" -> "succeeded" [] r = "timeout" -> "timeout" [] r = "error" -> "failed"

\* After a timeout record_failure is called as well, on the row just ended.
Finish(w) ==
    /\ pc[w] = "finish"
    /\ row' = [current[w] EXCEPT !.state = FinalState(result[w]), !.completed = TRUE,
                                 !.error = @ \/ result[w] = "error"]
    /\ IF result[w] = "timeout"
         THEN /\ pc' = [pc EXCEPT ![w] = "record"]
              /\ result' = [result EXCEPT ![w] = "error"]
              /\ UNCHANGED current
         ELSE Forget(w)
    /\ UNCHANGED <<queueVars, accepted, clientVars, operatorVars, faults>>

\* A crash after the 200, or a storage error: nothing is left of the task.
Abandon(w) ==
    /\ pc[w] # "idle"
    /\ Fault
    /\ Forget(w)
    /\ UNCHANGED <<row, queueVars, accepted, clientVars, operatorVars>>

-----------------------------------------------------------------------------
(* Executor::cancel.                                                        *)

\* 'timeout' is not among the states it takes for final.
ReadToCancel ==
    /\ ~cancelling /\ cancels < MaxCancels
    /\ row.state \notin {"absent", "succeeded", "failed", "cancelled"}
    /\ cancelling' = TRUE /\ toCancel' = row /\ cancels' = cancels + 1
    /\ UNCHANGED <<row, queueVars, accepted, clientVars, workerVars, faults>>

WriteCancelled ==
    /\ cancelling
    /\ row' = [toCancel EXCEPT !.state = "cancelled", !.completed = TRUE]
    /\ cancelling' = FALSE /\ toCancel' = Blank("absent")
    /\ UNCHANGED <<queueVars, accepted, clientVars, workerVars, cancels, faults>>

-----------------------------------------------------------------------------
ClientStep(c) == StartCreates(c) \/ StartFindsExisting(c) \/ CreateTask(c)

WorkerStep(w) ==
    \/ ReadPending(w) \/ Start(w) \/ ReadRunning(w) \/ Finish(w)
    \/ \E r \in Results : Work(w, r)

Next ==
    \/ \E c \in Clients :
         \/ ClientStep(c)
         \/ \E retryable, created \in BOOLEAN : CreateTaskFails(c, retryable, created)
    \/ \E w \in Workers : Deliver(w) \/ WorkerStep(w) \/ Abandon(w)
    \/ ReadToCancel \/ WriteCancelled

Spec == Init /\ [][Next]_vars

\* The queue delivers every task at least once; a duplicate is not owed.
FirstDelivery == deliveries = 0 /\ \E w \in Workers : Deliver(w)

Fairness ==
    /\ WF_vars(FirstDelivery)
    /\ \A c \in Clients : WF_vars(CreateTask(c))
    /\ \A w \in Workers : WF_vars(WorkerStep(w))

FairSpec == Spec /\ Fairness

-----------------------------------------------------------------------------
(* Properties.                                                              *)

(* Type invariant of the row, the queue and the locals.                     *)
TypeOK ==
    /\ row \in Row
    /\ tasks \in Nat /\ deliveries \in 0 .. MaxDeliveries
    /\ accepted \in BOOLEAN
    /\ client \in [Clients -> {"idle", "enqueue"}]
    /\ attempt \in [Clients -> 1 .. MaxRetries]
    /\ pc \in [Workers -> {"idle", "read", "start", "work", "record", "finish"}]
    /\ current \in [Workers -> Row]
    /\ result \in [Workers -> Results]
    /\ cancelling \in BOOLEAN /\ toCancel \in Row /\ cancels \in 0 .. MaxCancels
    /\ faults \in 0 .. MaxFaults

Coherent(r) ==
    /\ r.started => r.state \notin {"absent", "pending"}
    /\ r.state \in {"running", "succeeded", "failed", "timeout"} => r.started
    /\ r.completed <=> r.state \in Ended
    /\ r.error <=> r.state = "failed"

(* However many workers and operators write back rows read long ago, state, *)
(* started_at, completed_at and error_message never come from different     *)
(* writers: update_execution writes them together.                          *)
RowCoherent == Coherent(row)

(* Racing and retrying callers of one key create one task, and at most one  *)
(* more for each API call whose outcome was lost.                           *)
OneTaskPerExecution == tasks <= 1 + faults

(* As long as the queue delivers once and nobody cancels, every write of    *)
(* the row is a legal transition, the second one after a timeout included.  *)
States == INSTANCE ExecutionStates WITH state <- row.state
SingleDeliveryIsLegal ==
    [][(deliveries' <= 1 /\ cancels = 0 /\ row.state # "absent")
          => (States!Next \/ UNCHANGED row)]_vars

(* Without faults an accepted execution ends and stays so, even when it is  *)
(* delivered again, or cancelled, while or after it runs.                   *)
Settles == <>[]((accepted /\ faults = 0) => row.state \in Ended)

(* "Clients safely retry": once no call is under way, an execution that     *)
(* some caller was told Ok for has a task that will run it.                 *)
AcceptedHasTask ==
    accepted /\ (\A c \in Clients : client[c] = "idle") => tasks > 0

(* An execution that has ended is not written again.                        *)
EndedStays == [][row.state \in Ended => UNCHANGED row]_vars
=============================================================================

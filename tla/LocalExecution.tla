--------------------------- MODULE LocalExecution ---------------------------
(***************************************************************************)
(* The local executor (local_executor.rs): callers, each with an executor  *)
(* of its own, run one workflow, some of them under the same idempotency   *)
(* key.  Each asset is a python process whose two pipes the executor reads *)
(* one after the other under one timeout.  An operator may cancel through  *)
(* any of the executors; a caller's process may be killed.                 *)
(*                                                                         *)
(* An execution is named by the caller that created it.  What python       *)
(* prints is abstracted to whether it fills a pipe.                        *)
(***************************************************************************)
EXTENDS Naturals, FiniteSets

CONSTANTS Callers,
          Keyed,          \* the callers that use the idempotency key
          NumAssets,      \* get_workflow_assets: how many, in order
          MaxCancels      \* bound on cancel calls

VARIABLES row,            \* executions: creator -> state, partial
          pc, position,   \* where each call is, and at which asset
          child,          \* the python process of each call
          result,         \* how the run of each call ended
          reply,         \* what each call returned: <<execution, success>>
          flags,          \* cancelled: <<executor, execution>> pairs
          canceller,      \* the cancel call under way
          cancels,
          completed,      \* history: assets of each execution that ended well
          late            \* history: assets started after the flag was set

vars == <<row, pc, position, child, result, reply, flags, canceller, cancels,
          completed, late>>

Idle == <<"idle">>
NoAnswer == <<>>
Reading == {"stdout", "stderr"}
Ended == {"idle", "returned", "killed"}
Final == {"succeeded", "failed", "cancelled"}

Init ==
    /\ row = <<>>
    /\ pc = [c \in Callers |-> "idle"]
    /\ position = [c \in Callers |-> 0]
    /\ child = [c \in Callers |-> "none"]
    /\ result = [c \in Callers |-> "none"]
    /\ reply = [c \in Callers |-> NoAnswer]
    /\ flags = {}
    /\ canceller = Idle
    /\ cancels = 0
    /\ completed = [c \in Callers |-> 0]
    /\ late = [c \in Callers |-> 0]

Goto(c, place) == pc' = [pc EXCEPT ![c] = place]
SetState(c, s) ==
    row' = [d \in DOMAIN row \cup {c} |-> IF d = c THEN s ELSE row[d]]
Return(c, x, success) ==
    Goto(c, "returned") /\ reply' = [reply EXCEPT ![c] = <<x, success>>]
EndsAs(c, r) == result' = [result EXCEPT ![c] = r] /\ Goto(c, "record")

cancelVars == <<flags, canceller, cancels>>

-----------------------------------------------------------------------------
\* Mutant: only an execution that is already running counts as existing.
ExistingStarted(c) ==
    {d \in DOMAIN row : c \in Keyed /\ d \in Keyed /\ row[d] # "pending"}

\* The execution the unique index on the key finds.
Existing(c) == {d \in DOMAIN row : c \in Keyed /\ d \in Keyed}

(***************************************************************************)
(* create_execution_or_get_existing: one transaction.                      *)
(***************************************************************************)
Create(c) ==
    /\ pc[c] = "idle"
    /\ IF Existing(c) = {}
       THEN SetState(c, "pending") /\ Goto(c, "mark")
       ELSE Goto(c, "get") /\ UNCHANGED row
    /\ UNCHANGED <<position, child, result, reply, completed, late>>

\* The existing execution is the reply, successful only if it has succeeded.
GetExisting(c) ==
    /\ pc[c] = "get"
    /\ \E x \in Existing(c) : Return(c, x, row[x] = "succeeded")
    /\ UNCHANGED <<row, position, child, result, completed, late>>

\* update_execution_state(RUNNING), whatever the state is.
MarkRunning(c) ==
    /\ pc[c] = "mark"
    /\ SetState(c, "running")
    /\ Goto(c, "load")
    /\ UNCHANGED <<position, child, result, reply, completed, late>>

\* get_workflow_assets: the positions of the assets, in order.
GetWorkflowAssets == 1 .. NumAssets

CancelSeen(c) == <<c, c>> \in flags

(***************************************************************************)
(* run_workflow_locally up to its loop: the flag, then the workflow and    *)
(* its assets, either of which may fail to load; no asset is a success.    *)
(***************************************************************************)
Load(c) ==
    /\ pc[c] = "load"
    /\ IF CancelSeen(c) THEN EndsAs(c, "error") /\ UNCHANGED position
       ELSE \/ EndsAs(c, "error") /\ UNCHANGED position
            \/ /\ GetWorkflowAssets = {}
               /\ EndsAs(c, "ok") /\ UNCHANGED position
            \/ /\ GetWorkflowAssets # {}
               /\ position' = [position EXCEPT ![c] = 1]
               /\ Goto(c, "check") /\ UNCHANGED result
    /\ UNCHANGED <<row, child, reply, completed, late>>

\* Mutant: the flag is looked at only once, before the first asset.
CheckNothing(c) ==
    /\ pc[c] = "check"
    /\ Goto(c, "spawn")
    /\ UNCHANGED <<row, position, child, result, reply, completed, late>>

\* The check between assets.
CheckCancelled(c) ==
    /\ pc[c] = "check"
    /\ IF CancelSeen(c) THEN EndsAs(c, "error")
                        ELSE Goto(c, "spawn") /\ UNCHANGED result
    /\ UNCHANGED <<row, position, child, reply, completed, late>>

(***************************************************************************)
(* execute_asset_python_inner: an asset without a function, with a name    *)
(* that is no identifier, or that cannot be spawned is an error.           *)
(***************************************************************************)
Spawn(c) ==
    /\ pc[c] = "spawn"
    /\ \/ EndsAs(c, "error") /\ UNCHANGED <<child, late>>
       \/ /\ child' = [child EXCEPT ![c] = "runs"]
          /\ Goto(c, "stdout")
          /\ late' = [late EXCEPT ![c] = IF CancelSeen(c) THEN @ + 1 ELSE @]
          /\ UNCHANGED result
    /\ UNCHANGED <<row, position, reply, completed>>

\* The stdout of the process is at its limit: the executor turns to stderr.
StdoutFull(c) ==
    /\ pc[c] = "stdout" /\ child[c] = "runs"
    /\ Goto(c, "stderr")
    /\ UNCHANGED <<row, position, child, result, reply, completed, late>>

(***************************************************************************)
(* Both pipes are at their end and the process is waited for.              *)
(***************************************************************************)
Collect(c) ==
    /\ pc[c] \in Reading
    /\ child[c] \in {"exited", "failed"}
    /\ child' = [child EXCEPT ![c] = "none"]
    /\ IF child[c] = "failed"
       THEN EndsAs(c, "error") /\ UNCHANGED <<position, completed>>
       ELSE /\ completed' = [completed EXCEPT ![c] = @ + 1]
            /\ IF position[c] + 1 \notin GetWorkflowAssets
               THEN EndsAs(c, "ok") /\ UNCHANGED position
               ELSE /\ position' = [position EXCEPT ![c] = @ + 1]
                    /\ Goto(c, "check") /\ UNCHANGED result
    /\ UNCHANGED <<row, reply, late>>

\* Mutant: the timeout is only around the wait, not around the reading.
WaitTimesOut(c) ==
    /\ pc[c] \in Reading /\ child[c] \in {"exited", "failed"}
    /\ child' = [child EXCEPT ![c] = "none"]
    /\ EndsAs(c, "error")
    /\ UNCHANGED <<row, position, reply, completed, late>>

\* Mutant: the process is not killed.
TimeoutLeavesChild(c) ==
    /\ pc[c] \in Reading
    /\ EndsAs(c, "error")
    /\ UNCHANGED <<row, position, child, reply, completed, late>>

(***************************************************************************)
(* The timeout, around the reading and the wait: kill, then wait.          *)
(***************************************************************************)
Timeout(c) ==
    /\ pc[c] \in Reading
    /\ child' = [child EXCEPT ![c] = "none"]
    /\ EndsAs(c, "error")
    /\ UNCHANGED <<row, position, reply, completed, late>>

(***************************************************************************)
(* The final state is written over whatever the row holds.                 *)
(***************************************************************************)
Record(c) ==
    /\ pc[c] = "record"
    /\ SetState(c, IF result[c] = "ok" THEN "succeeded" ELSE "failed")
    /\ Return(c, c, result[c] = "ok")
    /\ UNCHANGED <<position, child, result, completed, late>>

\* A query or an update of the execution fails: the call is left with `?`.
DatabaseFails(c) ==
    /\ pc[c] \in {"idle", "get", "mark", "record"}
    /\ Return(c, c, FALSE)
    /\ UNCHANGED <<row, position, child, result, completed, late>>

Call(c) ==
    /\ \/ Create(c) \/ GetExisting(c) \/ MarkRunning(c) \/ Load(c)
       \/ CheckCancelled(c) \/ Spawn(c) \/ Collect(c) \/ Record(c)
       \/ DatabaseFails(c)
    /\ UNCHANGED cancelVars

Timer(c) == Timeout(c) /\ UNCHANGED cancelVars

(***************************************************************************)
(* The python process: it exits, or it fills the pipe the executor does    *)
(* not read yet and stops until it does.                                   *)
(***************************************************************************)
Python(c) ==
    /\ \/ /\ child[c] = "runs"
          /\ \E s \in {"exited", "failed"} : child' = [child EXCEPT ![c] = s]
       \/ /\ child[c] = "runs" /\ pc[c] = "stdout"
          /\ child' = [child EXCEPT ![c] = "stuck"]
    /\ UNCHANGED <<row, pc, position, result, reply, completed, late, cancelVars>>

\* The process of a caller is killed; its python process is not.
Kill(c) ==
    /\ pc[c] \notin Ended
    /\ Goto(c, "killed")
    /\ UNCHANGED <<row, position, child, result, reply, completed, late, cancelVars>>

-----------------------------------------------------------------------------
(***************************************************************************)
(* cancel, through executor e for execution x: the flag, the row as it is, *)
(* and the whole row written back unless it was final when it was read.    *)
(***************************************************************************)
CancelFlag(e, x) ==
    /\ canceller = Idle
    /\ cancels < MaxCancels
    /\ x \in DOMAIN row /\ pc[e] # "killed"
    /\ flags' = flags \cup {<<e, x>>}
    /\ canceller' = <<"read", x>>
    /\ cancels' = cancels + 1
    /\ UNCHANGED row

CancelRead ==
    /\ canceller[1] = "read"
    /\ canceller' = IF row[canceller[2]] \in Final THEN Idle
                                                   ELSE <<"write", canceller[2]>>
    /\ UNCHANGED <<row, flags, cancels>>

CancelWrite ==
    /\ canceller[1] = "write"
    /\ SetState(canceller[2], "cancelled")
    /\ canceller' = Idle
    /\ UNCHANGED <<flags, cancels>>

Cancel ==
    /\ CancelRead \/ CancelWrite \/ \E e, x \in Callers : CancelFlag(e, x)
    /\ UNCHANGED <<pc, position, child, result, reply, completed, late>>

Next ==
    \/ Cancel
    \/ \E c \in Callers :
          \/ Call(c) \/ Timer(c) \/ Python(c) \/ Kill(c)
          \/ StdoutFull(c) /\ UNCHANGED cancelVars

(***************************************************************************)
(* The runtime runs a call that can go on, and its timer fires; nothing is *)
(* assumed of python, of the operator or of a kill.                        *)
(***************************************************************************)
Fairness == \A c \in Callers : WF_vars(Call(c)) /\ WF_vars(Timer(c))

Spec == Init /\ [][Next]_vars /\ Fairness

-----------------------------------------------------------------------------
(***************************************************************************)
(* Callers that share the key share one run: no two of them ever start an  *)
(* asset.  A call that reports success reports it of an execution all of   *)
(* whose assets ended well, whoever ran it and whatever was cancelled.     *)
(***************************************************************************)
OneRunPerKey ==
    /\ \A c, d \in Keyed : c # d => position[c] = 0 \/ position[d] = 0
    /\ \A c \in Callers :
          reply[c] # NoAnswer /\ reply[c][2] => completed[reply[c][1]] = NumAssets

(***************************************************************************)
(* Cancelling stops the run it is meant for: once the flag is set in the   *)
(* executor that runs it, at most the asset whose check is past is still   *)
(* started.                                                                *)
(***************************************************************************)
CancelStopsSoon == \A c \in Callers : late[c] <= 1

(* Both of them, of every interleaving of calls, cancellations and kills.   *)
RunsSound == OneRunPerKey /\ CancelStopsSoon

(***************************************************************************)
(* Every call returns, unless it is killed, and leaves no process behind:  *)
(* also when python never ends, or waits for the executor to read the pipe *)
(* it does not read yet.                                                   *)
(***************************************************************************)
CallsEnd ==
    \A c \in Callers :
        pc[c] \notin Ended
            ~> (pc[c] = "killed" \/ (pc[c] = "returned" /\ child[c] = "none"))
=============================================================================

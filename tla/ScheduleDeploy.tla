--------------------------- MODULE ScheduleDeploy ---------------------------
(***************************************************************************)
(* `servo deploy' and the Cloud Scheduler job of a workflow:               *)
(* servo-cli/src/commands/deploy.rs, servo-cloud-gcp/src/scheduler.rs, and *)
(* the scheduled execution in servo-worker/src/executor.rs.                *)
(*                                                                         *)
(* Deployers run the command for one workflow name.  Each query and each   *)
(* call of the Cloud Scheduler API is one action; a call may fail, or take *)
(* effect and lose its answer, and a deployer may be killed between any    *)
(* two.  Two constraints of the database decide how far a deployment goes: *)
(* a page of at most 1000 rows may be asked for, and find_asset_by_name    *)
(* asks for 10000; a version is positive, and an update writes version 0.  *)
(* So a definition with an asset fails after its workflow row is written,  *)
(* and a second deployment fails at the update.  What comes after those    *)
(* two points (the assets, their dependencies, the removal of a schedule,  *)
(* the update of a scheduler job) is never reached and is left out.        *)
(***************************************************************************)
EXTENDS Naturals, Sequences, FiniteSets, Functions

CONSTANTS
    Deployers,
    MaxFires        \* bound: times the scheduler job fires

VARIABLES
    step,           \* where each deployer is
    definition,     \* its workflow file: [assets, uses, schedule]
    found,          \* whether its lookup found the workflow
    copy,           \* the row it read
    row,            \* the row of the workflow, or NoRow
    cloudJob,       \* the Cloud Scheduler job: "none", "ENABLED", "PAUSED"
    request,        \* the scheduled request the worker is handling
    fires,
    executions      \* executions started by the schedule

deployVars == <<step, definition, found, copy, row, cloudJob, request, fires,
                executions>>

NoRow == [enabled |-> "null", job |-> FALSE, version |-> 0]
(* The names of the assets in order, <<asset, upstream>> pairs, and the    *)
(* schedule: its `enabled' flag, which is on when it is not given, or a    *)
(* text that is no cron expression.                                        *)
Definitions ==
    [assets : {<<>>, <<"a">>, <<"a", "b">>, <<"a", "a">>},
     uses : SUBSET {<<"a", "a">>, <<"b", "a">>},
     schedule : {"none", "on", "off", "not a cron"}]
NoDefinition == [assets |-> <<>>, uses |-> {}, schedule |-> "none"]
MinVersion == 1         \* CHECK (version > 0)
MaxPage == 1000         \* validate_pagination_params
AssetPage == 10000      \* find_asset_by_name

Init ==
    /\ step = [p \in Deployers |-> "idle"]
    /\ definition = [p \in Deployers |-> NoDefinition]
    /\ found = [p \in Deployers |-> FALSE]
    /\ copy = [p \in Deployers |-> NoRow]
    /\ row = NoRow /\ cloudJob = "none"
    /\ request = "none" /\ fires = 0 /\ executions = 0

Goto(p, next) == step' = [step EXCEPT ![p] = next]
Worker == <<request, fires, executions>>

-----------------------------------------------------------------------------
ValidSchedule(schedule) == schedule # "not a cron"

(* No name twice, only assets of the file used, and none by itself.        *)
ValidDefinition(file) ==
    /\ ValidSchedule(file.schedule)
    /\ Cardinality(Range(file.assets)) = Len(file.assets)
    /\ \A use \in file.uses : Range(use) \subseteq Range(file.assets)
    /\ \A use \in file.uses : use[1] # use[2]

(* The file is parsed and validated before anything is read.               *)
Begin(p, file) ==
    /\ step[p] = "idle" /\ ValidDefinition(file)
    /\ definition' = [definition EXCEPT ![p] = file]
    /\ Goto(p, "find")
    /\ UNCHANGED <<found, copy, row, cloudJob, Worker>>

(* find_workflow_by_name; asked twice, the second answer decides.          *)
FindWorkflow(p) ==
    /\ step[p] = "find"
    /\ found' = [found EXCEPT ![p] = row # NoRow]
    /\ Goto(p, "write")
    /\ UNCHANGED <<definition, copy, row, cloudJob, Worker>>

Written(p) ==
    [enabled |-> CASE definition[p].schedule = "none" -> "null"
                   [] definition[p].schedule = "on"   -> "true"
                   [] definition[p].schedule = "off"  -> "false",
     job |-> FALSE,
     version |-> IF found[p] THEN 0 ELSE 1]

(* An insert meets UNIQUE(name, tenant_id, version), an update the check   *)
(* on the version.                                                         *)
WriteWorkflow(p) ==
    /\ step[p] = "write"
    /\ IF ~found[p] /\ row = NoRow /\ Written(p).version >= MinVersion
       THEN row' = Written(p) /\ Goto(p, "assets")
       ELSE row' = row /\ Goto(p, "failed")
    /\ UNCHANGED <<definition, found, copy, cloudJob, Worker>>

(* The first asset looks itself up in a page that is refused.              *)
WriteAssets(p) ==
    /\ step[p] = "assets"
    /\ Goto(p, IF definition[p].assets # <<>> /\ AssetPage > MaxPage THEN "failed"
               ELSE IF definition[p].schedule = "none" THEN "deployed"
               ELSE "configure")
    /\ UNCHANGED <<definition, found, copy, row, cloudJob, Worker>>

-----------------------------------------------------------------------------
(* sync_scheduler: without a complete configuration it fails.              *)
Configure(p) ==
    /\ step[p] = "configure"
    /\ \E next \in {"get_job", "disable"} : Goto(p, next)
    /\ UNCHANGED <<definition, found, copy, row, cloudJob, Worker>>

GetJob(p) ==
    /\ step[p] = "get_job" /\ cloudJob = "none"
    /\ \E next \in {"create_job", "disable"} : Goto(p, next)
    /\ UNCHANGED <<definition, found, copy, row, cloudJob, Worker>>

(* The status of the answer decides; it may be lost after the job is made. *)
JobState(p) == IF definition[p].schedule = "on" THEN "ENABLED" ELSE "PAUSED"

\* Mutant: an error of the API is not looked at.
CreateJobUnchecked(p) ==
    /\ step[p] = "create_job"
    /\ cloudJob' \in {cloudJob, JobState(p)}
    /\ Goto(p, "read_job")
    /\ UNCHANGED <<definition, found, copy, row, Worker>>

CreateJob(p) ==
    /\ step[p] = "create_job"
    /\ \/ cloudJob' = JobState(p) /\ Goto(p, "read_job")
       \/ cloudJob' \in {cloudJob, JobState(p)} /\ Goto(p, "disable")
    /\ UNCHANGED <<definition, found, copy, row, Worker>>

GetWorkflow(p) == copy' = [copy EXCEPT ![p] = row] /\ UNCHANGED row

(* A row is written back whole, as it was when it was read.                *)
UpdateWorkflow(workflow) == row' = workflow /\ UNCHANGED copy

ReadForJob(p) ==
    /\ step[p] = "read_job"
    /\ \/ GetWorkflow(p) /\ Goto(p, "write_job")
       \/ UNCHANGED <<copy, row>> /\ Goto(p, "disable")
    /\ UNCHANGED <<definition, found, cloudJob, Worker>>

WriteJob(p) ==
    /\ step[p] = "write_job"
    /\ \/ UpdateWorkflow([copy[p] EXCEPT !.job = TRUE]) /\ Goto(p, "synced")
       \/ UNCHANGED <<copy, row>> /\ Goto(p, "disable")
    /\ UNCHANGED <<definition, found, cloudJob, Worker>>

(* disable_schedule_on_sync_failure; its own failure is only logged.       *)
ReadForDisable(p) ==
    /\ step[p] = "disable"
    /\ \/ GetWorkflow(p) /\ Goto(p, "write_disable")
       \/ UNCHANGED <<copy, row>> /\ Goto(p, "not_disabled")
    /\ UNCHANGED <<definition, found, cloudJob, Worker>>

WriteDisable(p) ==
    /\ step[p] = "write_disable"
    /\ \/ UpdateWorkflow([copy[p] EXCEPT !.enabled = "false"]) /\ Goto(p, "disabled")
       \/ UNCHANGED <<copy, row>> /\ Goto(p, "not_disabled")
    /\ UNCHANGED <<definition, found, cloudJob, Worker>>

Ends == {"failed", "deployed", "synced", "disabled", "not_disabled", "killed"}

(* The command is interrupted, or ends and is run again.                   *)
Kill(p) ==
    /\ step[p] \notin Ends \cup {"idle"}
    /\ Goto(p, "killed")
    /\ UNCHANGED <<definition, found, copy, row, cloudJob, Worker>>

Again(p) ==
    /\ step[p] \in Ends \ {"synced", "disabled"}
    /\ step' = [step EXCEPT ![p] = "idle"]
    /\ found' = [found EXCEPT ![p] = FALSE]
    /\ copy' = [copy EXCEPT ![p] = NoRow]
    /\ UNCHANGED <<definition, row, cloudJob, Worker>>

-----------------------------------------------------------------------------
(* The job fires: the worker reads the workflow, refuses a schedule that   *)
(* is not enabled, and starts an execution.                                *)
Fire ==
    /\ cloudJob = "ENABLED" /\ fires < MaxFires /\ request = "none"
    /\ request' = "fired" /\ fires' = fires + 1
    /\ UNCHANGED <<step, definition, found, copy, row, cloudJob, executions>>

ExecuteScheduled ==
    /\ request = "fired"
    /\ request' = IF row.enabled = "true" THEN "checked" ELSE "none"
    /\ UNCHANGED <<step, definition, found, copy, row, cloudJob, fires, executions>>

StartExecution ==
    /\ request = "checked"
    /\ request' = "none" /\ executions' = executions + 1
    /\ UNCHANGED <<step, definition, found, copy, row, cloudJob, fires>>

Next ==
    \/ \E p \in Deployers, file \in Definitions : Begin(p, file)
    \/ \E p \in Deployers :
          \/ FindWorkflow(p) \/ WriteWorkflow(p) \/ WriteAssets(p)
          \/ Configure(p) \/ GetJob(p) \/ CreateJob(p)
          \/ ReadForJob(p) \/ WriteJob(p)
          \/ ReadForDisable(p) \/ WriteDisable(p)
          \/ Kill(p) \/ Again(p)
    \/ Fire \/ ExecuteScheduled \/ StartExecution

Spec == Init /\ [][Next]_deployVars

-----------------------------------------------------------------------------
(* Whatever call failed and whoever else deployed in between, the row      *)
(* names a scheduler job only if there is one, a deployer that announces   *)
(* "Cloud Scheduler job created/updated" left the row and the job as its   *)
(* file asks, and nothing was ever run by the schedule of a workflow that  *)
(* no file asked to run.                                                   *)
ScheduleSettled ==
    /\ row.job => cloudJob # "none"
    /\ \A p \in Deployers : step[p] = "synced" =>
          /\ row = [Written(p) EXCEPT !.job = TRUE]
          /\ cloudJob = JobState(p)
    /\ executions > 0 => row # NoRow /\ cloudJob = "ENABLED"

(* "This prevents drift where the database says schedule_enabled=true but  *)
(* no actual Cloud Scheduler job exists" (deploy.rs).  Stated of the       *)
(* moments at which no deployment is under way and none was killed or      *)
(* failed to reach the database.                                           *)
NoDrift ==
    /\ \A p \in Deployers : step[p] \in {"idle", "failed", "deployed",
                                         "synced", "disabled"}
    /\ row.enabled = "true"
    => cloudJob # "none"
=============================================================================

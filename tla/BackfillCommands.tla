-------------------------- MODULE BackfillCommands --------------------------
(***************************************************************************)
(* `servo backfill' (servo-cli/src/commands/backfill.rs): operators who    *)
(* create, pause, resume and cancel the jobs of one asset, each query a    *)
(* transaction of its own.  What an executor does between the claim and    *)
(* the end of a job is BackfillJob; here it only moves the job on.         *)
(*                                                                         *)
(* Partitions are dates.  A command that stops before its first look at    *)
(* the jobs (a key that is refused, an asset that is not found) does       *)
(* nothing and is left out.                                                *)
(***************************************************************************)
EXTENDS Naturals, Sequences, FiniteSets

CONSTANTS Commands,   \* each creates at most one job
          LastDate,
          MaxSeconds  \* bound: seconds in which keys are made

VARIABLES
    stage,     \* where each command is, or what it answered
    asked,     \* the form and the dates of each command
    checked,   \* the last date it looked up
    second,    \* the timestamp in its idempotency key
    mine,      \* the job it created or reported, or 0
    began,     \* history: how many jobs there were when it began
    jobs,      \* the rows of backfill_jobs, oldest first
    resuming,  \* the job a resume command has read as paused, or 0
    clock

commandVars == <<stage, asked, checked, second, mine, began, jobs, resuming, clock>>

Dates == 1 .. LastDate

\* generate_date_range_partitions, or the one partition that is named.
Orders ==
    [form : {"range"}, first : Dates, last : Dates]
        \cup [form : {"single"}, first : {1}, last : {1}]
DatesOf(r) == r.first .. r.last

Active == {"pending", "waiting_upstream", "running", "paused", "resuming"}

Init ==
    /\ stage = [c \in Commands |-> "idle"]
    /\ asked = [c \in Commands |-> [form |-> "single", first |-> 1, last |-> 1]]
    /\ checked = [c \in Commands |-> 0]
    /\ second = [c \in Commands |-> 0]
    /\ mine = [c \in Commands |-> 0]
    /\ began = [c \in Commands |-> 0]
    /\ jobs = <<>> /\ resuming = 0
    /\ clock = 0

Goto(c, next) == stage' = [stage EXCEPT ![c] = next]
SetState(i, s) == jobs' = [jobs EXCEPT ![i].state = s]

-----------------------------------------------------------------------------
(* Creating a job.                                                          *)

Begin(c, r) ==
    /\ stage[c] = "idle" /\ r.first <= r.last
    /\ asked' = [asked EXCEPT ![c] = r]
    /\ checked' = [checked EXCEPT ![c] = r.first - 1]
    /\ began' = [began EXCEPT ![c] = Len(jobs)]
    /\ Goto(c, "check")
    /\ UNCHANGED <<second, mine, jobs, resuming, clock>>

\* Mutant: a job that was paused is not looked at.
ActiveAndMoving(date) ==
    {i \in DOMAIN jobs : jobs[i].state \in Active \ {"paused"} /\ date \in jobs[i].dates}

ActiveFor(date) ==
    {i \in DOMAIN jobs : jobs[i].state \in Active /\ date \in jobs[i].dates}

(***************************************************************************)
(* One date after the other: an active job is reported by the one form and *)
(* an error for the other.  After the last the key gets its timestamp.     *)
(***************************************************************************)
Check(c) ==
    LET date == checked[c] + 1
        found == ActiveFor(date)
    IN  /\ stage[c] = "check"
        /\ \/ /\ found = {}
              /\ checked' = [checked EXCEPT ![c] = date]
              /\ IF date = asked[c].last
                 THEN second' = [second EXCEPT ![c] = clock] /\ Goto(c, "create")
                 ELSE UNCHANGED <<second, stage>>
              /\ UNCHANGED mine
           \/ \E newest \in found :
                 /\ \A i \in found : i <= newest
                 /\ mine' = [mine EXCEPT ![c] = newest]
                 /\ Goto(c, IF asked[c].form = "single" THEN "reported" ELSE "refused")
                 /\ UNCHANGED <<checked, second>>
        /\ UNCHANGED <<asked, began, jobs, resuming, clock>>

\* UNIQUE (tenant_id, idempotency_key): the request and the second.
CreateJob(c) ==
    LET key == <<asked[c], second[c]>>
    IN  /\ stage[c] = "create"
        /\ IF \E i \in DOMAIN jobs : jobs[i].key = key
           THEN Goto(c, "conflict") /\ UNCHANGED <<jobs, mine>>
           ELSE /\ jobs' = Append(jobs, [key |-> key, dates |-> DatesOf(asked[c]),
                                         state |-> "pending", rows |-> {}, by |-> c])
                /\ mine' = [mine EXCEPT ![c] = Len(jobs) + 1]
                /\ Goto(c, "rows")
        /\ UNCHANGED <<asked, checked, second, began, resuming, clock>>

\* create_backfill_partition, in the order of the dates.
CreateRow(c) ==
    /\ stage[c] = "rows"
    /\ LET job == jobs[mine[c]]
           next == asked[c].first + Cardinality(job.rows)
       IN  /\ jobs' = [jobs EXCEPT ![mine[c]].rows = @ \cup {next}]
           /\ IF next = asked[c].last THEN Goto(c, "created") ELSE UNCHANGED stage
    /\ UNCHANGED <<asked, checked, second, mine, began, resuming, clock>>

\* The command is interrupted, or a query fails.
Interrupt(c) ==
    /\ stage[c] \in {"check", "create", "rows"}
    /\ Goto(c, "interrupted")
    /\ UNCHANGED <<asked, checked, second, mine, began, jobs, resuming, clock>>

-----------------------------------------------------------------------------
(* Pausing, resuming, cancelling; the executor; the clock.                  *)

others == <<stage, asked, checked, second, mine, began, clock>>

PauseJob(i) == jobs[i].state = "running" /\ SetState(i, "paused") /\ UNCHANGED <<others, resuming>>

\* resume_job reads the job first, and resume_backfill_job checks again.
ReadToResume(i) ==
    /\ resuming = 0 /\ jobs[i].state = "paused"
    /\ resuming' = i
    /\ UNCHANGED <<others, jobs>>

ResumeJob ==
    /\ resuming # 0
    /\ IF jobs[resuming].state = "paused" THEN SetState(resuming, "resuming") ELSE UNCHANGED jobs
    /\ resuming' = 0
    /\ UNCHANGED others

CancelJob(i) ==
    jobs[i].state \in Active /\ SetState(i, "cancelled") /\ UNCHANGED <<others, resuming>>

\* A claim, a wait for upstream jobs, the release from it, the end.
Execute(i) ==
    /\ \/ jobs[i].state \in {"pending", "resuming"} /\ SetState(i, "running")
       \/ jobs[i].state = "running"
            /\ \E s \in {"waiting_upstream", "completed", "failed"} : SetState(i, s)
       \/ jobs[i].state = "waiting_upstream"
            /\ \E s \in {"pending", "failed"} : SetState(i, s)
    /\ UNCHANGED <<others, resuming>>

Tick ==
    /\ clock < MaxSeconds
    /\ clock' = clock + 1
    /\ UNCHANGED <<stage, asked, checked, second, mine, began, jobs, resuming>>

-----------------------------------------------------------------------------
Next ==
    \/ \E c \in Commands, r \in Orders : Begin(c, r)
    \/ \E c \in Commands : Check(c) \/ CreateJob(c) \/ CreateRow(c) \/ Interrupt(c)
    \/ \E i \in DOMAIN jobs :
          PauseJob(i) \/ ReadToResume(i) \/ CancelJob(i) \/ Execute(i)
    \/ ResumeJob \/ Tick

Spec == Init /\ [][Next]_commandVars

-----------------------------------------------------------------------------
(***************************************************************************)
(* Two active jobs share a date only if the command that made the later    *)
(* had begun before the earlier job was there, whatever was paused,        *)
(* resumed or released meanwhile: there is no overlap but by that race.    *)
(* A job that a command reports in place of its own covers what was asked, *)
(* and of a job that it calls created every partition has its row.         *)
(***************************************************************************)
OverlapOnlyByRace ==
    /\ \A i, j \in DOMAIN jobs :
          /\ i < j /\ {jobs[i].state, jobs[j].state} \subseteq Active
          /\ jobs[i].dates \cap jobs[j].dates # {}
          => i > began[jobs[j].by]
    /\ \A c \in Commands :
          /\ stage[c] = "reported" => DatesOf(asked[c]) \subseteq jobs[mine[c]].dates
          /\ stage[c] = "created" => jobs[mine[c]].rows = DatesOf(asked[c])
=============================================================================

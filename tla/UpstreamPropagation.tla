------------------------ MODULE UpstreamPropagation ------------------------
(***************************************************************************)
(* A backfill job created with include_upstream, the child jobs that an    *)
(* executor creates for its upstream assets, and the executors that        *)
(* process parent and children alike.  The partition loop of a job is the  *)
(* subject of BackfillJob; here it is the single step "work", between      *)
(* whose ends everything else may happen.                                  *)
(*                                                                         *)
(* A child row is inserted without partition rows, so today its loop finds *)
(* nothing to claim and ends as 'completed'; ChildOutcomes says what the   *)
(* handlers are checked against.                                           *)
(***************************************************************************)
EXTENDS Integers, FiniteSets

CONSTANTS
    Children,       \* one child job for each upstream asset discovered
    Parent,         \* the job created with include_upstream
    Discoverable,   \* what a discovery may return; a deploy may change it
    Order,          \* execution_order of a child, 0 = furthest upstream
    Executors,
    ChildOutcomes,  \* final states a child's partition loop may reach
    MaxFaults,      \* bound: crashes and storage errors
    MaxOperations   \* bound: pauses and cancellations by an operator

ASSUME UpstreamAssumption ==
    /\ IsFiniteSet(Children) /\ Parent \notin Children
    /\ IsFiniteSet(Executors)
    /\ Discoverable \subseteq SUBSET Children
    /\ Order \in [Children -> Nat]
    /\ ChildOutcomes \subseteq {"completed", "failed"}
    /\ MaxFaults \in Nat /\ MaxOperations \in Nat

Jobs == Children \cup {Parent}

VARIABLES
    state, stale,               \* per job: backfill_jobs.state, heartbeat age
    upstream_job_count,         \* the parent's counters
    completed_upstream_jobs,
    pc, job, todo, created,     \* locals of each executor
    faults, operations

jobVars == <<state, stale>>
counters == <<upstream_job_count, completed_upstream_jobs>>
exVars == <<pc, job, todo, created>>
vars == <<jobVars, counters, exVars, faults, operations>>

Terminal == {"completed", "failed", "cancelled"}

Labels == {"idle", "discover", "create", "wait", "work",
           "increment", "release", "fail parent"}

Init ==
    /\ state = [j \in Jobs |-> IF j = Parent THEN "pending" ELSE "absent"]
    /\ stale = [j \in Jobs |-> FALSE]
    /\ upstream_job_count = 0 /\ completed_upstream_jobs = 0
    /\ pc = [e \in Executors |-> "idle"]
    /\ job = [e \in Executors |-> Parent]
    /\ todo = [e \in Executors |-> {}]
    /\ created = [e \in Executors |-> 0]
    /\ faults = 0 /\ operations = 0

Goto(e, label) == pc' = [pc EXCEPT ![e] = label]

\* process_job returns: its locals are gone.
Return(e) ==
    /\ Goto(e, "idle")
    /\ job' = [job EXCEPT ![e] = Parent]
    /\ todo' = [todo EXCEPT ![e] = {}]
    /\ created' = [created EXCEPT ![e] = 0]

Fault == faults < MaxFaults /\ faults' = faults + 1

-----------------------------------------------------------------------------
(* Claiming.                                                                *)

\* Among pending children the lowest execution_order is taken.
FirstPending(j) ==
    /\ state[j] = "pending"
    /\ j \in Children =>
         \A k \in Children : state[k] = "pending" => Order[j] <= Order[k]

\* waiting_upstream is not claimable; pending comes first, then resuming.
Claimable(j) ==
    \/ FirstPending(j)
    \/ /\ state[j] = "resuming"
       /\ \A k \in Jobs : state[k] # "pending"
    \/ /\ state[j] = "running" /\ stale[j]
       /\ \A k \in Jobs : state[k] \notin {"pending", "resuming"}

\* The snapshot decides: a root job without upstream jobs goes discovering.
Claim(e, j) ==
    /\ pc[e] = "idle"
    /\ Claimable(j)
    /\ state' = [state EXCEPT ![j] = "running"]
    /\ stale' = [stale EXCEPT ![j] = FALSE]
    /\ job' = [job EXCEPT ![e] = j]
    /\ Goto(e, IF j = Parent /\ upstream_job_count = 0 THEN "discover" ELSE "work")
    /\ UNCHANGED <<counters, todo, created, faults, operations>>

-----------------------------------------------------------------------------
(* handle_upstream_propagation.                                             *)

\* process_job returns and leaves the job running.
DiscoverNothing(e) ==
    /\ pc[e] = "discover" /\ {} \in Discoverable
    /\ Return(e)
    /\ UNCHANGED <<jobVars, counters, faults, operations>>

DiscoverAssets(e, found) ==
    /\ pc[e] = "discover" /\ found # {}
    /\ todo' = [todo EXCEPT ![e] = found]
    /\ Goto(e, "create")
    /\ UNCHANGED <<jobVars, counters, job, created, faults, operations>>

\* A cycle or a storage error: running -> failed.
DiscoverFails(e) ==
    /\ pc[e] = "discover"
    /\ Fault
    /\ IF state[Parent] = "running"
         THEN /\ state' = [state EXCEPT ![Parent] = "failed"]
              /\ stale' = [stale EXCEPT ![Parent] = FALSE]
         ELSE UNCHANGED jobVars
    /\ Return(e)
    /\ UNCHANGED <<counters, operations>>

\* INSERT; a child that exists already (same idempotency key) counts too.
CreateChild(e, c) ==
    /\ pc[e] = "create" /\ c \in todo[e]
    /\ state' = IF state[c] = "absent" THEN [state EXCEPT ![c] = "pending"] ELSE state
    /\ created' = [created EXCEPT ![e] = @ + 1]
    /\ todo' = [todo EXCEPT ![e] = @ \ {c}]
    /\ UNCHANGED <<stale, counters, pc, job, faults, operations>>

\* Any other error is logged: "Continue with other children".
CreateChildFails(e, c) ==
    /\ pc[e] = "create" /\ c \in todo[e]
    /\ Fault
    /\ todo' = [todo EXCEPT ![e] = @ \ {c}]
    /\ UNCHANGED <<jobVars, counters, pc, job, created, operations>>

\* valid_upstream_counts: completed_upstream_jobs <= upstream_job_count.
CountersAllowed(completed, count) == completed <= count

UpdateCount(e) ==
    /\ pc[e] = "create" /\ todo[e] = {}
    /\ IF CountersAllowed(completed_upstream_jobs, created[e])
         THEN /\ upstream_job_count' = created[e]
              /\ Goto(e, "wait")
              /\ UNCHANGED <<job, todo, created>>
         ELSE Return(e) /\ UNCHANGED upstream_job_count
    /\ UNCHANGED <<jobVars, completed_upstream_jobs, faults, operations>>

\* running -> waiting_upstream, or an Err when the parent is not running.
StartWaiting(e) ==
    /\ pc[e] = "wait"
    /\ IF state[Parent] = "running"
         THEN /\ state' = [state EXCEPT ![Parent] = "waiting_upstream"]
              /\ stale' = [stale EXCEPT ![Parent] = FALSE]
         ELSE UNCHANGED jobVars
    /\ Return(e)
    /\ UNCHANGED <<counters, faults, operations>>

-----------------------------------------------------------------------------
(* The partition loop and handle_child_job_completion.                      *)

Outcomes(j) == IF j = Parent THEN {"completed", "failed"} ELSE ChildOutcomes

\* Mutant: every child that ends counts as complete.
AfterAnyChild(outcome) == "increment"

\* What process_job does after a child's final transition.
AfterChild(outcome) == IF outcome = "completed" THEN "increment" ELSE "fail parent"

\* Mutant: the final transition does not insist on the running state.
FinishAnyway(e, outcome) ==
    /\ pc[e] = "work" /\ outcome \in Outcomes(job[e])
    /\ state' = [state EXCEPT ![job[e]] = outcome]
    /\ stale' = [stale EXCEPT ![job[e]] = FALSE]
    /\ IF job[e] = Parent
         THEN Return(e)
         ELSE Goto(e, AfterChild(outcome)) /\ UNCHANGED <<job, todo, created>>
    /\ UNCHANGED <<counters, faults, operations>>

\* The loop ends: running -> final state, refused if the job moved on.
Finish(e, outcome) ==
    /\ pc[e] = "work" /\ outcome \in Outcomes(job[e])
    /\ state[job[e]] = "running"
    /\ state' = [state EXCEPT ![job[e]] = outcome]
    /\ stale' = [stale EXCEPT ![job[e]] = FALSE]
    /\ IF job[e] = Parent
         THEN Return(e)
         ELSE Goto(e, AfterChild(outcome)) /\ UNCHANGED <<job, todo, created>>
    /\ UNCHANGED <<counters, faults, operations>>

\* Paused, cancelled or finished by another meanwhile: an early return or an
\* Err of the final transition.
FinishRefused(e) ==
    /\ pc[e] = "work" /\ state[job[e]] # "running"
    /\ Return(e)
    /\ UNCHANGED <<jobVars, counters, faults, operations>>

\* The CHECK constraint makes a premature increment fail; nobody repeats it.
IncrementCompleted(e) ==
    /\ pc[e] = "increment"
    /\ IF CountersAllowed(completed_upstream_jobs + 1, upstream_job_count)
         THEN /\ completed_upstream_jobs' = completed_upstream_jobs + 1
              /\ Goto(e, "release")
              /\ UNCHANGED <<job, todo, created>>
         ELSE Return(e) /\ UNCHANGED completed_upstream_jobs
    /\ UNCHANGED <<jobVars, upstream_job_count, faults, operations>>

\* Mutant: strictly more than the count.
MoreThanUpstreamComplete ==
    upstream_job_count > 0 /\ completed_upstream_jobs > upstream_job_count

\* Mutant: released by the first child.
SomeUpstreamComplete ==
    upstream_job_count > 0 /\ completed_upstream_jobs > 0

AllUpstreamComplete ==
    upstream_job_count > 0 /\ completed_upstream_jobs >= upstream_job_count

TryReleaseParent(e) ==
    /\ pc[e] = "release"
    /\ IF state[Parent] = "waiting_upstream" /\ AllUpstreamComplete
         THEN state' = [state EXCEPT ![Parent] = "pending"]
         ELSE UNCHANGED state
    /\ Return(e)
    /\ UNCHANGED <<stale, counters, faults, operations>>

FailParent(e) ==
    /\ pc[e] = "fail parent"
    /\ IF state[Parent] = "waiting_upstream"
         THEN state' = [state EXCEPT ![Parent] = "failed"]
         ELSE UNCHANGED state
    /\ Return(e)
    /\ UNCHANGED <<stale, counters, faults, operations>>

-----------------------------------------------------------------------------
(* Crashes, storage errors, time, the operator.                             *)

Abandon(e) ==
    /\ pc[e] # "idle"
    /\ Fault
    /\ Return(e)
    /\ UNCHANGED <<jobVars, counters, operations>>

HeartbeatExpires(j) ==
    /\ state[j] = "running" /\ ~stale[j]
    /\ stale' = [stale EXCEPT ![j] = TRUE]
    /\ UNCHANGED <<state, counters, exVars, faults, operations>>

Operation == operations < MaxOperations /\ operations' = operations + 1

Pause(j) ==
    /\ Operation
    /\ state[j] = "running"
    /\ state' = [state EXCEPT ![j] = "paused"]
    /\ stale' = [stale EXCEPT ![j] = FALSE]
    /\ UNCHANGED <<counters, exVars, faults>>

Resume(j) ==
    /\ state[j] = "paused"
    /\ state' = [state EXCEPT ![j] = "resuming"]
    /\ UNCHANGED <<stale, counters, exVars, faults, operations>>

Cancellable(j) == state[j] \notin Terminal \cup {"absent"}

\* servo backfill cancel, which operations one job.
CancelJob(j) ==
    /\ Operation
    /\ Cancellable(j)
    /\ state' = [state EXCEPT ![j] = "cancelled"]
    /\ UNCHANGED <<stale, counters, exVars, faults>>

\* The parent and its children.
CancelTree ==
    /\ Operation
    /\ \E j \in Jobs : Cancellable(j)
    /\ state' = [j \in Jobs |-> IF Cancellable(j) THEN "cancelled" ELSE state[j]]
    /\ UNCHANGED <<stale, counters, exVars, faults>>

\* Executors keep polling when there is nothing to claim, now or ever again.
PollNothing ==
    /\ \A e \in Executors : pc[e] = "idle"
    /\ \A j \in Jobs : state[j] \notin {"pending", "running", "resuming"}
    /\ UNCHANGED vars

-----------------------------------------------------------------------------
ExecutorStep(e) ==
    \/ \E j \in Jobs : Claim(e, j)
    \/ DiscoverNothing(e) \/ UpdateCount(e) \/ StartWaiting(e)
    \/ \E found \in Discoverable : DiscoverAssets(e, found)
    \/ \E c \in Children : CreateChild(e, c)
    \/ \E o \in {"completed", "failed"} : Finish(e, o)
    \/ FinishRefused(e) \/ IncrementCompleted(e) \/ TryReleaseParent(e) \/ FailParent(e)

Next ==
    \/ \E e \in Executors :
         \/ ExecutorStep(e) \/ DiscoverFails(e) \/ Abandon(e)
         \/ \E c \in Children : CreateChildFails(e, c)
    \/ \E j \in Jobs : HeartbeatExpires(j) \/ Pause(j) \/ Resume(j) \/ CancelJob(j)
    \/ CancelTree \/ PollNothing

Spec == Init /\ [][Next]_vars

\* Executors poll forever and their awaits are bounded; time passes.
Fairness ==
    /\ \A e \in Executors : WF_vars(ExecutorStep(e))
    /\ \A j \in Jobs : WF_vars(HeartbeatExpires(j))

FairSpec == Spec /\ Fairness

-----------------------------------------------------------------------------
(* Properties.                                                              *)

(* Type invariant of the job rows, the parent's counters and the locals.    *)
TypeOK ==
    /\ state \in [Jobs -> {"absent", "pending", "running", "waiting_upstream",
                           "paused", "resuming"} \cup Terminal]
    /\ stale \in [Jobs -> BOOLEAN]
    /\ upstream_job_count \in 0 .. Cardinality(Children)
    /\ completed_upstream_jobs \in 0 .. Cardinality(Children)
    /\ pc \in [Executors -> Labels]
    /\ job \in [Executors -> Jobs]
    /\ todo \in [Executors -> SUBSET Children]
    /\ created \in [Executors -> 0 .. Cardinality(Children)]
    /\ faults \in 0 .. MaxFaults /\ operations \in 0 .. MaxOperations

CompletedChildren == {c \in Children : state[c] = "completed"}

(* completed_upstream_jobs never counts a child that did not complete, nor  *)
(* one child twice, although a child may be claimed by several executors    *)
(* and the increment is a transaction of its own after the child's last.    *)
CountsOnlyCompleted == completed_upstream_jobs <= Cardinality(CompletedChildren)

(* The parent leaves waiting_upstream for pending only when as many         *)
(* children are completed as it was told to wait for.                       *)
ReleasedWhenAllComplete ==
    [][(state[Parent] = "waiting_upstream" /\ state'[Parent] = "pending")
          => /\ upstream_job_count > 0
             /\ Cardinality(CompletedChildren) >= upstream_job_count]_vars

Row(j) == IF state[j] = "absent" THEN "pending" ELSE state[j]

(* The unchecked parent transitions, and every other writer, keep each job  *)
(* of the tree to the transition table.                                     *)
Lifecycle(j) == INSTANCE BackfillLifecycle WITH state <- Row(j)
ObeysLifecycle ==
    /\ \A j \in Jobs : Lifecycle(j)!Init
    /\ [][\A j \in Jobs : Lifecycle(j)!Next \/ UNCHANGED Row(j)]_state

Undisturbed == faults = 0 /\ operations = 0

(* A parent that starts to wait before any child has finished, and while no *)
(* other executor is still discovering for it, is let go: released, or      *)
(* failed with a child.  Crashes and operators apart.                       *)
WaitingParentLeaves ==
    (/\ state[Parent] = "waiting_upstream"
     /\ \A c \in Children : state[c] \in {"absent", "pending", "running"}
     /\ \A e \in Executors : pc[e] \notin {"discover", "create", "wait"})
        ~> (state[Parent] # "waiting_upstream" \/ ~Undisturbed)

(* The parent is not forgotten: it ends, as completed, failed or cancelled. *)
ParentEnds == <>(state[Parent] \in Terminal)
=============================================================================

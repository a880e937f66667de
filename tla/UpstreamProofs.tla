--------------------------- MODULE UpstreamProofs ---------------------------
(***************************************************************************)
(* What holds of a parent and its children for every number of children    *)
(* and executors, every result of discovery and every bound on faults and  *)
(* operations.                                                             *)
(***************************************************************************)
EXTENDS UpstreamPropagation, FiniteSetTheorems, TLAPS

\* Children in the making and children made are children.
Bounded == \A e \in Executors :
    /\ created[e] + Cardinality(todo[e]) <= Cardinality(Children)
    /\ pc[e] \in {"idle", "discover"} => created[e] = 0

\* The completions that are not counted yet.
Incrementing == {e \in Executors : pc[e] = "increment"}

\* Each counted or soon to be counted completion has a child of its own.
Counted == completed_upstream_jobs + Cardinality(Incrementing)
               <= Cardinality(CompletedChildren)

\* The CHECK constraint valid_upstream_counts.
Checked == completed_upstream_jobs <= upstream_job_count

IInv == TypeOK /\ Bounded /\ Checked /\ Counted

USE UpstreamAssumption

-----------------------------------------------------------------------------
(* Finite sets.                                                             *)

(* The sets that are counted are finite.                                    *)
LEMMA FiniteSets ==
    /\ Cardinality(Children) \in Nat
    /\ \A S \in SUBSET Children : IsFiniteSet(S) /\ Cardinality(S) \in Nat
                                  /\ Cardinality(S) <= Cardinality(Children)
    /\ \A S \in SUBSET Executors : IsFiniteSet(S) /\ Cardinality(S) \in Nat
<1>1. Cardinality(Children) \in Nat
  BY FS_CardinalityType
<1>2. ASSUME NEW S \in SUBSET Children
      PROVE  IsFiniteSet(S) /\ Cardinality(S) \in Nat
             /\ Cardinality(S) <= Cardinality(Children)
  <2>1. IsFiniteSet(S) /\ Cardinality(S) <= Cardinality(Children)
    BY FS_Subset
  <2> QED
    BY <2>1, FS_CardinalityType
<1>3. ASSUME NEW S \in SUBSET Executors
      PROVE  IsFiniteSet(S) /\ Cardinality(S) \in Nat
  <2>1. IsFiniteSet(S)
    BY FS_Subset
  <2> QED
    BY <2>1, FS_CardinalityType
<1> QED
  BY <1>1, <1>2, <1>3

(* A count survives when fewer wait to be counted and no more is lost.      *)
LEMMA CountMonotone ==
    ASSUME NEW n \in Nat,
           NEW A \in SUBSET Executors, NEW AA \in SUBSET A,
           NEW BB \in SUBSET Children, NEW B \in SUBSET BB,
           n + Cardinality(A) <= Cardinality(B)
    PROVE  n + Cardinality(AA) <= Cardinality(BB)
<1>1. IsFiniteSet(A) /\ IsFiniteSet(BB)
  BY FiniteSets
<1>2. Cardinality(AA) <= Cardinality(A)
  BY <1>1, FS_Subset
<1>3. Cardinality(B) <= Cardinality(BB)
  BY <1>1, FS_Subset
<1>4. /\ Cardinality(A) \in Nat /\ Cardinality(AA) \in Nat
      /\ Cardinality(B) \in Nat /\ Cardinality(BB) \in Nat
  BY FiniteSets
<1> QED
  BY <1>2, <1>3, <1>4

-----------------------------------------------------------------------------
(* Types.                                                                   *)

(* Nothing is created or counted initially.                                 *)
LEMMA InitIInv == Init => IInv
<1> SUFFICES ASSUME Init PROVE IInv
  OBVIOUS
<1>1. TypeOK
  BY FiniteSets DEF Init, TypeOK, Labels, Terminal, Jobs
<1>2. Cardinality({}) = 0
  BY FS_EmptySet
<1>3. Bounded
  BY <1>2, FiniteSets DEF Init, Bounded
<1>4. Checked
  BY DEF Init, Checked
<1>5. Incrementing = {}
  BY DEF Init, Incrementing
<1>6. Cardinality(CompletedChildren) \in Nat
  BY FiniteSets DEF CompletedChildren
<1>7. Counted
  BY <1>2, <1>5, <1>6 DEF Init, Counted
<1> QED
  BY <1>1, <1>3, <1>4, <1>7 DEF IInv

(* Returning keeps the locals in their types and within the bound.          *)
LEMMA ReturnKeeps ==
    ASSUME TypeOK, Bounded, NEW e \in Executors, Return(e)
    PROVE  /\ pc' \in [Executors -> Labels] /\ job' \in [Executors -> Jobs]
           /\ todo' \in [Executors -> SUBSET Children]
           /\ created' \in [Executors -> 0 .. Cardinality(Children)]
           /\ Bounded'
<1>1. Cardinality({}) = 0
  BY FS_EmptySet
<1>2. \A f \in Executors : IF f = e THEN created'[f] = 0 /\ todo'[f] = {}
                           ELSE /\ created'[f] = created[f] /\ todo'[f] = todo[f]
                                /\ pc'[f] = pc[f]
  BY DEF Return, Goto, TypeOK
<1>3. Bounded'
  BY <1>1, <1>2, FiniteSets DEF Bounded
<1>4. /\ pc' \in [Executors -> Labels] /\ job' \in [Executors -> Jobs]
      /\ todo' \in [Executors -> SUBSET Children]
  BY DEF Return, Goto, TypeOK, Labels, Jobs
<1>5. created' \in [Executors -> 0 .. Cardinality(Children)]
  <2>1. 0 \in 0 .. Cardinality(Children)
    BY FiniteSets
  <2> QED
    BY <2>1 DEF Return, TypeOK
<1> QED
  BY <1>3, <1>4, <1>5

\* The types of the job rows and of the parent's counters.
RowsOK ==
    /\ state \in [Jobs -> {"absent", "pending", "running", "waiting_upstream",
                           "paused", "resuming"} \cup Terminal]
    /\ stale \in [Jobs -> BOOLEAN]
    /\ upstream_job_count \in 0 .. Cardinality(Children)
    /\ completed_upstream_jobs \in 0 .. Cardinality(Children)
    /\ faults \in 0 .. MaxFaults /\ operations \in 0 .. MaxOperations

\* The types of the executors' locals.
LocalsOK ==
    /\ pc \in [Executors -> Labels]
    /\ job \in [Executors -> Jobs]
    /\ todo \in [Executors -> SUBSET Children]
    /\ created \in [Executors -> 0 .. Cardinality(Children)]

(* An executor's step that is no return keeps its locals in their types.    *)
LEMMA LocalsStep ==
    ASSUME TypeOK, Bounded, Next
    PROVE  LocalsOK' /\ Bounded'
<1> USE FiniteSets
<1>0. ASSUME UNCHANGED exVars PROVE LocalsOK' /\ Bounded'
  BY <1>0 DEF exVars, LocalsOK, Bounded, TypeOK
<1>1. ASSUME NEW e \in Executors, Return(e) PROVE LocalsOK' /\ Bounded'
  BY <1>1, ReturnKeeps DEF LocalsOK
<1>2. ASSUME NEW e \in Executors, NEW l \in Labels \ {"idle", "discover"}, Goto(e, l),
             UNCHANGED <<job, todo, created>>
      PROVE  LocalsOK' /\ Bounded'
  BY <1>2 DEF Goto, LocalsOK, Bounded, TypeOK
<1>3. ASSUME NEW e \in Executors, NEW j \in Jobs, Claim(e, j)
      PROVE  LocalsOK' /\ Bounded'
  <2>1. job' = [job EXCEPT ![e] = j] /\ UNCHANGED <<todo, created>>
    BY <1>3 DEF Claim
  <2>2. \E l \in Labels : Goto(e, l)
    BY <1>3 DEF Claim, Labels
  <2>3. created[e] = 0
    BY <1>3 DEF Claim, Bounded
  <2> QED
    BY <2>1, <2>2, <2>3 DEF Goto, LocalsOK, Bounded, TypeOK
<1>4. ASSUME NEW e \in Executors, NEW found \in Discoverable, DiscoverAssets(e, found)
      PROVE  LocalsOK' /\ Bounded'
  <2>1. found \in SUBSET Children /\ created[e] = 0
    BY <1>4 DEF DiscoverAssets, Bounded
  <2>2. /\ Goto(e, "create") /\ todo' = [todo EXCEPT ![e] = found]
        /\ UNCHANGED <<job, created>>
    BY <1>4 DEF DiscoverAssets
  <2>3. 0 + Cardinality(found) <= Cardinality(Children)
    BY <2>1
  <2>4. LocalsOK'
    BY <2>1, <2>2 DEF Goto, LocalsOK, TypeOK, Labels
  <2>5. \A f \in Executors \ {e} : /\ created'[f] = created[f] /\ todo'[f] = todo[f]
                                  /\ pc'[f] = pc[f]
    BY <2>2 DEF Goto, TypeOK
  <2>6. created'[e] = 0 /\ todo'[e] = found /\ pc'[e] = "create"
    BY <2>1, <2>2 DEF Goto, TypeOK
  <2>7. Bounded'
    BY <2>3, <2>5, <2>6 DEF Bounded
  <2> QED
    BY <2>4, <2>7
<1>5. ASSUME NEW e \in Executors, NEW c \in Children,
             pc[e] = "create", c \in todo[e], todo' = [todo EXCEPT ![e] = @ \ {c}],
             created' \in {created, [created EXCEPT ![e] = @ + 1]},
             UNCHANGED <<pc, job>>
      PROVE  LocalsOK' /\ Bounded'
  <2>1. IsFiniteSet(todo[e]) /\ Cardinality(todo[e]) \in Nat
    BY DEF TypeOK
  <2>2. Cardinality(todo[e] \ {c}) = Cardinality(todo[e]) - 1
    BY <1>5, <2>1, FS_RemoveElement
  <2>3. created[e] + Cardinality(todo[e]) <= Cardinality(Children)
    BY DEF Bounded
  <2>4. created'[e] \in 0 .. Cardinality(Children)
        /\ created'[e] + Cardinality(todo[e] \ {c}) <= Cardinality(Children)
    <3>1. created[e] \in Nat /\ Cardinality(todo[e] \ {c}) \in Nat
      BY DEF TypeOK
    <3>2. created'[e] \in {created[e], created[e] + 1}
      BY <1>5 DEF TypeOK
    <3> QED
      BY <2>1, <2>2, <2>3, <3>1, <3>2
  <2>5. \A f \in Executors \ {e} : created'[f] = created[f] /\ todo'[f] = todo[f]
    BY <1>5 DEF TypeOK
  <2>9. pc'[e] = "create" /\ \A f \in Executors : pc'[f] = pc[f]
    BY <1>5
  <2>6. todo'[e] = todo[e] \ {c}
    BY <1>5 DEF TypeOK
  <2>7. Bounded'
    BY <2>4, <2>5, <2>6, <2>9 DEF Bounded
  <2>8. created' \in [Executors -> 0 .. Cardinality(Children)]
    <3>1. created' = [created EXCEPT ![e] = created'[e]]
      BY <1>5 DEF TypeOK
    <3> QED
      BY <2>4, <3>1 DEF TypeOK
  <2> QED
    BY <1>5, <2>7, <2>8 DEF LocalsOK, TypeOK
<1>6. ASSUME NEW e \in Executors, NEW o \in {"completed", "failed"}, Finish(e, o)
      PROVE  LocalsOK' /\ Bounded'
  <2>1. AfterChild(o) \in Labels \ {"idle", "discover"}
    BY DEF AfterChild, Labels
  <2>2. CASE job[e] = Parent
    BY <1>1, <1>6, <2>2 DEF Finish
  <2>3. CASE job[e] # Parent
    BY <1>2, <1>6, <2>1, <2>3 DEF Finish
  <2> QED
    BY <2>2, <2>3
<1>7. ASSUME NEW e \in Executors, ExecutorStep(e) PROVE LocalsOK' /\ Bounded'
  <2>1. CASE DiscoverNothing(e)
    BY <1>1, <2>1 DEF DiscoverNothing
  <2>2. CASE UpdateCount(e)
    <3>1. "wait" \in Labels \ {"idle", "discover"}
      BY DEF Labels
    <3> QED
      BY <1>1, <1>2, <2>2, <3>1 DEF UpdateCount
  <2>3. CASE StartWaiting(e)
    BY <1>1, <2>3 DEF StartWaiting
  <2>4. ASSUME NEW c \in Children, CreateChild(e, c) PROVE LocalsOK' /\ Bounded'
    BY <1>5, <2>4 DEF CreateChild
  <2>5. CASE FinishRefused(e)
    BY <1>1, <2>5 DEF FinishRefused
  <2>6. CASE IncrementCompleted(e)
    <3>1. "release" \in Labels \ {"idle", "discover"}
      BY DEF Labels
    <3> QED
      BY <1>1, <1>2, <2>6, <3>1 DEF IncrementCompleted
  <2>7. CASE TryReleaseParent(e)
    BY <1>1, <2>7 DEF TryReleaseParent
  <2>8. CASE FailParent(e)
    BY <1>1, <2>8 DEF FailParent
  <2> QED
    BY <1>3, <1>4, <1>6, <1>7, <2>1, <2>2, <2>3, <2>4, <2>5, <2>6, <2>7, <2>8
    DEF ExecutorStep
<1>8. ASSUME NEW e \in Executors, DiscoverFails(e) \/ Abandon(e)
      PROVE  LocalsOK' /\ Bounded'
  BY <1>1, <1>8 DEF DiscoverFails, Abandon
<1>9. ASSUME NEW e \in Executors, NEW c \in Children, CreateChildFails(e, c)
      PROVE  LocalsOK' /\ Bounded'
  BY <1>5, <1>9 DEF CreateChildFails
<1>10. ASSUME NEW j \in Jobs, HeartbeatExpires(j) \/ Pause(j) \/ Resume(j) \/ CancelJob(j)
       PROVE  UNCHANGED exVars
  BY <1>10 DEF HeartbeatExpires, Pause, Resume, CancelJob
<1>11. ASSUME CancelTree \/ PollNothing PROVE UNCHANGED exVars
  BY <1>11 DEF CancelTree, PollNothing, vars
<1> QED
  BY <1>0, <1>7, <1>8, <1>9, <1>10, <1>11 DEF Next

(* Every step keeps the job rows and the parent's counters in their types,  *)
(* and the counters within the CHECK constraint.                            *)
LEMMA RowsStep ==
    ASSUME TypeOK, Bounded, Checked, Next
    PROVE  RowsOK' /\ Checked'
<1> USE FiniteSets DEF RowsOK, TypeOK, Terminal, Jobs
<1>1. ASSUME NEW s \in {"absent", "pending", "running", "waiting_upstream",
                        "paused", "resuming"} \cup Terminal,
             NEW j \in Jobs,
             state' \in {state, [state EXCEPT ![j] = s]},
             \/ UNCHANGED stale
             \/ stale' = [stale EXCEPT ![j] = FALSE]
             \/ stale' = [stale EXCEPT ![j] = TRUE],
             UNCHANGED counters,
             faults' \in 0 .. MaxFaults, operations' \in 0 .. MaxOperations
      PROVE  RowsOK' /\ Checked'
  <2>1. state' \in [Jobs -> {"absent", "pending", "running", "waiting_upstream",
                             "paused", "resuming"} \cup Terminal]
    BY <1>1
  <2>2. stale' \in [Jobs -> BOOLEAN]
    BY <1>1
  <2> QED
    BY <1>1, <2>1, <2>2 DEF counters, Checked
<1>2. ASSUME UNCHANGED <<jobVars, counters>>,
             faults' \in 0 .. MaxFaults, operations' \in 0 .. MaxOperations
      PROVE  RowsOK' /\ Checked'
  BY <1>2 DEF jobVars, counters, Checked
<1>3. faults \in 0 .. MaxFaults /\ operations \in 0 .. MaxOperations
  OBVIOUS
<1>4. /\ Fault => faults' \in 0 .. MaxFaults
      /\ Operation => operations' \in 0 .. MaxOperations
  BY <1>3 DEF Fault, Operation
<1>5. ASSUME NEW e \in Executors, ExecutorStep(e) PROVE RowsOK' /\ Checked'
  <2>1. ASSUME NEW j \in Jobs, Claim(e, j) PROVE RowsOK' /\ Checked'
    BY <1>1, <1>3, <2>1 DEF Claim
  <2>2. CASE DiscoverNothing(e)
    BY <1>2, <1>3, <2>2 DEF DiscoverNothing
  <2>3. ASSUME NEW found \in Discoverable, DiscoverAssets(e, found)
        PROVE  RowsOK' /\ Checked'
    BY <1>2, <1>3, <2>3 DEF DiscoverAssets
  <2>4. CASE UpdateCount(e)
    <3>1. /\ UNCHANGED <<jobVars, completed_upstream_jobs, faults, operations>>
          /\ \/ UNCHANGED upstream_job_count
             \/ /\ completed_upstream_jobs <= created[e]
                /\ upstream_job_count' = created[e]
      BY <2>4 DEF UpdateCount, CountersAllowed
    <3>2. created[e] \in 0 .. Cardinality(Children)
      OBVIOUS
    <3>3. upstream_job_count' \in 0 .. Cardinality(Children) /\ Checked'
      BY <3>1, <3>2 DEF Checked
    <3> QED
      BY <1>3, <3>1, <3>3 DEF jobVars
  <2>5. CASE StartWaiting(e)
    BY <1>1, <1>3, <2>5 DEF StartWaiting, jobVars
  <2>6. ASSUME NEW c \in Children, CreateChild(e, c) PROVE RowsOK' /\ Checked'
    <3>1. c \in Jobs /\ state' \in {state, [state EXCEPT ![c] = "pending"]}
      BY <2>6 DEF CreateChild
    <3> QED
      BY <1>1, <1>3, <2>6, <3>1 DEF CreateChild
  <2>7. ASSUME NEW o \in {"completed", "failed"}, Finish(e, o)
        PROVE  RowsOK' /\ Checked'
    <3>1. job[e] \in Jobs
      OBVIOUS
    <3> QED
      BY <1>1, <1>3, <2>7, <3>1 DEF Finish
  <2>8. CASE FinishRefused(e)
    BY <1>2, <1>3, <2>8 DEF FinishRefused
  <2>9. CASE IncrementCompleted(e)
    <3>1. /\ UNCHANGED <<jobVars, upstream_job_count, faults, operations>>
          /\ \/ UNCHANGED completed_upstream_jobs
             \/ /\ completed_upstream_jobs + 1 <= upstream_job_count
                /\ completed_upstream_jobs' = completed_upstream_jobs + 1
      BY <2>9 DEF IncrementCompleted, CountersAllowed
    <3>2. completed_upstream_jobs' \in 0 .. Cardinality(Children) /\ Checked'
      BY <3>1 DEF Checked
    <3> QED
      BY <1>3, <3>1, <3>2 DEF jobVars
  <2>10. CASE TryReleaseParent(e)
    BY <1>1, <1>3, <2>10 DEF TryReleaseParent
  <2>11. CASE FailParent(e)
    BY <1>1, <1>3, <2>11 DEF FailParent
  <2> QED
    BY <1>5, <2>1, <2>2, <2>3, <2>4, <2>5, <2>6, <2>7, <2>8, <2>9, <2>10, <2>11
    DEF ExecutorStep
<1>6. ASSUME NEW e \in Executors, DiscoverFails(e) PROVE RowsOK' /\ Checked'
  BY <1>1, <1>3, <1>4, <1>6 DEF DiscoverFails, jobVars
<1>7. ASSUME NEW e \in Executors, Abandon(e) PROVE RowsOK' /\ Checked'
  BY <1>2, <1>3, <1>4, <1>7 DEF Abandon
<1>8. ASSUME NEW e \in Executors, NEW c \in Children, CreateChildFails(e, c)
      PROVE  RowsOK' /\ Checked'
  BY <1>2, <1>3, <1>4, <1>8 DEF CreateChildFails
<1>9. ASSUME NEW j \in Jobs, HeartbeatExpires(j) PROVE RowsOK' /\ Checked'
  BY <1>1, <1>3, <1>9 DEF HeartbeatExpires
<1>10. ASSUME NEW j \in Jobs, Pause(j) \/ Resume(j) \/ CancelJob(j)
       PROVE  RowsOK' /\ Checked'
  <2>1. faults' \in 0 .. MaxFaults /\ operations' \in 0 .. MaxOperations
    BY <1>3, <1>4, <1>10 DEF Pause, Resume, CancelJob
  <2> QED
    BY <1>1, <1>10, <2>1 DEF Pause, Resume, CancelJob
<1>11. CASE CancelTree
  <2>1. operations' \in 0 .. MaxOperations
    BY <1>4, <1>11 DEF CancelTree
  <2>2. state' \in [Jobs -> {"absent", "pending", "running", "waiting_upstream",
                             "paused", "resuming"} \cup Terminal]
    BY <1>11 DEF CancelTree
  <2> QED
    BY <1>3, <1>11, <2>1, <2>2 DEF CancelTree, counters, Checked
<1>12. CASE PollNothing
  BY <1>2, <1>3, <1>12 DEF PollNothing, vars
<1> QED
  BY <1>5, <1>6, <1>7, <1>8, <1>9, <1>10, <1>11, <1>12 DEF Next

-----------------------------------------------------------------------------
(* Counting.                                                                *)

\* A step that completes no child and has no completion to count.
Uneventful ==
    /\ completed_upstream_jobs' = completed_upstream_jobs
    /\ \A e \in Executors : pc'[e] = "increment" => pc[e] = "increment"
    /\ \A c \in Children : state[c] = "completed" => state'[c] = "completed"

(* An uneventful step keeps the count.                                      *)
LEMMA UneventfulKeeps ==
    ASSUME TypeOK, Counted, Uneventful
    PROVE  Counted'
<1>1. Incrementing \in SUBSET Executors /\ Incrementing' \in SUBSET Incrementing
  BY DEF Incrementing, Uneventful
<1>2. CompletedChildren' \in SUBSET Children
      /\ CompletedChildren \in SUBSET CompletedChildren'
  BY DEF CompletedChildren, Uneventful
<1>3. completed_upstream_jobs \in Nat
  BY FiniteSets DEF TypeOK
<1>4. completed_upstream_jobs + Cardinality(Incrementing')
        <= Cardinality(CompletedChildren')
  BY <1>1, <1>2, <1>3, CountMonotone DEF Counted
<1> QED
  BY <1>4 DEF Counted, Uneventful

(* A child that completes is one more completion that waits to be counted.  *)
LEMMA FinishCounts ==
    ASSUME TypeOK, Counted, NEW e \in Executors,
           NEW o \in {"completed", "failed"}, Finish(e, o)
    PROVE  Counted'
<1>1. state[job[e]] = "running" /\ state' = [state EXCEPT ![job[e]] = o]
      /\ completed_upstream_jobs' = completed_upstream_jobs /\ pc[e] = "work"
  BY DEF Finish, counters
<1>2. job[e] \in Jobs
  BY DEF TypeOK
<1>3. CASE job[e] = Parent \/ o = "failed"
  <2>1. \E l \in {"idle", "fail parent"} : Goto(e, l)
    BY <1>3 DEF Finish, Return, AfterChild
  <2>2. \A f \in Executors : pc'[f] = "increment" => pc[f] = "increment"
    BY <2>1 DEF Goto, TypeOK
  <2>3. \A c \in Children : state[c] = "completed" => state'[c] = "completed"
    BY <1>1, <1>2 DEF TypeOK, Jobs
  <2> QED
    BY <1>1, <2>2, <2>3, UneventfulKeeps DEF Uneventful
<1>4. CASE job[e] # Parent /\ o = "completed"
  <2>1. job[e] \in Children
    BY <1>2, <1>4 DEF Jobs
  <2>2. Goto(e, "increment")
    BY <1>4 DEF Finish, AfterChild
  <2>3. Incrementing' = Incrementing \cup {e} /\ e \notin Incrementing
    BY <1>1, <2>2 DEF Goto, Incrementing, TypeOK
  <2>4. CompletedChildren' = CompletedChildren \cup {job[e]}
        /\ job[e] \notin CompletedChildren
    BY <1>1, <1>2, <1>4, <2>1 DEF CompletedChildren, TypeOK, Jobs
  <2>5. IsFiniteSet(Incrementing) /\ IsFiniteSet(CompletedChildren)
    BY FiniteSets DEF Incrementing, CompletedChildren
  <2>6. Cardinality(Incrementing \cup {e}) = Cardinality(Incrementing) + 1
    BY <2>3, <2>5, FS_AddElement
  <2>7. Cardinality(CompletedChildren \cup {job[e]}) = Cardinality(CompletedChildren) + 1
    BY <2>4, <2>5, FS_AddElement
  <2>8. /\ Cardinality(Incrementing) \in Nat /\ Cardinality(CompletedChildren) \in Nat
        /\ completed_upstream_jobs \in Nat
    BY FiniteSets DEF Incrementing, CompletedChildren, TypeOK
  <2>9. completed_upstream_jobs + Cardinality(Incrementing \cup {e})
          <= Cardinality(CompletedChildren \cup {job[e]})
    BY <2>6, <2>7, <2>8 DEF Counted
  <2> QED
    BY <1>1, <2>3, <2>4, <2>9 DEF Counted
<1> QED
  BY <1>3, <1>4

(* Counting takes one completion off those that wait to be counted.         *)
LEMMA IncrementCounts ==
    ASSUME TypeOK, Counted, NEW e \in Executors, IncrementCompleted(e)
    PROVE  Counted'
<1>1. pc[e] = "increment" /\ state' = state
  BY DEF IncrementCompleted, jobVars
<1>2. \E l \in {"idle", "release"} : Goto(e, l)
  BY DEF IncrementCompleted, Return
<1>3. Incrementing' = Incrementing \ {e} /\ e \in Incrementing
  BY <1>1, <1>2 DEF Goto, Incrementing, TypeOK
<1>4. CompletedChildren' = CompletedChildren
  BY <1>1 DEF CompletedChildren
<1>5. IsFiniteSet(Incrementing)
  BY FiniteSets DEF Incrementing
<1>6. Cardinality(Incrementing \ {e}) = Cardinality(Incrementing) - 1
  BY <1>3, <1>5, FS_RemoveElement
<1>7. completed_upstream_jobs' \in {completed_upstream_jobs, completed_upstream_jobs + 1}
  BY DEF IncrementCompleted
<1>8. /\ Cardinality(Incrementing) \in Nat /\ Cardinality(CompletedChildren) \in Nat
      /\ completed_upstream_jobs \in Nat
  BY FiniteSets DEF Incrementing, CompletedChildren, TypeOK
<1>9. completed_upstream_jobs' + Cardinality(Incrementing \ {e})
        <= Cardinality(CompletedChildren)
  BY <1>6, <1>7, <1>8 DEF Counted
<1> QED
  BY <1>3, <1>4, <1>9 DEF Counted

(* Every step keeps the count.                                              *)
LEMMA CountedStep ==
    ASSUME TypeOK, Counted, [Next]_vars
    PROVE  Counted'
<1>0. ASSUME Uneventful PROVE Counted'
  BY <1>0, UneventfulKeeps
<1>1. ASSUME NEW e \in Executors, NEW l \in Labels \ {"increment"}, Goto(e, l),
             NEW j \in Jobs, NEW t, state[j] # "completed",
             state' \in {state, [state EXCEPT ![j] = t]},
             completed_upstream_jobs' = completed_upstream_jobs
      PROVE  Counted'
  <2>1. \A f \in Executors : pc'[f] = "increment" => pc[f] = "increment"
    BY <1>1 DEF Goto, TypeOK
  <2>2. \A c \in Children : state[c] = "completed" => state'[c] = "completed"
    BY <1>1 DEF TypeOK, Jobs
  <2> QED
    BY <1>0, <1>1, <2>1, <2>2 DEF Uneventful
<1>2. ASSUME NEW e \in Executors, NEW l \in Labels \ {"increment"}, Goto(e, l),
             state' = state, completed_upstream_jobs' = completed_upstream_jobs
      PROVE  Counted'
  BY <1>0, <1>2 DEF Goto, TypeOK, Uneventful
<1>3. Parent \in Jobs
  BY DEF Jobs
<1>4. {"idle", "discover", "create", "wait", "work"} \subseteq Labels \ {"increment"}
  BY DEF Labels
<1>5. ASSUME NEW e \in Executors, ExecutorStep(e) PROVE Counted'
  <2>1. ASSUME NEW j \in Jobs, Claim(e, j) PROVE Counted'
    <3>1. state[j] # "completed" /\ state' = [state EXCEPT ![j] = "running"]
          /\ completed_upstream_jobs' = completed_upstream_jobs
      BY <2>1 DEF Claim, Claimable, FirstPending, counters
    <3>2. \E l \in Labels \ {"increment"} : Goto(e, l)
      BY <1>4, <2>1 DEF Claim
    <3> QED
      BY <1>1, <3>1, <3>2
  <2>2. CASE DiscoverNothing(e)
    BY <1>2, <1>4, <2>2 DEF DiscoverNothing, Return, jobVars, counters
  <2>3. ASSUME NEW found \in Discoverable, DiscoverAssets(e, found) PROVE Counted'
    BY <1>2, <1>4, <2>3 DEF DiscoverAssets, jobVars, counters
  <2>4. CASE UpdateCount(e)
    BY <1>2, <1>4, <2>4 DEF UpdateCount, Return, jobVars, counters
  <2>5. CASE StartWaiting(e)
    <3>1. CASE state[Parent] = "running"
      BY <1>1, <1>3, <1>4, <2>5, <3>1 DEF StartWaiting, Return, counters
    <3>2. CASE state[Parent] # "running"
      BY <1>2, <1>4, <2>5, <3>2 DEF StartWaiting, Return, jobVars, counters
    <3> QED
      BY <3>1, <3>2
  <2>6. ASSUME NEW c \in Children, CreateChild(e, c) PROVE Counted'
    <3>1. \A d \in Children : state[d] = "completed" => state'[d] = "completed"
      BY <2>6 DEF CreateChild, TypeOK, Jobs
    <3>2. UNCHANGED <<pc, completed_upstream_jobs>>
      BY <2>6 DEF CreateChild, counters
    <3> QED
      BY <1>0, <3>1, <3>2 DEF Uneventful
  <2>7. ASSUME NEW o \in {"completed", "failed"}, Finish(e, o) PROVE Counted'
    BY <2>7, FinishCounts
  <2>8. CASE FinishRefused(e)
    BY <1>2, <1>4, <2>8 DEF FinishRefused, Return, jobVars, counters
  <2>9. CASE IncrementCompleted(e)
    BY <2>9, IncrementCounts
  <2>10. CASE TryReleaseParent(e)
    <3>1. CASE state[Parent] = "waiting_upstream"
      BY <1>1, <1>3, <1>4, <2>10, <3>1 DEF TryReleaseParent, Return, counters
    <3>2. CASE state[Parent] # "waiting_upstream"
      BY <1>2, <1>4, <2>10, <3>2 DEF TryReleaseParent, Return, counters
    <3> QED
      BY <3>1, <3>2
  <2>11. CASE FailParent(e)
    <3>1. CASE state[Parent] = "waiting_upstream"
      BY <1>1, <1>3, <1>4, <2>11, <3>1 DEF FailParent, Return, counters
    <3>2. CASE state[Parent] # "waiting_upstream"
      BY <1>2, <1>4, <2>11, <3>2 DEF FailParent, Return, counters
    <3> QED
      BY <3>1, <3>2
  <2> QED
    BY <1>5, <2>1, <2>2, <2>3, <2>4, <2>5, <2>6, <2>7, <2>8, <2>9, <2>10, <2>11
    DEF ExecutorStep
<1>6. ASSUME NEW e \in Executors, DiscoverFails(e) PROVE Counted'
  <2>1. CASE state[Parent] = "running"
    BY <1>1, <1>3, <1>4, <1>6, <2>1 DEF DiscoverFails, Return, counters
  <2>2. CASE state[Parent] # "running"
    BY <1>2, <1>4, <1>6, <2>2 DEF DiscoverFails, Return, jobVars, counters
  <2> QED
    BY <2>1, <2>2
<1>7. ASSUME NEW e \in Executors, Abandon(e) PROVE Counted'
  BY <1>2, <1>4, <1>7 DEF Abandon, Return, jobVars, counters
<1>8. ASSUME NEW e \in Executors, NEW c \in Children, CreateChildFails(e, c)
      PROVE  Counted'
  BY <1>0, <1>8 DEF CreateChildFails, Uneventful, jobVars, counters
<1>9. ASSUME NEW j \in Jobs, HeartbeatExpires(j) \/ Pause(j) \/ Resume(j) \/ CancelJob(j)
      PROVE  Counted'
  <2>1. UNCHANGED <<pc, completed_upstream_jobs>>
    BY <1>9 DEF HeartbeatExpires, Pause, Resume, CancelJob, counters, exVars
  <2>2. \A c \in Children : state[c] = "completed" => state'[c] = "completed"
    BY <1>9 DEF HeartbeatExpires, Pause, Resume, CancelJob, Cancellable, Terminal,
               TypeOK, Jobs
  <2> QED
    BY <1>0, <2>1, <2>2 DEF Uneventful
<1>10. CASE CancelTree
  <2>1. UNCHANGED <<pc, completed_upstream_jobs>>
    BY <1>10 DEF CancelTree, counters, exVars
  <2>2. \A c \in Children : state[c] = "completed" => state'[c] = "completed"
    BY <1>10 DEF CancelTree, Cancellable, Terminal, Jobs
  <2> QED
    BY <1>0, <2>1, <2>2 DEF Uneventful
<1>11. CASE UNCHANGED vars
  BY <1>0, <1>11 DEF vars, jobVars, counters, exVars, Uneventful
<1> QED
  BY <1>5, <1>6, <1>7, <1>8, <1>9, <1>10, <1>11 DEF Next, PollNothing

-----------------------------------------------------------------------------
(* Moves of the job rows.                                                   *)

\* One row makes a legal move, and the parent is released when it may be.
LegalMove(j, t) ==
    /\ state' = [state EXCEPT ![j] = t]
    /\ \/ \E s \in {"pending", "resuming"} : state[j] = s /\ t = "running"
       \/ state[j] = "running"
          /\ t \in {"running", "waiting_upstream", "completed", "failed", "paused"}
       \/ state[j] = "waiting_upstream" /\ t = "failed"
       \/ state[j] = "waiting_upstream" /\ t = "pending" /\ AllUpstreamComplete
       \/ state[j] = "absent" /\ t = "pending"
       \/ state[j] = "paused" /\ t = "resuming"
       \/ Cancellable(j) /\ t = "cancelled"

(* A step moves no row, one row, or cancels the whole tree.                 *)
LEMMA EveryMove ==
    ASSUME TypeOK, [Next]_vars
    PROVE  \/ UNCHANGED state
           \/ \E j \in Jobs, t \in Terminal \cup {"pending", "running",
                            "waiting_upstream", "paused", "resuming"} : LegalMove(j, t)
           \/ CancelTree
<1> DEFINE Moved == \E j \in Jobs, t \in Terminal \cup {"pending", "running",
                            "waiting_upstream", "paused", "resuming"} : LegalMove(j, t)
           Goal == UNCHANGED state \/ Moved \/ CancelTree
<1> SUFFICES Goal
  OBVIOUS
<1> USE DEF jobVars, LegalMove, Terminal
<1>1. Parent \in Jobs
  BY DEF Jobs
<1>2. ASSUME NEW e \in Executors, ExecutorStep(e) PROVE Goal
  <2>1. ASSUME NEW j \in Jobs, Claim(e, j) PROVE Goal
    BY <2>1 DEF Claim, Claimable, FirstPending
  <2>2. CASE DiscoverNothing(e)
    BY <2>2 DEF DiscoverNothing
  <2>3. ASSUME NEW found \in Discoverable, DiscoverAssets(e, found) PROVE Goal
    BY <2>3 DEF DiscoverAssets
  <2>4. CASE UpdateCount(e)
    BY <2>4 DEF UpdateCount
  <2>5. CASE StartWaiting(e)
    BY <1>1, <2>5 DEF StartWaiting
  <2>6. ASSUME NEW c \in Children, CreateChild(e, c) PROVE Goal
    <3>1. c \in Jobs
      BY DEF Jobs
    <3>2. CASE state[c] = "absent"
      <4>1. LegalMove(c, "pending")
        BY <2>6, <3>2 DEF CreateChild
      <4> QED
        BY <3>1, <4>1
    <3>3. CASE state[c] # "absent"
      BY <2>6, <3>3 DEF CreateChild
    <3> QED
      BY <3>2, <3>3
  <2>7. ASSUME NEW o \in {"completed", "failed"}, Finish(e, o) PROVE Goal
    <3>1. job[e] \in Jobs
      BY DEF TypeOK
    <3>2. LegalMove(job[e], o)
      BY <2>7 DEF Finish
    <3> QED
      BY <3>1, <3>2
  <2>8. CASE FinishRefused(e)
    BY <2>8 DEF FinishRefused
  <2>9. CASE IncrementCompleted(e)
    BY <2>9 DEF IncrementCompleted
  <2>10. CASE TryReleaseParent(e)
    BY <1>1, <2>10 DEF TryReleaseParent
  <2>11. CASE FailParent(e)
    BY <1>1, <2>11 DEF FailParent
  <2> QED
    BY <1>2, <2>1, <2>2, <2>3, <2>4, <2>5, <2>6, <2>7, <2>8, <2>9, <2>10, <2>11
    DEF ExecutorStep
<1>3. ASSUME NEW e \in Executors, DiscoverFails(e) PROVE Goal
  BY <1>1, <1>3 DEF DiscoverFails
<1>4. ASSUME NEW e \in Executors, Abandon(e) PROVE Goal
  BY <1>4 DEF Abandon
<1>5. ASSUME NEW e \in Executors, NEW c \in Children, CreateChildFails(e, c) PROVE Goal
  BY <1>5 DEF CreateChildFails
<1>6. ASSUME NEW j \in Jobs, HeartbeatExpires(j) PROVE Goal
  BY <1>6 DEF HeartbeatExpires
<1>7. ASSUME NEW j \in Jobs, Pause(j) PROVE Goal
  BY <1>7 DEF Pause
<1>8. ASSUME NEW j \in Jobs, Resume(j) PROVE Goal
  BY <1>8 DEF Resume
<1>9. ASSUME NEW j \in Jobs, CancelJob(j) PROVE Goal
  BY <1>9 DEF CancelJob
<1>10. CASE UNCHANGED vars
  BY <1>10 DEF vars
<1> QED
  BY <1>2, <1>3, <1>4, <1>5, <1>6, <1>7, <1>8, <1>9, <1>10 DEF Next, PollNothing

(* The release of the parent is justified by the children's rows.           *)
LEMMA ReleaseStep ==
    ASSUME TypeOK, Counted, [Next]_vars,
           state[Parent] = "waiting_upstream", state'[Parent] = "pending"
    PROVE  upstream_job_count > 0 /\ Cardinality(CompletedChildren) >= upstream_job_count
<1>1. ~CancelTree
  BY DEF CancelTree, Cancellable, Terminal, Jobs
<1>2. PICK j \in Jobs, t \in Terminal \cup {"pending", "running",
                   "waiting_upstream", "paused", "resuming"} : LegalMove(j, t)
  BY <1>1, EveryMove
<1>3. j = Parent /\ t = "pending"
  BY <1>2 DEF LegalMove, TypeOK, Jobs
<1>4. AllUpstreamComplete
  BY <1>2, <1>3 DEF LegalMove, Cancellable
<1>5. /\ completed_upstream_jobs \in Nat /\ upstream_job_count \in Nat
      /\ Cardinality(Incrementing) \in Nat /\ Cardinality(CompletedChildren) \in Nat
  BY FiniteSets DEF TypeOK, Incrementing, CompletedChildren
<1> QED
  BY <1>4, <1>5 DEF AllUpstreamComplete, Counted

(* Every row follows the transition table.                                  *)
LEMMA LifecycleStep ==
    ASSUME TypeOK, [Next]_vars, NEW k \in Jobs
    PROVE  Lifecycle(k)!Next \/ UNCHANGED Row(k)
<1> USE DEF Lifecycle!Next, Lifecycle!Transition, Lifecycle!ValidTransition,
            Lifecycle!JobStates, Terminal, Row
<1>1. CASE UNCHANGED state
  BY <1>1
<1>2. ASSUME NEW j \in Jobs, NEW t \in Terminal \cup {"pending", "running",
                   "waiting_upstream", "paused", "resuming"}, LegalMove(j, t)
      PROVE  Lifecycle(k)!Next \/ UNCHANGED Row(k)
  <2>1. CASE j # k
    <3>1. state'[k] = state[k]
      BY <1>2, <2>1 DEF LegalMove, TypeOK
    <3> QED
      BY <3>1
  <2>2. CASE j = k
    <3>1. state'[k] = t /\ state[k] \in {"absent", "pending", "running",
                 "waiting_upstream", "paused", "resuming"} \cup Terminal
      BY <1>2, <2>2 DEF LegalMove, TypeOK
    <3> QED
      BY <1>2, <2>2, <3>1 DEF LegalMove, Cancellable
  <2> QED
    BY <2>1, <2>2
<1>3. CASE CancelTree
  <2>1. state'[k] = IF Cancellable(k) THEN "cancelled" ELSE state[k]
    BY <1>3 DEF CancelTree
  <2>2. state[k] \in {"absent", "pending", "running",
                 "waiting_upstream", "paused", "resuming"} \cup Terminal
    BY DEF TypeOK
  <2> QED
    BY <2>1, <2>2 DEF Cancellable
<1> QED
  BY <1>1, <1>2, <1>3, EveryMove

-----------------------------------------------------------------------------
(* Theorems.                                                                *)

(* The inductive invariant.                                                 *)
THEOREM AlwaysIInv == Spec => []IInv
<1>1. IInv /\ [Next]_vars => IInv'
  <2> SUFFICES ASSUME IInv, [Next]_vars PROVE IInv'
    OBVIOUS
  <2>1. Counted'
    BY CountedStep DEF IInv
  <2>2. CASE Next
    <3>1. LocalsOK' /\ Bounded'
      BY <2>2, LocalsStep DEF IInv
    <3>2. RowsOK' /\ Checked'
      BY <2>2, RowsStep DEF IInv
    <3> QED
      BY <2>1, <3>1, <3>2 DEF IInv, LocalsOK, RowsOK, TypeOK
  <2>3. CASE UNCHANGED vars
    BY <2>1, <2>3 DEF IInv, TypeOK, Bounded, Checked, vars, jobVars, counters, exVars
  <2> QED
    BY <2>2, <2>3
<1> QED
  BY <1>1, InitIInv, PTL DEF Spec

(* Rows, counters and locals keep their types: no discovery, reclaim or     *)
(* duplicate creation counts more children than there are.                  *)
THEOREM TypeCorrect == Spec => []TypeOK
<1>1. IInv => TypeOK
  BY DEF IInv
<1> QED
  BY <1>1, AlwaysIInv, PTL

(* increment_completed_upstream never counts a child twice, nor one that    *)
(* did not complete.                                                        *)
THEOREM NoChildCountedTwice == Spec => []CountsOnlyCompleted
<1>1. IInv => CountsOnlyCompleted
  <2>1. /\ Cardinality(Incrementing) \in Nat /\ Cardinality(CompletedChildren) \in Nat
    BY FiniteSets DEF Incrementing, CompletedChildren
  <2> QED
    BY <2>1, FiniteSets DEF IInv, TypeOK, Counted, CountsOnlyCompleted
<1> QED
  BY <1>1, AlwaysIInv, PTL

(* try_transition_parent_to_pending releases the parent only when as many   *)
(* children are completed as it waits for.                                  *)
THEOREM ReleaseIsJustified == Spec => ReleasedWhenAllComplete
<1>1. IInv /\ [Next]_vars =>
        [(state[Parent] = "waiting_upstream" /\ state'[Parent] = "pending")
          => /\ upstream_job_count > 0
             /\ Cardinality(CompletedChildren) >= upstream_job_count]_vars
  BY ReleaseStep DEF IInv
<1> QED
  BY <1>1, AlwaysIInv, PTL DEF Spec, ReleasedWhenAllComplete

(* Every job of the tree implements the abstract lifecycle.                 *)
THEOREM TreeImplementsLifecycle == Spec => ObeysLifecycle
<1>1. Init => \A j \in Jobs : Lifecycle(j)!Init
  BY DEF Init, Lifecycle!Init, Row, Jobs
<1>2. IInv /\ [Next]_vars =>
        [\A j \in Jobs : Lifecycle(j)!Next \/ UNCHANGED Row(j)]_state
  BY LifecycleStep DEF IInv
<1> QED
  BY <1>1, <1>2, AlwaysIInv, PTL DEF Spec, ObeysLifecycle
=============================================================================

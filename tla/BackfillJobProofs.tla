-------------------------- MODULE BackfillJobProofs --------------------------
(***************************************************************************)
(* What holds of a backfill job for every number of partitions and         *)
(* executors, every retry budget and every bound on faults, pauses and     *)
(* requeues.                                                               *)
(***************************************************************************)
EXTENDS BackfillJob, TLAPS

\* PartitionExclusive, with the fact that a holder holds some partition.
Held == \A e \in Executors : Holding(e) =>
          /\ part[e] \in Partitions
          /\ row[part[e]] = "running"
          /\ attempt[e] = attempt_count[part[e]]
          /\ \A f \in Executors \ {e} : Holding(f) => part[f] # part[e]

IInv == TypeOK /\ Held

-----------------------------------------------------------------------------
(* The variables have their types, and nothing is held, initially.          *)
LEMMA InitIInv == Init => IInv
<1> SUFFICES ASSUME Init PROVE IInv
  OBVIOUS
<1>1. TypeOK
  BY JobAssumption DEF Init, TypeOK, RowStates, Labels, Terminal
<1>2. Held
  BY DEF Init, Held, Holding
<1> QED
  BY <1>1, <1>2 DEF IInv

(* Every step of the CLI, the operator, the environment and the executors   *)
(* keeps the types.                                                         *)
LEMMA TypeStep == IInv /\ [Next]_vars => TypeOK'
<1> SUFFICES ASSUME IInv, [Next]_vars PROVE TypeOK'
  OBVIOUS
<1> USE JobAssumption DEF IInv, RowStates, Labels, Terminal,
            jobVars, rowVars, exVars, envVars, counts, vars
<1>1. ASSUME NEW p \in Partitions, CreatePartition(p) PROVE TypeOK'
  BY <1>1 DEF CreatePartition, TypeOK
<1>2. ASSUME NEW p \in Partitions, UpstreamCompletes(p) PROVE TypeOK'
  BY <1>2 DEF UpstreamCompletes, TypeOK
<1>3. CASE Pause
  <2>1. checkpoint' \in Partitions \cup {NoKey}
    BY <1>3 DEF Pause, Coalesce, TypeOK
  <2>2. state' = "paused" /\ stale' = FALSE /\ pauses' \in Nat
    BY <1>3 DEF Pause, TypeOK
  <2>3. UNCHANGED <<completed_partitions, failed_partitions, rowVars, exVars,
                    ready, faults, requeues>>
    BY <1>3 DEF Pause
  <2> QED
    BY <2>1, <2>2, <2>3 DEF TypeOK
<1>4. CASE Resume
  BY <1>4 DEF Resume, TypeOK
<1>5. CASE Cancel
  BY <1>5 DEF Cancel, TypeOK
<1>6. CASE HeartbeatExpires
  BY <1>6 DEF HeartbeatExpires, TypeOK
<1>7. CASE PollNothing
  BY <1>7 DEF PollNothing, TypeOK
<1>8. ASSUME NEW e \in Executors, ClaimJob(e) PROVE TypeOK'
  BY <1>8 DEF ClaimJob, Goto, TypeOK
<1>9. ASSUME NEW e \in Executors, LoadCache(e) PROVE TypeOK'
  <2>1. cache' \in [Executors -> BOOLEAN]
    <3>1. CASE cache' = [cache EXCEPT ![e] = HasUpstream]
      BY <3>1 DEF TypeOK, JobAssumption
    <3>2. CASE cache' = [cache EXCEPT ![e] = FALSE]
      BY <3>2 DEF TypeOK
    <3> QED
      BY <1>9, <3>1, <3>2 DEF LoadCache
  <2>2. faults' \in Nat
    BY <1>9 DEF LoadCache, TypeOK
  <2> QED
    BY <1>9, <2>1, <2>2 DEF LoadCache, Goto, TypeOK
<1>10. ASSUME NEW e \in Executors, CheckCancelled(e) PROVE TypeOK'
  <2>1. CASE state = "cancelled"
    <3>1. Return(e) /\ UNCHANGED <<jobVars, rowVars, envVars>>
      BY <1>10, <2>1 DEF CheckCancelled
    <3> QED
      BY <3>1 DEF Return, DropPartition, Goto, TypeOK
  <2>2. CASE state # "cancelled"
    <3>1. Goto(e, "paused?")
        /\ UNCHANGED <<part, attempt, counts, cache, jobVars, rowVars, envVars>>
      BY <1>10, <2>2 DEF CheckCancelled
    <3> QED
      BY <3>1 DEF Goto, TypeOK
  <2> QED
    BY <2>1, <2>2
<1>11. ASSUME NEW e \in Executors, CheckPaused(e) PROVE TypeOK'
  <2>1. CASE state = "paused"
    <3>1. Return(e) /\ UNCHANGED <<jobVars, rowVars, envVars>>
      BY <1>11, <2>1 DEF CheckPaused
    <3> QED
      BY <3>1 DEF Return, DropPartition, Goto, TypeOK
  <2>2. CASE state # "paused"
    <3>1. Goto(e, "heartbeat")
        /\ UNCHANGED <<part, attempt, counts, cache, jobVars, rowVars, envVars>>
      BY <1>11, <2>2 DEF CheckPaused
    <3> QED
      BY <3>1 DEF Goto, TypeOK
  <2> QED
    BY <2>1, <2>2
<1>12. ASSUME NEW e \in Executors, UpdateHeartbeat(e) PROVE TypeOK'
  BY <1>12 DEF UpdateHeartbeat, Goto, TypeOK
<1>13. ASSUME NEW e \in Executors, ClaimPartition(e) PROVE TypeOK'
  BY <1>13 DEF ClaimPartition, NextPartition, Pending, Retryable, Goto, TypeOK
<1>14. ASSUME NEW e \in Executors, NothingToClaim(e) PROVE TypeOK'
  BY <1>14 DEF NothingToClaim, Goto, TypeOK
<1>15. ASSUME NEW e \in Executors, UpstreamReady(e) PROVE TypeOK'
  BY <1>15 DEF UpstreamReady, Goto, TypeOK
<1>16. ASSUME NEW e \in Executors, Requeue(e) PROVE TypeOK'
  <2>1. Holding(e) /\ row[part[e]] = "running" /\ part[e] \in Partitions
    BY <1>16 DEF Requeue, Holding, Held
  <2>2. row' \in [Partitions -> RowStates] /\ last_completed' \in Partitions \cup {NoKey}
    BY <1>16, <2>1 DEF Requeue, SetRow, TypeOK
  <2>3. /\ completed_count' \in [Executors -> Nat] /\ failed_count' \in [Executors -> Nat]
        /\ last_key' \in [Executors -> Partitions \cup {NoKey}]
    BY <1>16, <2>1 DEF Requeue, CountResult, CountCompleted, CountFailed, TypeOK
  <2>4. /\ requeues' \in Nat /\ Goto(e, "progress")
        /\ UNCHANGED <<jobVars, attempt_count, part, attempt, cache, ready, faults, pauses>>
    BY <1>16 DEF Requeue, TypeOK
  <2> QED
    BY <2>2, <2>3, <2>4 DEF Goto, TypeOK
<1>17. ASSUME NEW e \in Executors, ExecuteSucceeds(e) PROVE TypeOK'
  <2>1. Holding(e) /\ row[part[e]] = "running" /\ part[e] \in Partitions
    BY <1>17 DEF ExecuteSucceeds, Holding, Held
  <2>2. row' \in [Partitions -> RowStates] /\ last_completed' \in Partitions \cup {NoKey}
    BY <1>17, <2>1 DEF ExecuteSucceeds, SetRow, TypeOK
  <2>3. /\ completed_count' \in [Executors -> Nat] /\ failed_count' \in [Executors -> Nat]
        /\ last_key' \in [Executors -> Partitions \cup {NoKey}]
    BY <1>17, <2>1 DEF ExecuteSucceeds, CountResult, CountCompleted, CountFailed, TypeOK
  <2> QED
    BY <1>17, <2>2, <2>3 DEF ExecuteSucceeds, Goto, TypeOK
<1>18. ASSUME NEW e \in Executors, ExecuteFails(e) PROVE TypeOK'
  <2>1. Holding(e) /\ row[part[e]] = "running" /\ part[e] \in Partitions
    BY <1>18 DEF ExecuteFails, Holding, Held
  <2>2. row' \in [Partitions -> RowStates] /\ last_completed' \in Partitions \cup {NoKey}
    BY <1>18, <2>1 DEF ExecuteFails, SetRow, TypeOK
  <2>3. /\ completed_count' \in [Executors -> Nat] /\ failed_count' \in [Executors -> Nat]
        /\ last_key' \in [Executors -> Partitions \cup {NoKey}]
    BY <1>18, <2>1 DEF ExecuteFails, CountResult, CountCompleted, CountFailed, TypeOK
  <2> QED
    BY <1>18, <2>2, <2>3 DEF ExecuteFails, Goto, TypeOK
<1>19. ASSUME NEW e \in Executors, UpdateProgress(e) PROVE TypeOK'
  <2>1. /\ completed_partitions' \in Nat /\ failed_partitions' \in Nat
        /\ checkpoint' \in Partitions \cup {NoKey} /\ stale' \in BOOLEAN
    <3>1. /\ completed_count[e] \in Nat /\ failed_count[e] \in Nat
          /\ last_key[e] \in Partitions \cup {NoKey}
          /\ completed_partitions \in Nat /\ failed_partitions \in Nat
          /\ checkpoint \in Partitions \cup {NoKey} /\ stale \in BOOLEAN
      BY DEF TypeOK
    <3>2. CASE state = "running"
      BY <1>19, <3>1, <3>2 DEF UpdateProgress, Coalesce
    <3>3. CASE state # "running"
      BY <1>19, <3>1, <3>3 DEF UpdateProgress
    <3> QED
      BY <3>2, <3>3
  <2>2. /\ Goto(e, "cancelled?") /\ DropPartition(e)
        /\ UNCHANGED <<state, rowVars, counts, cache, envVars>>
    BY <1>19 DEF UpdateProgress
  <2> QED
    BY <2>1, <2>2 DEF DropPartition, Goto, TypeOK
<1>20. ASSUME NEW e \in Executors, Finish(e) PROVE TypeOK'
  BY <1>20 DEF Finish, Return, DropPartition, Goto, FinalState, TypeOK
<1>21. ASSUME NEW e \in Executors, ReadinessError(e) PROVE TypeOK'
  BY <1>21 DEF ReadinessError, CountFailed, Fault, Goto, TypeOK
<1>22. ASSUME NEW e \in Executors, RecordError(e) PROVE TypeOK'
  BY <1>22 DEF RecordError, SetRow, CountFailed, Fault, Goto, TypeOK
<1>23. ASSUME NEW e \in Executors, Abandon(e) PROVE TypeOK'
  BY <1>23 DEF Abandon, Return, DropPartition, Goto, Fault, TypeOK
<1>24. CASE UNCHANGED vars
  BY <1>24 DEF TypeOK
<1> QED
  BY <1>1, <1>2, <1>3, <1>4, <1>5, <1>6, <1>7, <1>8, <1>9, <1>10, <1>11, <1>12, <1>13,
     <1>14, <1>15, <1>16, <1>17, <1>18, <1>19, <1>20, <1>21, <1>22, <1>23, <1>24 DEF Next,
     ExecutorStep

(* No step gives a partition that is being worked on to a second executor,  *)
(* or takes its row out of 'running' behind the holder's back.              *)
LEMMA HeldStep == IInv /\ [Next]_vars => Held'
<1> SUFFICES ASSUME IInv, [Next]_vars PROVE Held'
  OBVIOUS
<1> USE DEF IInv,
            jobVars, rowVars, exVars, envVars, counts, vars
<1>1. ASSUME NEW p \in Partitions, CreatePartition(p) PROVE Held'
  BY <1>1 DEF CreatePartition, Held, TypeOK, Holding
<1>2. ASSUME NEW p \in Partitions, UpstreamCompletes(p) PROVE Held'
  BY <1>2 DEF UpstreamCompletes, Held, TypeOK, Holding
<1>3. CASE Pause
  BY <1>3 DEF Pause, Coalesce, Held, TypeOK, Holding
<1>4. CASE Resume
  BY <1>4 DEF Resume, Held, TypeOK, Holding
<1>5. CASE Cancel
  BY <1>5 DEF Cancel, Held, TypeOK, Holding
<1>6. CASE HeartbeatExpires
  BY <1>6 DEF HeartbeatExpires, Held, TypeOK, Holding
<1>7. CASE PollNothing
  BY <1>7 DEF PollNothing, Held, TypeOK, Holding
<1>8. ASSUME NEW e \in Executors, ClaimJob(e) PROVE Held'
  BY <1>8 DEF ClaimJob, Goto, Held, TypeOK, Holding
<1>9. ASSUME NEW e \in Executors, LoadCache(e) PROVE Held'
  BY <1>9 DEF LoadCache, Goto, Held, TypeOK, Holding
<1>10. ASSUME NEW e \in Executors, CheckCancelled(e) PROVE Held'
  BY <1>10 DEF CheckCancelled, Return, DropPartition, Goto, Held, TypeOK, Holding
<1>11. ASSUME NEW e \in Executors, CheckPaused(e) PROVE Held'
  BY <1>11 DEF CheckPaused, Return, DropPartition, Goto, Held, TypeOK, Holding
<1>12. ASSUME NEW e \in Executors, UpdateHeartbeat(e) PROVE Held'
  BY <1>12 DEF UpdateHeartbeat, Goto, Held, TypeOK, Holding
<1>13. ASSUME NEW e \in Executors, ClaimPartition(e) PROVE Held'
  BY <1>13 DEF ClaimPartition, NextPartition, Pending, Retryable, Goto, Held, TypeOK,
     Holding
<1>14. ASSUME NEW e \in Executors, NothingToClaim(e) PROVE Held'
  BY <1>14 DEF NothingToClaim, Goto, Held, TypeOK, Holding
<1>15. ASSUME NEW e \in Executors, UpstreamReady(e) PROVE Held'
  BY <1>15 DEF UpstreamReady, Goto, Held, TypeOK, Holding
<1>16. ASSUME NEW e \in Executors, Requeue(e) PROVE Held'
  BY <1>16 DEF Requeue, SetRow, CountResult, CountCompleted, CountFailed, Goto, Held,
     TypeOK, Holding
<1>17. ASSUME NEW e \in Executors, ExecuteSucceeds(e) PROVE Held'
  BY <1>17 DEF ExecuteSucceeds, SetRow, CountResult, CountCompleted, CountFailed, Goto,
     Held, TypeOK, Holding
<1>18. ASSUME NEW e \in Executors, ExecuteFails(e) PROVE Held'
  BY <1>18 DEF ExecuteFails, SetRow, CountFailed, Goto, Held, TypeOK, Holding
<1>19. ASSUME NEW e \in Executors, UpdateProgress(e) PROVE Held'
  BY <1>19 DEF UpdateProgress, DropPartition, Goto, Coalesce, Held, TypeOK, Holding
<1>20. ASSUME NEW e \in Executors, Finish(e) PROVE Held'
  BY <1>20 DEF Finish, Return, DropPartition, Goto, FinalState, Held, TypeOK, Holding
<1>21. ASSUME NEW e \in Executors, ReadinessError(e) PROVE Held'
  BY <1>21 DEF ReadinessError, CountFailed, Fault, Goto, Held, TypeOK, Holding
<1>22. ASSUME NEW e \in Executors, RecordError(e) PROVE Held'
  BY <1>22 DEF RecordError, SetRow, CountFailed, Fault, Goto, Held, TypeOK, Holding
<1>23. ASSUME NEW e \in Executors, Abandon(e) PROVE Held'
  BY <1>23 DEF Abandon, Return, DropPartition, Goto, Fault, Held, TypeOK, Holding
<1>24. CASE UNCHANGED vars
  BY <1>24 DEF Held, TypeOK, Holding
<1> QED
  BY <1>1, <1>2, <1>3, <1>4, <1>5, <1>6, <1>7, <1>8, <1>9, <1>10, <1>11, <1>12, <1>13,
     <1>14, <1>15, <1>16, <1>17, <1>18, <1>19, <1>20, <1>21, <1>22, <1>23, <1>24 DEF Next,
     ExecutorStep

(* The types and the holders together are inductive.                        *)
LEMMA StepIInv == IInv /\ [Next]_vars => IInv'
  BY TypeStep, HeldStep DEF IInv

(* So they hold in every reachable state.                                   *)
LEMMA AlwaysIInv == Spec => []IInv
  BY InitIInv, StepIInv, PTL DEF Spec

(* The job row, the partition rows and every executor's locals keep their   *)
(* types, whatever the number of executors.                                 *)
THEOREM TypeCorrect == Spec => []TypeOK
  BY AlwaysIInv, PTL DEF IInv

(* Claims are exclusive: a partition being executed is held by exactly one  *)
(* executor and its row is 'running', although any number of executors may  *)
(* be processing the same job.                                              *)
THEOREM ClaimsAreExclusive == Spec => []PartitionExclusive
<1>1. IInv => PartitionExclusive
  BY DEF IInv, Held, PartitionExclusive
<1> QED
  BY <1>1, AlwaysIInv, PTL

-----------------------------------------------------------------------------
(* No step takes a partition out of 'completed': claims and cancellation    *)
(* look for other states, and an outcome is written to a 'running' row.     *)
LEMMA CompletedStep ==
  ASSUME IInv, [Next]_vars, NEW q \in Partitions, row[q] = "completed"
  PROVE  row'[q] = "completed"
<1> USE DEF IInv, TypeOK,
            jobVars, rowVars, exVars, envVars, counts, vars
<1>1. ASSUME NEW p \in Partitions, CreatePartition(p) PROVE row'[q] = "completed"
  BY <1>1 DEF CreatePartition
<1>2. ASSUME NEW p \in Partitions, UpstreamCompletes(p) PROVE row'[q] = "completed"
  BY <1>2 DEF UpstreamCompletes
<1>3. CASE Pause
  BY <1>3 DEF Pause, Coalesce
<1>4. CASE Resume
  BY <1>4 DEF Resume
<1>5. CASE Cancel
  BY <1>5 DEF Cancel
<1>6. CASE HeartbeatExpires
  BY <1>6 DEF HeartbeatExpires
<1>7. CASE PollNothing
  BY <1>7 DEF PollNothing
<1>8. ASSUME NEW e \in Executors, ClaimJob(e) PROVE row'[q] = "completed"
  BY <1>8 DEF ClaimJob, Goto
<1>9. ASSUME NEW e \in Executors, LoadCache(e) PROVE row'[q] = "completed"
  BY <1>9 DEF LoadCache, Goto
<1>10. ASSUME NEW e \in Executors, CheckCancelled(e) PROVE row'[q] = "completed"
  BY <1>10 DEF CheckCancelled, Return, DropPartition, Goto
<1>11. ASSUME NEW e \in Executors, CheckPaused(e) PROVE row'[q] = "completed"
  BY <1>11 DEF CheckPaused, Return, DropPartition, Goto
<1>12. ASSUME NEW e \in Executors, UpdateHeartbeat(e) PROVE row'[q] = "completed"
  BY <1>12 DEF UpdateHeartbeat, Goto
<1>13. ASSUME NEW e \in Executors, ClaimPartition(e) PROVE row'[q] = "completed"
  BY <1>13 DEF ClaimPartition, NextPartition, Pending, Retryable, Goto
<1>14. ASSUME NEW e \in Executors, NothingToClaim(e) PROVE row'[q] = "completed"
  BY <1>14 DEF NothingToClaim, Goto
<1>15. ASSUME NEW e \in Executors, UpstreamReady(e) PROVE row'[q] = "completed"
  BY <1>15 DEF UpstreamReady, Goto
<1>16. ASSUME NEW e \in Executors, Requeue(e) PROVE row'[q] = "completed"
  BY <1>16 DEF Requeue, SetRow, CountResult, CountCompleted, CountFailed, Goto
<1>17. ASSUME NEW e \in Executors, ExecuteSucceeds(e) PROVE row'[q] = "completed"
  BY <1>17 DEF ExecuteSucceeds, SetRow, CountResult, CountCompleted, CountFailed, Goto
<1>18. ASSUME NEW e \in Executors, ExecuteFails(e) PROVE row'[q] = "completed"
  BY <1>18 DEF ExecuteFails, SetRow, CountFailed, Goto
<1>19. ASSUME NEW e \in Executors, UpdateProgress(e) PROVE row'[q] = "completed"
  BY <1>19 DEF UpdateProgress, DropPartition, Goto, Coalesce
<1>20. ASSUME NEW e \in Executors, Finish(e) PROVE row'[q] = "completed"
  BY <1>20 DEF Finish, Return, DropPartition, Goto, FinalState
<1>21. ASSUME NEW e \in Executors, ReadinessError(e) PROVE row'[q] = "completed"
  BY <1>21 DEF ReadinessError, CountFailed, Fault, Goto
<1>22. ASSUME NEW e \in Executors, RecordError(e) PROVE row'[q] = "completed"
  BY <1>22 DEF RecordError, SetRow, CountFailed, Fault, Goto
<1>23. ASSUME NEW e \in Executors, Abandon(e) PROVE row'[q] = "completed"
  BY <1>23 DEF Abandon, Return, DropPartition, Goto, Fault
<1>24. CASE UNCHANGED vars
  BY <1>24 DEF vars
<1> QED
  BY <1>1, <1>2, <1>3, <1>4, <1>5, <1>6, <1>7, <1>8, <1>9, <1>10, <1>11, <1>12, <1>13,
     <1>14, <1>15, <1>16, <1>17, <1>18, <1>19, <1>20, <1>21, <1>22, <1>23, <1>24 DEF Next,
     ExecutorStep

(* A completed partition is never taken back, retried or skipped.           *)
THEOREM CompletedIsFinal == Spec => CompletedRowsStay
<1>1. IInv /\ [Next]_vars =>
        [\A p \in Partitions : row[p] = "completed" => row'[p] = "completed"]_vars
  BY CompletedStep
<1> QED
  BY <1>1, AlwaysIInv, PTL DEF Spec, CompletedRowsStay

-----------------------------------------------------------------------------
(* Every write of the job's state follows the transition table.             *)
LEMMA LifecycleStep == IInv /\ [Next]_vars => [Lifecycle!Next]_state
<1> SUFFICES ASSUME IInv, [Next]_vars PROVE [Lifecycle!Next]_state
  OBVIOUS
<1> USE DEF IInv, TypeOK, Lifecycle!Next, Lifecycle!Transition, Lifecycle!ValidTransition,
            Lifecycle!JobStates, Terminal,
            jobVars, rowVars, exVars, envVars, counts, vars
<1>1. ASSUME NEW p \in Partitions, CreatePartition(p) PROVE [Lifecycle!Next]_state
  BY <1>1 DEF CreatePartition
<1>2. ASSUME NEW p \in Partitions, UpstreamCompletes(p) PROVE [Lifecycle!Next]_state
  BY <1>2 DEF UpstreamCompletes
<1>3. CASE Pause
  BY <1>3 DEF Pause, Coalesce
<1>4. CASE Resume
  BY <1>4 DEF Resume
<1>5. CASE Cancel
  BY <1>5 DEF Cancel
<1>6. CASE HeartbeatExpires
  BY <1>6 DEF HeartbeatExpires
<1>7. CASE PollNothing
  BY <1>7 DEF PollNothing
<1>8. ASSUME NEW e \in Executors, ClaimJob(e) PROVE [Lifecycle!Next]_state
  BY <1>8 DEF ClaimJob, Claimable
<1>9. ASSUME NEW e \in Executors, LoadCache(e) PROVE [Lifecycle!Next]_state
  BY <1>9 DEF LoadCache, Goto
<1>10. ASSUME NEW e \in Executors, CheckCancelled(e) PROVE [Lifecycle!Next]_state
  BY <1>10 DEF CheckCancelled, Return, DropPartition, Goto
<1>11. ASSUME NEW e \in Executors, CheckPaused(e) PROVE [Lifecycle!Next]_state
  BY <1>11 DEF CheckPaused, Return, DropPartition, Goto
<1>12. ASSUME NEW e \in Executors, UpdateHeartbeat(e) PROVE [Lifecycle!Next]_state
  BY <1>12 DEF UpdateHeartbeat, Goto
<1>13. ASSUME NEW e \in Executors, ClaimPartition(e) PROVE [Lifecycle!Next]_state
  BY <1>13 DEF ClaimPartition, NextPartition, Pending, Retryable, Goto
<1>14. ASSUME NEW e \in Executors, NothingToClaim(e) PROVE [Lifecycle!Next]_state
  BY <1>14 DEF NothingToClaim, Goto
<1>15. ASSUME NEW e \in Executors, UpstreamReady(e) PROVE [Lifecycle!Next]_state
  BY <1>15 DEF UpstreamReady, Goto
<1>16. ASSUME NEW e \in Executors, Requeue(e) PROVE [Lifecycle!Next]_state
  BY <1>16 DEF Requeue, SetRow, CountResult, CountCompleted, CountFailed, Goto
<1>17. ASSUME NEW e \in Executors, ExecuteSucceeds(e) PROVE [Lifecycle!Next]_state
  BY <1>17 DEF ExecuteSucceeds, SetRow, CountResult, CountCompleted, CountFailed, Goto
<1>18. ASSUME NEW e \in Executors, ExecuteFails(e) PROVE [Lifecycle!Next]_state
  BY <1>18 DEF ExecuteFails, SetRow, CountFailed, Goto
<1>19. ASSUME NEW e \in Executors, UpdateProgress(e) PROVE [Lifecycle!Next]_state
  BY <1>19 DEF UpdateProgress, DropPartition, Goto, Coalesce
<1>20. ASSUME NEW e \in Executors, Finish(e) PROVE [Lifecycle!Next]_state
  BY <1>20 DEF Finish, Return, DropPartition, Goto, FinalState
<1>21. ASSUME NEW e \in Executors, ReadinessError(e) PROVE [Lifecycle!Next]_state
  BY <1>21 DEF ReadinessError, CountFailed, Fault, Goto
<1>22. ASSUME NEW e \in Executors, RecordError(e) PROVE [Lifecycle!Next]_state
  BY <1>22 DEF RecordError, SetRow, CountFailed, Fault, Goto
<1>23. ASSUME NEW e \in Executors, Abandon(e) PROVE [Lifecycle!Next]_state
  BY <1>23 DEF Abandon, Return, DropPartition, Goto, Fault
<1>24. CASE UNCHANGED vars
  BY <1>24 DEF vars
<1> QED
  BY <1>1, <1>2, <1>3, <1>4, <1>5, <1>6, <1>7, <1>8, <1>9, <1>10, <1>11, <1>12, <1>13,
     <1>14, <1>15, <1>16, <1>17, <1>18, <1>19, <1>20, <1>21, <1>22, <1>23, <1>24 DEF Next,
     ExecutorStep

(* The job row implements the abstract lifecycle, whose only constraint is  *)
(* validate_backfill_state_transition's table.                              *)
THEOREM ImplementsLifecycle == Spec => ObeysLifecycle
<1>1. Init => Lifecycle!Init
  BY DEF Init, Lifecycle!Init
<1> QED
  BY <1>1, LifecycleStep, AlwaysIInv, PTL DEF Spec, ObeysLifecycle, Lifecycle!Spec
=============================================================================

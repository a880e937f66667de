------------------------ MODULE BackfillProgressProofs ------------------------
(***************************************************************************)
(* The progress a job reports when its asset has no upstream dependencies: *)
(* the counters never exceed the partitions there are, and the checkpoint  *)
(* is a completed partition.  Both fail with upstream dependencies, where  *)
(* a requeued partition is counted as completed.  And whatever the         *)
(* dependencies, a job that reports failures has a partition without       *)
(* attempts left, and a partition is executed only when its upstream is    *)
(* ready.                                                                  *)
(***************************************************************************)
EXTENDS BackfillJobProofs, FiniteSetTheorems

\* No upstream dependency is ever looked up.
Uncached == \A e \in Executors : cache[e] = FALSE

\* A row that was never claimed has spent no attempt.
Fresh == \A p \in Partitions :
           row[p] \in {"absent", "pending", "skipped"} => attempt_count[p] = 0

Done(k) == k # NoKey => k \in Partitions /\ row[k] = "completed"

\* Every key that can become the checkpoint is completed.
CheckpointDone ==
    /\ Done(checkpoint) /\ Done(last_completed)
    /\ \A e \in Executors : Done(last_key[e])

PInv == IInv /\ Uncached /\ Fresh /\ CheckpointDone

\* The partitions that are finished for good and that nobody is working on.
Spent == {p \in Partitions :
            /\ row[p] = "completed" \/ attempt_count[p] >= MaxRetries
            /\ \A e \in Executors : Holding(e) => part[e] # p}

Counted(e) == completed_count[e] + failed_count[e]
Reported == completed_partitions + failed_partitions

\* Whatever has been counted, by anyone, is spent.
CountsSpent ==
    /\ Reported <= Cardinality(Spent)
    /\ \A e \in Executors : Counted(e) <= Cardinality(Spent)

-----------------------------------------------------------------------------
(* Before the first claim nothing is cached, attempted or completed.        *)
LEMMA InitPInv == Init => PInv
  BY InitIInv DEF Init, PInv, Uncached, Fresh, CheckpointDone, Done

(* Without upstream dependencies no step requeues a partition, so a key is  *)
(* remembered as last completed only when its row was set to completed.     *)
LEMMA PInvStep ==
  ASSUME ~HasUpstream, PInv, [Next]_vars
  PROVE  Uncached' /\ Fresh' /\ CheckpointDone'
<1> DEFINE Goal == Uncached /\ Fresh /\ CheckpointDone
<1> USE JobAssumption DEF PInv, IInv, TypeOK, Held, Holding, Done, Uncached, Fresh,
            CheckpointDone,
            jobVars, rowVars, exVars, envVars, counts, vars
<1>1. ASSUME NEW p \in Partitions, CreatePartition(p) PROVE Goal'
  BY <1>1 DEF CreatePartition
<1>2. ASSUME NEW p \in Partitions, UpstreamCompletes(p) PROVE Goal'
  BY <1>2 DEF UpstreamCompletes
<1>3. CASE Pause
  BY <1>3 DEF Pause, Coalesce
<1>4. CASE Resume
  BY <1>4 DEF Resume
<1>5. CASE Cancel
  BY <1>5 DEF Cancel
<1>6. CASE HeartbeatExpires
  BY <1>6 DEF HeartbeatExpires
<1>7. CASE PollNothing
  BY <1>7 DEF PollNothing
<1>8. ASSUME NEW e \in Executors, ClaimJob(e) PROVE Goal'
  BY <1>8 DEF ClaimJob, Goto
<1>9. ASSUME NEW e \in Executors, LoadCache(e) PROVE Goal'
  BY <1>9 DEF LoadCache, Goto
<1>10. ASSUME NEW e \in Executors, CheckCancelled(e) PROVE Goal'
  BY <1>10 DEF CheckCancelled, Return, DropPartition, Goto
<1>11. ASSUME NEW e \in Executors, CheckPaused(e) PROVE Goal'
  BY <1>11 DEF CheckPaused, Return, DropPartition, Goto
<1>12. ASSUME NEW e \in Executors, UpdateHeartbeat(e) PROVE Goal'
  BY <1>12 DEF UpdateHeartbeat, Goto
<1>13. ASSUME NEW e \in Executors, ClaimPartition(e) PROVE Goal'
  BY <1>13 DEF ClaimPartition, NextPartition, Pending, Retryable, Goto
<1>14. ASSUME NEW e \in Executors, NothingToClaim(e) PROVE Goal'
  BY <1>14 DEF NothingToClaim, Goto
<1>15. ASSUME NEW e \in Executors, UpstreamReady(e) PROVE Goal'
  BY <1>15 DEF UpstreamReady, Goto
<1>16. ASSUME NEW e \in Executors, Requeue(e) PROVE Goal'
  BY <1>16 DEF Requeue, SetRow, CountResult, CountCompleted, CountFailed, Goto
<1>17. ASSUME NEW e \in Executors, ExecuteSucceeds(e) PROVE Goal'
  BY <1>17 DEF ExecuteSucceeds, SetRow, CountResult, CountCompleted, CountFailed, Goto
<1>18. ASSUME NEW e \in Executors, ExecuteFails(e) PROVE Goal'
  BY <1>18 DEF ExecuteFails, SetRow, CountFailed, Goto
<1>19. ASSUME NEW e \in Executors, UpdateProgress(e) PROVE Goal'
  BY <1>19 DEF UpdateProgress, DropPartition, Goto, Coalesce
<1>20. ASSUME NEW e \in Executors, Finish(e) PROVE Goal'
  BY <1>20 DEF Finish, Return, DropPartition, Goto, FinalState
<1>21. ASSUME NEW e \in Executors, ReadinessError(e) PROVE Goal'
  BY <1>21 DEF ReadinessError, CountFailed, Fault, Goto
<1>22. ASSUME NEW e \in Executors, RecordError(e) PROVE Goal'
  BY <1>22 DEF RecordError, SetRow, CountFailed, Fault, Goto
<1>23. ASSUME NEW e \in Executors, Abandon(e) PROVE Goal'
  BY <1>23 DEF Abandon, Return, DropPartition, Goto, Fault
<1>24. CASE UNCHANGED vars
  BY <1>24
<1> QED
  BY <1>1, <1>2, <1>3, <1>4, <1>5, <1>6, <1>7, <1>8, <1>9, <1>10, <1>11, <1>12, <1>13,
     <1>14, <1>15, <1>16, <1>17, <1>18, <1>19, <1>20, <1>21, <1>22, <1>23, <1>24 DEF Next,
     ExecutorStep

(* With the types and the holders that makes an inductive invariant.        *)
LEMMA StepPInv == ~HasUpstream /\ PInv /\ [Next]_vars => PInv'
  BY PInvStep, StepIInv DEF PInv

-----------------------------------------------------------------------------
(* What is spent stays spent: a claim takes a partition that is neither     *)
(* completed nor out of attempts.                                           *)
LEMMA SpentGrows ==
  ASSUME ~HasUpstream, PInv, [Next]_vars
  PROVE  Spent \subseteq Spent'
<1> SUFFICES ASSUME NEW q \in Spent PROVE q \in Spent'
  OBVIOUS
<1>0. q \in Partitions
  BY DEF Spent
<1> USE <1>0, JobAssumption DEF PInv, IInv, TypeOK, Held, Holding, Uncached, Fresh, Spent,
            jobVars, rowVars, exVars, envVars, counts, vars
<1>1. ASSUME NEW p \in Partitions, CreatePartition(p) PROVE q \in Spent'
  BY <1>1 DEF CreatePartition
<1>2. ASSUME NEW p \in Partitions, UpstreamCompletes(p) PROVE q \in Spent'
  BY <1>2 DEF UpstreamCompletes
<1>3. CASE Pause
  BY <1>3 DEF Pause, Coalesce
<1>4. CASE Resume
  BY <1>4 DEF Resume
<1>5. CASE Cancel
  BY <1>5 DEF Cancel
<1>6. CASE HeartbeatExpires
  BY <1>6 DEF HeartbeatExpires
<1>7. CASE PollNothing
  BY <1>7 DEF PollNothing
<1>8. ASSUME NEW e \in Executors, ClaimJob(e) PROVE q \in Spent'
  BY <1>8 DEF ClaimJob, Goto
<1>9. ASSUME NEW e \in Executors, LoadCache(e) PROVE q \in Spent'
  BY <1>9 DEF LoadCache, Goto
<1>10. ASSUME NEW e \in Executors, CheckCancelled(e) PROVE q \in Spent'
  BY <1>10 DEF CheckCancelled, Return, DropPartition, Goto
<1>11. ASSUME NEW e \in Executors, CheckPaused(e) PROVE q \in Spent'
  BY <1>11 DEF CheckPaused, Return, DropPartition, Goto
<1>12. ASSUME NEW e \in Executors, UpdateHeartbeat(e) PROVE q \in Spent'
  BY <1>12 DEF UpdateHeartbeat, Goto
<1>13. ASSUME NEW e \in Executors, ClaimPartition(e) PROVE q \in Spent'
  BY <1>13 DEF ClaimPartition, NextPartition, Pending, Retryable, Goto
<1>14. ASSUME NEW e \in Executors, NothingToClaim(e) PROVE q \in Spent'
  BY <1>14 DEF NothingToClaim, Goto
<1>15. ASSUME NEW e \in Executors, UpstreamReady(e) PROVE q \in Spent'
  BY <1>15 DEF UpstreamReady, Goto
<1>16. ASSUME NEW e \in Executors, Requeue(e) PROVE q \in Spent'
  BY <1>16 DEF Requeue, SetRow, CountResult, CountCompleted, CountFailed, Goto
<1>17. ASSUME NEW e \in Executors, ExecuteSucceeds(e) PROVE q \in Spent'
  BY <1>17 DEF ExecuteSucceeds, SetRow, CountResult, CountCompleted, CountFailed, Goto
<1>18. ASSUME NEW e \in Executors, ExecuteFails(e) PROVE q \in Spent'
  BY <1>18 DEF ExecuteFails, SetRow, CountFailed, Goto
<1>19. ASSUME NEW e \in Executors, UpdateProgress(e) PROVE q \in Spent'
  BY <1>19 DEF UpdateProgress, DropPartition, Goto, Coalesce
<1>20. ASSUME NEW e \in Executors, Finish(e) PROVE q \in Spent'
  BY <1>20 DEF Finish, Return, DropPartition, Goto, FinalState
<1>21. ASSUME NEW e \in Executors, ReadinessError(e) PROVE q \in Spent'
  BY <1>21 DEF ReadinessError, CountFailed, Fault, Goto
<1>22. ASSUME NEW e \in Executors, RecordError(e) PROVE q \in Spent'
  BY <1>22 DEF RecordError, SetRow, CountFailed, Fault, Goto
<1>23. ASSUME NEW e \in Executors, Abandon(e) PROVE q \in Spent'
  BY <1>23 DEF Abandon, Return, DropPartition, Goto, Fault
<1>24. CASE UNCHANGED vars
  BY <1>24 DEF vars
<1> QED
  BY <1>1, <1>2, <1>3, <1>4, <1>5, <1>6, <1>7, <1>8, <1>9, <1>10, <1>11, <1>12, <1>13,
     <1>14, <1>15, <1>16, <1>17, <1>18, <1>19, <1>20, <1>21, <1>22, <1>23, <1>24 DEF Next,
     ExecutorStep

\* The ways a step can change what has been counted.
CountStep(S, T, c, d) == d = c \/ (d = c + 1 /\ \E q \in T : q \notin S)

(* An executor's counts are dropped, replaced by the job row's, kept, or    *)
(* raised by one for the partition it held, which thereby becomes spent.    *)
LEMMA CountedStep ==
  ASSUME ~HasUpstream, PInv, [Next]_vars, NEW f \in Executors
  PROVE  \/ Counted(f)' \in {0, Reported}
         \/ CountStep(Spent, Spent', Counted(f), Counted(f)')
<1> DEFINE Goal == \/ Counted(f)' \in {0, Reported}
                   \/ CountStep(Spent, Spent', Counted(f), Counted(f)')
<1> USE JobAssumption DEF PInv, IInv, TypeOK, Held, Holding, Uncached, Fresh, Spent,
                          Counted, Reported, CountStep,
            jobVars, rowVars, exVars, envVars, counts, vars
<1>1. ASSUME NEW p \in Partitions, CreatePartition(p) PROVE Goal
  BY <1>1 DEF CreatePartition
<1>2. ASSUME NEW p \in Partitions, UpstreamCompletes(p) PROVE Goal
  BY <1>2 DEF UpstreamCompletes
<1>3. CASE Pause
  BY <1>3 DEF Pause, Coalesce
<1>4. CASE Resume
  BY <1>4 DEF Resume
<1>5. CASE Cancel
  BY <1>5 DEF Cancel
<1>6. CASE HeartbeatExpires
  BY <1>6 DEF HeartbeatExpires
<1>7. CASE PollNothing
  BY <1>7 DEF PollNothing
<1>8. ASSUME NEW e \in Executors, ClaimJob(e) PROVE Goal
  BY <1>8 DEF ClaimJob, Goto
<1>9. ASSUME NEW e \in Executors, LoadCache(e) PROVE Goal
  BY <1>9 DEF LoadCache, Goto
<1>10. ASSUME NEW e \in Executors, CheckCancelled(e) PROVE Goal
  BY <1>10 DEF CheckCancelled, Return, DropPartition, Goto
<1>11. ASSUME NEW e \in Executors, CheckPaused(e) PROVE Goal
  BY <1>11 DEF CheckPaused, Return, DropPartition, Goto
<1>12. ASSUME NEW e \in Executors, UpdateHeartbeat(e) PROVE Goal
  BY <1>12 DEF UpdateHeartbeat, Goto
<1>13. ASSUME NEW e \in Executors, ClaimPartition(e) PROVE Goal
  BY <1>13 DEF ClaimPartition, NextPartition, Pending, Retryable, Goto
<1>14. ASSUME NEW e \in Executors, NothingToClaim(e) PROVE Goal
  BY <1>14 DEF NothingToClaim, Goto
<1>15. ASSUME NEW e \in Executors, UpstreamReady(e) PROVE Goal
  BY <1>15 DEF UpstreamReady, Goto
<1>16. ASSUME NEW e \in Executors, Requeue(e) PROVE Goal
  BY <1>16 DEF Requeue, SetRow, CountResult, CountCompleted, CountFailed, Goto
<1>17. ASSUME NEW e \in Executors, ExecuteSucceeds(e) PROVE Goal
  BY <1>17 DEF ExecuteSucceeds, SetRow, CountResult, CountCompleted, CountFailed, Goto
<1>18. ASSUME NEW e \in Executors, ExecuteFails(e) PROVE Goal
  BY <1>18 DEF ExecuteFails, SetRow, CountFailed, Goto
<1>19. ASSUME NEW e \in Executors, UpdateProgress(e) PROVE Goal
  BY <1>19 DEF UpdateProgress, DropPartition, Goto, Coalesce
<1>20. ASSUME NEW e \in Executors, Finish(e) PROVE Goal
  BY <1>20 DEF Finish, Return, DropPartition, Goto, FinalState
<1>21. ASSUME NEW e \in Executors, ReadinessError(e) PROVE Goal
  BY <1>21 DEF ReadinessError, CountFailed, Fault, Goto
<1>22. ASSUME NEW e \in Executors, RecordError(e) PROVE Goal
  BY <1>22 DEF RecordError, SetRow, CountFailed, Fault, Goto
<1>23. ASSUME NEW e \in Executors, Abandon(e) PROVE Goal
  BY <1>23 DEF Abandon, Return, DropPartition, Goto, Fault
<1>24. CASE UNCHANGED vars
  BY <1>24 DEF vars
<1> QED
  BY <1>1, <1>2, <1>3, <1>4, <1>5, <1>6, <1>7, <1>8, <1>9, <1>10, <1>11, <1>12, <1>13,
     <1>14, <1>15, <1>16, <1>17, <1>18, <1>19, <1>20, <1>21, <1>22, <1>23, <1>24 DEF Next,
     ExecutorStep

(* The job row's counters are kept or overwritten by an executor's.         *)
LEMMA ReportedStep ==
  ASSUME PInv, [Next]_vars
  PROVE  \/ Reported' = Reported
         \/ \E e \in Executors : Reported' = Counted(e)
<1> DEFINE Goal == \/ Reported' = Reported
                   \/ \E e \in Executors : Reported' = Counted(e)
<1> USE DEF PInv, IInv, TypeOK, Counted, Reported,
            jobVars, rowVars, exVars, envVars, counts, vars
<1>1. ASSUME NEW p \in Partitions, CreatePartition(p) PROVE Goal
  BY <1>1 DEF CreatePartition
<1>2. ASSUME NEW p \in Partitions, UpstreamCompletes(p) PROVE Goal
  BY <1>2 DEF UpstreamCompletes
<1>3. CASE Pause
  BY <1>3 DEF Pause, Coalesce
<1>4. CASE Resume
  BY <1>4 DEF Resume
<1>5. CASE Cancel
  BY <1>5 DEF Cancel
<1>6. CASE HeartbeatExpires
  BY <1>6 DEF HeartbeatExpires
<1>7. CASE PollNothing
  BY <1>7 DEF PollNothing
<1>8. ASSUME NEW e \in Executors, ClaimJob(e) PROVE Goal
  BY <1>8 DEF ClaimJob, Goto
<1>9. ASSUME NEW e \in Executors, LoadCache(e) PROVE Goal
  BY <1>9 DEF LoadCache, Goto
<1>10. ASSUME NEW e \in Executors, CheckCancelled(e) PROVE Goal
  BY <1>10 DEF CheckCancelled, Return, DropPartition, Goto
<1>11. ASSUME NEW e \in Executors, CheckPaused(e) PROVE Goal
  BY <1>11 DEF CheckPaused, Return, DropPartition, Goto
<1>12. ASSUME NEW e \in Executors, UpdateHeartbeat(e) PROVE Goal
  BY <1>12 DEF UpdateHeartbeat, Goto
<1>13. ASSUME NEW e \in Executors, ClaimPartition(e) PROVE Goal
  BY <1>13 DEF ClaimPartition, NextPartition, Pending, Retryable, Goto
<1>14. ASSUME NEW e \in Executors, NothingToClaim(e) PROVE Goal
  BY <1>14 DEF NothingToClaim, Goto
<1>15. ASSUME NEW e \in Executors, UpstreamReady(e) PROVE Goal
  BY <1>15 DEF UpstreamReady, Goto
<1>16. ASSUME NEW e \in Executors, Requeue(e) PROVE Goal
  BY <1>16 DEF Requeue, SetRow, CountResult, CountCompleted, CountFailed, Goto
<1>17. ASSUME NEW e \in Executors, ExecuteSucceeds(e) PROVE Goal
  BY <1>17 DEF ExecuteSucceeds, SetRow, CountResult, CountCompleted, CountFailed, Goto
<1>18. ASSUME NEW e \in Executors, ExecuteFails(e) PROVE Goal
  BY <1>18 DEF ExecuteFails, SetRow, CountFailed, Goto
<1>19. ASSUME NEW e \in Executors, UpdateProgress(e) PROVE Goal
  BY <1>19 DEF UpdateProgress, DropPartition, Goto, Coalesce
<1>20. ASSUME NEW e \in Executors, Finish(e) PROVE Goal
  BY <1>20 DEF Finish, Return, DropPartition, Goto, FinalState
<1>21. ASSUME NEW e \in Executors, ReadinessError(e) PROVE Goal
  BY <1>21 DEF ReadinessError, CountFailed, Fault, Goto
<1>22. ASSUME NEW e \in Executors, RecordError(e) PROVE Goal
  BY <1>22 DEF RecordError, SetRow, CountFailed, Fault, Goto
<1>23. ASSUME NEW e \in Executors, Abandon(e) PROVE Goal
  BY <1>23 DEF Abandon, Return, DropPartition, Goto, Fault
<1>24. CASE UNCHANGED vars
  BY <1>24 DEF vars
<1> QED
  BY <1>1, <1>2, <1>3, <1>4, <1>5, <1>6, <1>7, <1>8, <1>9, <1>10, <1>11, <1>12, <1>13,
     <1>14, <1>15, <1>16, <1>17, <1>18, <1>19, <1>20, <1>21, <1>22, <1>23, <1>24 DEF Next,
     ExecutorStep

(* There are N partitions.                                                  *)
LEMMA PartitionsFinite == IsFiniteSet(Partitions) /\ Cardinality(Partitions) = N
  BY FS_Interval, JobAssumption DEF Partitions

(* One more counted partition is covered by one more spent partition.       *)
LEMMA CountCovered ==
  ASSUME NEW S \in SUBSET Partitions, NEW T \in SUBSET Partitions, S \subseteq T,
         NEW c \in Nat, NEW d \in Nat, c <= Cardinality(S), CountStep(S, T, c, d)
  PROVE  d <= Cardinality(T)
<1>1. /\ IsFiniteSet(S) /\ Cardinality(S) \in Nat
      /\ IsFiniteSet(T) /\ Cardinality(T) \in Nat
  BY PartitionsFinite, FS_Subset, FS_CardinalityType
<1>2. Cardinality(S) <= Cardinality(T)
  BY <1>1, FS_Subset
<1>3. ASSUME NEW q \in T, q \notin S
      PROVE  Cardinality(S) + 1 <= Cardinality(T)
  <2>1. S \cup {q} \in SUBSET T
    BY <1>3
  <2>2. Cardinality(S \cup {q}) = Cardinality(S) + 1
    BY <1>1, <1>3, FS_AddElement
  <2> QED
    BY <1>1, <2>1, <2>2, FS_Subset
<1> QED
  BY <1>1, <1>2, <1>3 DEF CountStep

(* The provers want this instance of arithmetic on primed variables named.  *)
LEMMA SumIsNat == ASSUME NEW a \in Nat, NEW b \in Nat PROVE a + b \in Nat
  OBVIOUS

(* No step counts more partitions than are spent after it.                  *)
LEMMA StepCounts ==
  ASSUME ~HasUpstream, PInv, CountsSpent, [Next]_vars
  PROVE  CountsSpent'
<1>1. PInv'
  BY StepPInv
<1>2. Spent \in SUBSET Partitions /\ Spent' \in SUBSET Partitions
  BY DEF Spent, Partitions
<1>3. Spent \subseteq Spent'
  BY SpentGrows
<1>0. TypeOK /\ TypeOK'
  BY <1>1 DEF PInv, IInv
<1>4. Reported \in Nat /\ Reported' \in Nat
  <2>1. /\ completed_partitions \in Nat /\ completed_partitions' \in Nat
        /\ failed_partitions \in Nat /\ failed_partitions' \in Nat
    BY <1>0 DEF TypeOK
  <2>2. Reported \in Nat
    BY <2>1 DEF Reported
  <2>3. completed_partitions' + failed_partitions' \in Nat
    BY <2>1, SumIsNat
  <2>4. Reported' = completed_partitions' + failed_partitions'
    BY DEF Reported
  <2> QED
    BY <2>2, <2>3, <2>4
<1>5. ASSUME NEW e \in Executors PROVE Counted(e) \in Nat /\ Counted(e)' \in Nat
  BY <1>0 DEF TypeOK, Counted
<1>6. ASSUME NEW c \in Nat, c <= Cardinality(Spent)
      PROVE  c <= Cardinality(Spent')
  BY <1>2, <1>3, <1>6, CountCovered DEF CountStep
<1>7. Reported' <= Cardinality(Spent')
  BY <1>4, <1>5, <1>6, ReportedStep DEF CountsSpent
<1>8. ASSUME NEW f \in Executors PROVE Counted(f)' <= Cardinality(Spent')
  <2>1. CASE Counted(f)' \in {0, Reported}
    BY <2>1, <1>4, <1>6, PartitionsFinite, FS_Subset, FS_CardinalityType, <1>2 DEF
       CountsSpent
  <2>2. CASE CountStep(Spent, Spent', Counted(f), Counted(f)')
    BY <2>2, <1>2, <1>3, <1>5, CountCovered DEF CountsSpent
  <2> QED
    BY <2>1, <2>2, CountedStep
<1> QED
  BY <1>7, <1>8 DEF CountsSpent

(* Whatever has been counted, by anyone, is always spent.                   *)
LEMMA AlwaysCounts ==
  ASSUME ~HasUpstream
  PROVE  Spec => [](PInv /\ CountsSpent)
<1>1. Init => CountsSpent
  <2>1. Spent \in SUBSET Partitions
    BY DEF Spent
  <2>2. Cardinality(Spent) \in Nat
    BY <2>1, PartitionsFinite, FS_Subset, FS_CardinalityType
  <2> QED
    BY <2>2 DEF Init, CountsSpent, Counted, Reported
<1>2. PInv /\ CountsSpent /\ [Next]_vars => (PInv /\ CountsSpent)'
  BY StepPInv, StepCounts
<1> QED
  BY <1>1, <1>2, InitPInv, PTL DEF Spec

(* For an asset without upstream dependencies no partition is counted       *)
(* twice, whatever the interleaving of executors, reclaims, pauses and      *)
(* crashes: completed + failed stays within total_partitions, so the        *)
(* remaining count that the ETA casts to u32 is never negative.             *)
THEOREM NothingCountedTwice ==
  ASSUME ~HasUpstream
  PROVE  Spec => []RemainingNeverNegative
<1>1. PInv /\ CountsSpent => RemainingNeverNegative
  <2> SUFFICES ASSUME PInv, CountsSpent PROVE RemainingNeverNegative
    OBVIOUS
  <2>1. Spent \in SUBSET Partitions
    BY DEF Spent
  <2>2. Cardinality(Spent) \in Nat /\ Cardinality(Spent) <= N
    BY <2>1, PartitionsFinite, FS_Subset, FS_CardinalityType
  <2> QED
    BY <2>2, JobAssumption
       DEF CountsSpent, Counted, Reported, RemainingNeverNegative, PInv, IInv, TypeOK
<1> QED
  BY <1>1, AlwaysCounts, PTL

(* Without upstream dependencies checkpoint_partition_key is always a       *)
(* completed partition, also when it was written by a pause, or by an       *)
(* executor that lost the job meanwhile.                                    *)
THEOREM CheckpointIsDone ==
  ASSUME ~HasUpstream
  PROVE  Spec => []CheckpointCompleted
<1>1. PInv /\ CountsSpent => CheckpointCompleted
  BY DEF PInv, CheckpointDone, Done, CheckpointCompleted
<1> QED
  BY <1>1, AlwaysCounts, PTL

-----------------------------------------------------------------------------
(***************************************************************************)
(* The final state is decided by the failed_count of whichever executor    *)
(* finds nothing to claim.  That local may have come from a claim's        *)
(* snapshot of the row, which may have come from another executor's local: *)
(* the blame has to be carried through all three.                          *)
(***************************************************************************)
Exhausted == \E p \in Partitions : attempt_count[p] >= MaxRetries

NoFailure ==
    /\ state # "failed"
    /\ failed_partitions = 0
    /\ \A e \in Executors : failed_count[e] = 0

\* Whoever remembers a failure can point at a partition without attempts left.
Blamed == NoFailure \/ Exhausted

-----------------------------------------------------------------------------
(* Attempts are only ever added: a requeue keeps them.                      *)
LEMMA AttemptsGrow ==
  ASSUME IInv, [Next]_vars, NEW q \in Partitions
  PROVE  attempt_count'[q] >= attempt_count[q]
<1> USE DEF IInv, TypeOK, jobVars, rowVars, exVars, envVars, counts, vars
<1>1. ASSUME NEW e \in Executors, ClaimPartition(e)
      PROVE  attempt_count'[q] >= attempt_count[q]
  BY <1>1 DEF ClaimPartition
<1>2. CASE UNCHANGED attempt_count
  BY <1>2
<1>3. ASSUME NEW e \in Executors, ExecutorStep(e)
      PROVE  UNCHANGED attempt_count \/ ClaimPartition(e)
  BY <1>3 DEF ExecutorStep, ClaimJob, LoadCache, CheckCancelled, CheckPaused,
     UpdateHeartbeat, NothingToClaim, UpstreamReady, Requeue, ExecuteSucceeds,
     ExecuteFails, UpdateProgress, Finish
<1>4. ASSUME NEW e \in Executors, ReadinessError(e) \/ RecordError(e) \/ Abandon(e)
      PROVE  UNCHANGED attempt_count
  BY <1>4 DEF ReadinessError, RecordError, Abandon
<1>5. ASSUME NEW p \in Partitions, CreatePartition(p) \/ UpstreamCompletes(p)
      PROVE  UNCHANGED attempt_count
  BY <1>5 DEF CreatePartition, UpstreamCompletes
<1>6. CASE Pause \/ Resume \/ Cancel \/ HeartbeatExpires \/ PollNothing \/ UNCHANGED vars
  BY <1>6, <1>2 DEF Pause, Resume, Cancel, HeartbeatExpires, PollNothing
<1> QED
  BY <1>1, <1>2, <1>3, <1>4, <1>5, <1>6 DEF Next

(* So a partition without attempts left stays one.                          *)
LEMMA ExhaustedStays == IInv /\ [Next]_vars /\ Exhausted => Exhausted'
<1> SUFFICES ASSUME IInv, [Next]_vars, Exhausted PROVE Exhausted'
  OBVIOUS
<1>1. PICK p \in Partitions : attempt_count[p] >= MaxRetries
  BY DEF Exhausted
<1>2. attempt_count'[p] >= MaxRetries
  <2>1. IInv'
    BY StepIInv
  <2>2. attempt_count[p] \in Nat /\ attempt_count'[p] \in Nat
    BY <2>1 DEF IInv, TypeOK
  <2>3. attempt_count'[p] >= attempt_count[p]
    BY AttemptsGrow
  <2> QED
    BY <1>1, <2>2, <2>3, JobAssumption
<1> QED
  BY <1>2 DEF Exhausted, Partitions

(* An executor counts a failure only for a partition whose last attempt it  *)
(* holds: its own copy of the attempt number is the row's.                  *)
LEMMA FailureHasCause ==
  ASSUME IInv, ~Exhausted, NEW e \in Executors, Holding(e)
  PROVE  attempt[e] < MaxRetries
<1>1. attempt[e] = attempt_count[part[e]] /\ part[e] \in Partitions
  BY DEF IInv, Held
<1>2. ~(attempt_count[part[e]] >= MaxRetries)
  BY <1>1 DEF Exhausted
<1> QED
  BY <1>1, <1>2, JobAssumption DEF IInv, TypeOK

(* Without such a partition nothing the job or an executor remembers can    *)
(* become a failure.                                                        *)
LEMMA NoFailureStep ==
  ASSUME IInv, [Next]_vars, NoFailure, ~Exhausted
  PROVE  NoFailure'
<1> USE DEF IInv, TypeOK, NoFailure, jobVars, rowVars, exVars, envVars, counts, vars
<1>1. ASSUME NEW p \in Partitions, CreatePartition(p) \/ UpstreamCompletes(p)
      PROVE  NoFailure'
  BY <1>1 DEF CreatePartition, UpstreamCompletes
<1>2. CASE Pause \/ Resume \/ Cancel \/ HeartbeatExpires \/ PollNothing \/ UNCHANGED vars
  BY <1>2 DEF Pause, Resume, Cancel, HeartbeatExpires, PollNothing
<1>3. ASSUME NEW e \in Executors, ClaimJob(e) PROVE NoFailure'
  BY <1>3 DEF ClaimJob
<1>4. ASSUME NEW e \in Executors,
             LoadCache(e) \/ UpdateHeartbeat(e) \/ ClaimPartition(e) \/ NothingToClaim(e)
             \/ UpstreamReady(e)
      PROVE  NoFailure'
  BY <1>4 DEF LoadCache, UpdateHeartbeat, ClaimPartition, NothingToClaim, UpstreamReady
<1>5. ASSUME NEW e \in Executors, CheckCancelled(e) \/ CheckPaused(e) PROVE NoFailure'
  BY <1>5 DEF CheckCancelled, CheckPaused, Return
<1>6. ASSUME NEW e \in Executors, CountFailed(e), Holding(e)
      PROVE  \A f \in Executors : failed_count'[f] = 0
  BY <1>6, FailureHasCause, JobAssumption DEF CountFailed
<1>7. ASSUME NEW e \in Executors, Requeue(e) \/ ExecuteSucceeds(e) PROVE NoFailure'
  <2>1. Holding(e) /\ UNCHANGED jobVars
    BY <1>7 DEF Requeue, ExecuteSucceeds, Holding
  <2>2. CountCompleted(e) \/ CountFailed(e)
    BY <1>7 DEF Requeue, ExecuteSucceeds, CountResult
  <2> QED
    BY <2>1, <2>2, <1>6 DEF CountCompleted
<1>8. ASSUME NEW e \in Executors, ExecuteFails(e) \/ ReadinessError(e) \/ RecordError(e)
      PROVE  NoFailure'
  <2>1. Holding(e) /\ CountFailed(e) /\ UNCHANGED jobVars
    BY <1>8 DEF ExecuteFails, ReadinessError, RecordError, Holding
  <2> QED
    BY <2>1, <1>6
<1>9. ASSUME NEW e \in Executors, UpdateProgress(e) PROVE NoFailure'
  BY <1>9 DEF UpdateProgress
<1>10. ASSUME NEW e \in Executors, Finish(e) PROVE NoFailure'
  BY <1>10 DEF Finish, FinalState, Return
<1>11. ASSUME NEW e \in Executors, Abandon(e) PROVE NoFailure'
  BY <1>11 DEF Abandon, Return
<1> QED
  BY <1>1, <1>2, <1>3, <1>4, <1>5, <1>7, <1>8, <1>9, <1>10, <1>11 DEF Next, ExecutorStep

(* Every failure that is remembered has its partition, in every state.      *)
LEMMA AlwaysBlamed == Spec => []Blamed
<1>1. Init => Blamed
  BY DEF Init, Blamed, NoFailure
<1>2. IInv /\ Blamed /\ [Next]_vars => Blamed'
  BY NoFailureStep, ExhaustedStays DEF Blamed
<1> QED
  BY <1>1, <1>2, AlwaysIInv, PTL DEF Spec

(* A job ends as 'failed' only after some partition used up its attempts,   *)
(* whoever ended it and from whichever stale count.                         *)
THEOREM FailuresAreBlamed == Spec => []FailedJobHasExhaustedPartition
<1>1. Blamed => FailedJobHasExhaustedPartition
  BY DEF Blamed, NoFailure, Exhausted, FailedJobHasExhaustedPartition
<1> QED
  BY <1>1, AlwaysBlamed, PTL
-----------------------------------------------------------------------------
\* Until something fails: the cache is what the asset's dependencies say from
\* the load on, and what is executed has its upstream.
ReadyRun == faults = 0 =>
    /\ ~HasUpstream => ready = Partitions
    /\ \A e \in Executors : pc[e] \notin {"idle", "load"} => cache[e] = HasUpstream
    /\ \A e \in Executors : pc[e] = "execute" => part[e] \in ready

(* A partition reaches "execute" through the readiness check only, with a   *)
(* cache that was loaded, and upstream partitions stay complete.            *)
LEMMA ReadyRunStep ==
  ASSUME IInv, [Next]_vars, ReadyRun
  PROVE  ReadyRun'
<1> SUFFICES ASSUME faults' = 0
             PROVE  /\ ~HasUpstream => ready' = Partitions
                    /\ \A e \in Executors :
                         pc'[e] \notin {"idle", "load"} => cache'[e] = HasUpstream
                    /\ \A e \in Executors : pc'[e] = "execute" => part'[e] \in ready'
  BY DEF ReadyRun, Partitions
<1> DEFINE Goal == /\ ~HasUpstream => ready' = Partitions
                   /\ \A e \in Executors :
                        pc'[e] \notin {"idle", "load"} => cache'[e] = HasUpstream
                   /\ \A e \in Executors : pc'[e] = "execute" => part'[e] \in ready'
<1> USE JobAssumption DEF IInv, TypeOK, Held, Holding, ReadyRun, Goto, Fault,
            jobVars, rowVars, exVars, envVars, counts, vars
<1>1. ASSUME NEW p \in Partitions, CreatePartition(p) \/ UpstreamCompletes(p) PROVE Goal
  BY <1>1 DEF CreatePartition, UpstreamCompletes
<1>2. CASE Pause \/ Resume \/ Cancel \/ HeartbeatExpires \/ PollNothing \/ UNCHANGED vars
  BY <1>2 DEF Pause, Resume, Cancel, HeartbeatExpires, PollNothing
<1>3. ASSUME NEW e \in Executors, ClaimJob(e) PROVE Goal
  BY <1>3 DEF ClaimJob
<1>4. ASSUME NEW e \in Executors, LoadCache(e) PROVE Goal
  BY <1>4 DEF LoadCache
<1>5. ASSUME NEW e \in Executors, CheckCancelled(e) \/ CheckPaused(e) PROVE Goal
  BY <1>5 DEF CheckCancelled, CheckPaused, Return, DropPartition
<1>6. ASSUME NEW e \in Executors, UpdateHeartbeat(e) \/ NothingToClaim(e) PROVE Goal
  BY <1>6 DEF UpdateHeartbeat, NothingToClaim
<1>7. ASSUME NEW e \in Executors, ClaimPartition(e) PROVE Goal
  BY <1>7 DEF ClaimPartition
<1>8. ASSUME NEW e \in Executors, UpstreamReady(e) PROVE Goal
  BY <1>8 DEF UpstreamReady
<1>9. ASSUME NEW e \in Executors, Requeue(e) \/ ExecuteSucceeds(e) \/ ExecuteFails(e)
      PROVE  Goal
  BY <1>9 DEF Requeue, ExecuteSucceeds, ExecuteFails
<1>10. ASSUME NEW e \in Executors, UpdateProgress(e) \/ Finish(e) PROVE Goal
  BY <1>10 DEF UpdateProgress, Finish, Return, DropPartition
<1>11. ASSUME NEW e \in Executors, ReadinessError(e) \/ RecordError(e) \/ Abandon(e)
       PROVE  Goal
  BY <1>11 DEF ReadinessError, RecordError, Abandon
<1> QED
  BY <1>1, <1>2, <1>3, <1>4, <1>5, <1>6, <1>7, <1>8, <1>9, <1>10, <1>11
  DEF Next, ExecutorStep

(* As long as no storage call fails, a partition is executed only once its  *)
(* upstream is complete, however often it was requeued and by whom.         *)
THEOREM ExecutionWaitsForUpstream == Spec => []ExecutesOnlyWhenReady
<1>1. Init => ReadyRun
  BY DEF Init, ReadyRun, Holding
<1>2. IInv /\ ReadyRun /\ [Next]_vars => ReadyRun'
  BY ReadyRunStep
<1>3. ReadyRun => ExecutesOnlyWhenReady
  BY DEF ReadyRun, ExecutesOnlyWhenReady
<1> QED
  BY <1>1, <1>2, <1>3, AlwaysIInv, PTL DEF Spec
=============================================================================

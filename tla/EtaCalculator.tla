--------------------------- MODULE EtaCalculator ----------------------------
(***************************************************************************)
(* The estimate of the time a backfill still needs:                        *)
(* servo-runtime/src/eta.rs, and its use in backfill_executor.rs.          *)
(*                                                                         *)
(* The average is a double; it is counted here in fractions of a           *)
(* millisecond.  With 10^n of them every average of n durations, with the  *)
(* smoothing factor 3/10, is a whole number; with fewer it is rounded      *)
(* down.  What is kept in backfill_jobs.avg_partition_duration_ms is the   *)
(* average rounded to a millisecond, and an executor that claims the job   *)
(* starts from it.                                                         *)
(***************************************************************************)
EXTENDS Integers

CONSTANTS
    Durations,          \* durations of partitions, in milliseconds
    Partitions,         \* partitions of the job
    Fractions           \* fractions of a millisecond the average is kept in

VARIABLES
    average,            \* avg_duration_ms, in fractions
    count,              \* observation_count
    saved,              \* avg_partition_duration_ms, or -1 for NULL
    observed,           \* every duration so far
    remaining           \* partitions left

etaVars == <<average, count, saved, observed, remaining>>

InMilliseconds(value) == (value + Fractions \div 2) \div Fractions

Init ==
    /\ average = 0 /\ count = 0 /\ saved = -1
    /\ observed = {} /\ remaining = Partitions

-----------------------------------------------------------------------------
\* Mutant: the first observation is smoothed into the initial zero.
SmoothedFromZero(duration) == (3 * duration * Fractions + 7 * average) \div 10

(* The first observation is taken as it is.                                *)
Smoothed(duration) ==
    IF count = 0
    THEN duration * Fractions
    ELSE (3 * duration * Fractions + 7 * average) \div 10

(* A partition completes: the observation, then the update of the job.     *)
Observe(duration) ==
    /\ remaining > 0
    /\ remaining' = remaining - 1
    /\ average' = Smoothed(duration)
    /\ count' = count + 1
    /\ saved' = InMilliseconds(average')
    /\ observed' = observed \cup {duration}

(* Another executor claims the job and resumes from the saved average; a   *)
(* saved zero counts as no observation.                                    *)
Resume ==
    /\ average' = IF saved = -1 THEN 0 ELSE saved * Fractions
    /\ count' = IF saved > 0 THEN 1 ELSE 0
    /\ UNCHANGED <<saved, observed, remaining>>

Next == Resume \/ \E duration \in Durations : Observe(duration)

Spec == Init /\ [][Next]_etaVars

-----------------------------------------------------------------------------
(* estimate_remaining                                                      *)
Estimates == count # 0
EstimateRemaining == InMilliseconds(average * remaining)

(* Whatever sequence of executors worked on a job, the time announced lies *)
(* between what the partitions left would take at the shortest and at the  *)
(* longest duration seen: no restart, rounding or first observation pulls  *)
(* the average out of what was observed.                                   *)
EstimateWithinObserved ==
    Estimates =>
        /\ \E d \in observed : d * remaining <= EstimateRemaining
        /\ \E d \in observed : EstimateRemaining <= d * remaining
=============================================================================

---------------------------- MODULE RetryPolicy -----------------------------
(***************************************************************************)
(* One call of RetryPolicy::execute_with_retry:                            *)
(* servo-runtime/src/retry.rs.                                             *)
(*                                                                         *)
(* The operation is attempted until it succeeds, fails for good, or the    *)
(* number of attempts or the time is used up; between two attempts the     *)
(* caller sleeps for an exponential delay, under a cap, with full jitter.  *)
(* Time is counted in units of the initial delay; an attempt may take any  *)
(* time up to a bound.                                                     *)
(***************************************************************************)
EXTENDS Naturals

CONSTANTS
    MaxAttempts,    \* RetryPolicy.max_attempts
    InitialDelay,   \* RetryPolicy.initial_delay
    MaxDelay,       \* RetryPolicy.max_delay
    MaxElapsed,     \* RetryPolicy.max_elapsed
    Strategies,     \* the strategies tried
    MaxDuration     \* bound: the longest attempt

VARIABLES
    strategy,       \* RetryPolicy.strategy
    phase,          \* "calling", "sleeping" or how the call ended
    attempt,        \* attempts that have failed
    elapsed,        \* time since the call began
    wake,           \* time at which the sleep ends
    started         \* time at which the running attempt began

retryVars == <<strategy, phase, attempt, elapsed, wake, started>>

Init ==
    /\ strategy \in Strategies
    /\ phase = "calling" /\ attempt = 0
    /\ elapsed = 0 /\ wake = 0 /\ started = 0

-----------------------------------------------------------------------------
Least(a, b) == IF a < b THEN a ELSE b

(* The delays the n-th retry (from 0) may be given.                        *)
CappedDelay(n) == Least(InitialDelay * 2^n, MaxDelay)
Delays(n) ==
    CASE strategy = "None"                  -> {0}
      [] strategy = "Fixed"                 -> {InitialDelay}
      [] strategy = "Exponential"           -> {CappedDelay(n)}
      [] strategy = "ExponentialWithJitter" -> 0..CappedDelay(n)

(* The attempt returns after some time.                                    *)
Tick ==
    /\ phase = "calling" /\ elapsed < started + MaxDuration
    /\ elapsed' = elapsed + 1
    /\ UNCHANGED <<strategy, phase, attempt, wake, started>>

Succeed ==
    /\ phase = "calling" /\ phase' = "succeeded"
    /\ UNCHANGED <<strategy, attempt, elapsed, wake, started>>

(* Errors are classified by is_retryable: a timeout, or an internal error  *)
(* that speaks of a connection, a timeout, a pool or a transient failure.  *)
FailForGood ==
    /\ phase = "calling" /\ phase' = "permanent"
    /\ attempt' = attempt + 1
    /\ UNCHANGED <<strategy, elapsed, wake, started>>

\* Mutant: the time that passed is not looked at.
GivesUpByCount(n) == n >= MaxAttempts

GivesUp(n) == n >= MaxAttempts \/ elapsed >= MaxElapsed

FailTransiently ==
    /\ phase = "calling"
    /\ attempt' = attempt + 1
    /\ IF GivesUp(attempt + 1)
       THEN phase' = "exhausted" /\ wake' = wake
       ELSE /\ phase' = "sleeping"
            /\ \E delay \in Delays(attempt) : wake' = elapsed + delay
    /\ UNCHANGED <<strategy, elapsed, started>>

Wake ==
    /\ phase = "sleeping"
    /\ phase' = "calling" /\ elapsed' = wake /\ started' = wake
    /\ UNCHANGED <<strategy, attempt, wake>>

Ended == phase \in {"succeeded", "permanent", "exhausted"}

(* The next call of the policy.                                            *)
Again ==
    /\ Ended
    /\ phase' = "calling" /\ attempt' = 0
    /\ elapsed' = 0 /\ wake' = 0 /\ started' = 0
    /\ UNCHANGED strategy

Next == Tick \/ Succeed \/ FailForGood \/ FailTransiently \/ Wake \/ Again

Spec == Init /\ [][Next]_retryVars

-----------------------------------------------------------------------------
(* A caller is not kept for ever: no attempt begins later than one capped  *)
(* delay after the time the policy allows, and there are never more        *)
(* attempts than it allows, however the slow attempts and the sleeps add   *)
(* up.  max_elapsed alone does not bound the call: it is looked at before  *)
(* the sleep and not after it.                                             *)
RetryBounded ==
    /\ attempt <= MaxAttempts
    /\ phase = "calling" => attempt < MaxAttempts
    /\ started < MaxElapsed + MaxDelay
=============================================================================

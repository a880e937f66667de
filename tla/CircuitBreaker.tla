--------------------------- MODULE CircuitBreaker ---------------------------
(***************************************************************************)
(* DatabaseCircuitBreaker::call: callers that share one breaker.  The lock *)
(* is taken twice, before and after the protected future; in between the   *)
(* breaker may be opened, closed and opened again by others.               *)
(***************************************************************************)
EXTENDS Integers, FiniteSets

CONSTANTS
    Callers,      \* concurrent callers of one breaker
    Threshold,    \* failure_threshold; from_env replaces 0 by the default
    MaxOutages,   \* bound: how often the dependency goes down
    MaxDrops      \* bound: futures of call dropped before they finish

ASSUME BreakerAssumption ==
    Threshold \in Nat \ {0} /\ MaxOutages \in Nat /\ MaxDrops \in Nat

VARIABLES
    state,                       \* CircuitBreakerState
    consecutive_failures,        \* beyond Threshold not told apart
    last_failure,                \* last_failure_time: none, recent, or old:
                                 \* at least half_open_timeout ago
    half_open_probe_in_progress,
    pc, is_half_open_probe,      \* per caller
    up, outages, drops           \* the dependency; bounds

breaker == <<state, consecutive_failures, last_failure, half_open_probe_in_progress>>
callers == <<pc, is_half_open_probe>>
vars == <<breaker, callers, up, outages, drops>>

Init ==
    /\ state = "Closed" /\ consecutive_failures = 0
    /\ last_failure = "none" /\ half_open_probe_in_progress = FALSE
    /\ pc = [c \in Callers |-> "idle"]
    /\ is_half_open_probe = [c \in Callers |-> FALSE]
    /\ up = TRUE /\ outages = 0 /\ drops = 0

-----------------------------------------------------------------------------
\* Mutant: the comparison with half_open_timeout the wrong way round.
AdmittedEarly ==
    \/ state = "Closed" \/ last_failure = "none"
    \/ last_failure = "recent" /\ ~half_open_probe_in_progress

Admitted ==
    \/ state = "Closed" \/ last_failure = "none"
    \/ last_failure = "old" /\ ~half_open_probe_in_progress

Call(c) ==
    /\ pc[c] = "idle" /\ Admitted
    /\ LET probe == state = "Open" /\ last_failure # "none" IN
         /\ is_half_open_probe' = [is_half_open_probe EXCEPT ![c] = probe]
         /\ half_open_probe_in_progress' = (half_open_probe_in_progress \/ probe)
    /\ pc' = [pc EXCEPT ![c] = "calling"]
    /\ UNCHANGED <<state, consecutive_failures, last_failure, up, outages, drops>>

\* CircuitOpen, at once.
Reject(c) == pc[c] = "idle" /\ ~Admitted /\ UNCHANGED vars

\* The future ends; its outcome may be recorded much later.
Answer(c) ==
    /\ pc[c] = "calling"
    /\ pc' = [pc EXCEPT ![c] = IF up THEN "ok" ELSE "error"]
    /\ UNCHANGED <<breaker, is_half_open_probe, up, outages, drops>>

Done(c) ==
    /\ pc' = [pc EXCEPT ![c] = "idle"]
    /\ is_half_open_probe' = [is_half_open_probe EXCEPT ![c] = FALSE]

\* Mutant: the failure count survives.
CloseOnly(c) ==
    /\ pc[c] = "ok"
    /\ state' = "Closed"
    /\ half_open_probe_in_progress' = FALSE
    /\ Done(c)
    /\ UNCHANGED <<consecutive_failures, last_failure, up, outages, drops>>

\* Any success closes the breaker, of a probe or of a call from before.
RecordSuccess(c) ==
    /\ pc[c] = "ok"
    /\ state' = "Closed" /\ consecutive_failures' = 0 /\ last_failure' = "none"
    /\ half_open_probe_in_progress' = FALSE
    /\ Done(c)
    /\ UNCHANGED <<up, outages, drops>>

\* Mutant: the guard of a failed probe is kept.
FailKeepingGuard(c) ==
    /\ pc[c] = "error"
    /\ consecutive_failures' =
         IF state = "Closed" THEN consecutive_failures + 1 ELSE Threshold
    /\ last_failure' = "recent"
    /\ state' = IF consecutive_failures' >= Threshold THEN "Open" ELSE state
    /\ Done(c)
    /\ UNCHANGED <<half_open_probe_in_progress, up, outages, drops>>

RecordFailure(c) ==
    /\ pc[c] = "error"
    /\ half_open_probe_in_progress' =
         (half_open_probe_in_progress /\ ~is_half_open_probe[c])
    /\ consecutive_failures' =
         IF state = "Closed" THEN consecutive_failures + 1 ELSE Threshold
    /\ last_failure' = "recent"
    /\ state' = IF consecutive_failures' >= Threshold THEN "Open" ELSE state
    /\ Done(c)
    /\ UNCHANGED <<up, outages, drops>>

\* The caller's task is cancelled at an await: nothing is recorded.
Drop(c) ==
    /\ pc[c] # "idle" /\ drops < MaxDrops
    /\ drops' = drops + 1
    /\ Done(c)
    /\ UNCHANGED <<breaker, up, outages>>

\* half_open_timeout passes.
Elapse ==
    /\ last_failure = "recent"
    /\ last_failure' = "old"
    /\ UNCHANGED <<state, consecutive_failures, half_open_probe_in_progress,
                   callers, up, outages, drops>>

GoesDown ==
    /\ up /\ outages < MaxOutages
    /\ up' = FALSE /\ outages' = outages + 1
    /\ UNCHANGED <<breaker, callers, drops>>

ComesBack ==
    /\ ~up
    /\ up' = TRUE
    /\ UNCHANGED <<breaker, callers, outages, drops>>

-----------------------------------------------------------------------------
Finish(c) == Answer(c) \/ RecordSuccess(c) \/ RecordFailure(c)

Next ==
    \/ \E c \in Callers : Call(c) \/ Reject(c) \/ Finish(c) \/ Drop(c)
    \/ Elapse \/ GoesDown \/ ComesBack

Spec == Init /\ [][Next]_vars

\* The HTTP clients have timeouts, time passes, and somebody keeps calling.
Fairness ==
    /\ \A c \in Callers : WF_vars(Finish(c))
    /\ WF_vars(\E c \in Callers : Call(c))
    /\ WF_vars(Elapse)

FairSpec == Spec /\ Fairness

-----------------------------------------------------------------------------
(* Properties.                                                              *)

(* Type invariant of the breaker and its callers.                           *)
TypeOK ==
    /\ state \in {"Closed", "Open"}
    /\ consecutive_failures \in 0 .. Threshold
    /\ last_failure \in {"none", "recent", "old"}
    /\ half_open_probe_in_progress \in BOOLEAN
    /\ pc \in [Callers -> {"idle", "calling", "ok", "error"}]
    /\ is_half_open_probe \in [Callers -> BOOLEAN]
    /\ up \in BOOLEAN
    /\ outages \in 0 .. MaxOutages /\ drops \in 0 .. MaxDrops

(* However late outcomes arrive, the breaker is open exactly when it has    *)
(* counted Threshold failures, an open breaker has a failure time (the      *)
(* branch that would let every call through is dead), and a closed one      *)
(* holds no probe guard.                                                    *)
BreakerConsistent ==
    /\ state = "Open" <=> consecutive_failures >= Threshold
    /\ last_failure = "none" <=> consecutive_failures = 0
    /\ half_open_probe_in_progress => state = "Open"

Probing == {c \in Callers : is_half_open_probe[c]}

(* The guard is never left behind: while it is set a probe is in flight     *)
(* that will clear it, unless a caller's future was dropped.                *)
GuardHasProbe == half_open_probe_in_progress => Probing # {} \/ drops > 0

(* When the dependency is up again for good the breaker closes for good.    *)
Recovers == <>[]up => <>[](state = "Closed" \/ drops > 0)

(* One probe at a time.                                                     *)
AtMostOneProbe == Cardinality(Probing) <= 1

(* Recovers, also when a caller is cancelled.                               *)
RecoversAnyway == <>[]up => <>[](state = "Closed")
=============================================================================

---------------------------- MODULE BreakerProofs ----------------------------
(***************************************************************************)
(* What holds of the circuit breaker for every number of callers, every    *)
(* threshold and every history of outages and dropped calls.               *)
(***************************************************************************)
EXTENDS CircuitBreaker, TLAPS

\* GuardHasProbe, with the fact that a probe belongs to a call in flight.
Guarded ==
    /\ half_open_probe_in_progress => drops > 0 \/ \E c \in Callers : is_half_open_probe[c]
    /\ \A c \in Callers : is_half_open_probe[c] => pc[c] # "idle"

IInv == TypeOK /\ BreakerConsistent /\ Guarded

LEMMA InitIInv == Init => IInv
<1> SUFFICES ASSUME Init PROVE IInv
  OBVIOUS
<1>1. TypeOK
  <2>1. half_open_probe_in_progress \in BOOLEAN /\ up \in BOOLEAN
    BY DEF Init
  <2>2. is_half_open_probe \in [Callers -> BOOLEAN]
    BY DEF Init
  <2> QED
    BY <2>1, <2>2, BreakerAssumption DEF Init, TypeOK
<1>2. BreakerConsistent
  BY BreakerAssumption DEF Init, BreakerConsistent
<1>3. Guarded
  BY DEF Init, Guarded
<1> QED
  BY <1>1, <1>2, <1>3 DEF IInv

LEMMA StepIInv == IInv /\ [Next]_vars => IInv'
<1> SUFFICES ASSUME IInv, [Next]_vars PROVE IInv'
  OBVIOUS
<1> USE BreakerAssumption DEF IInv, vars, breaker, callers
<1>1. ASSUME NEW c \in Callers, Call(c) PROVE IInv'
  <2> DEFINE probe == state = "Open" /\ last_failure # "none"
  <2>1. /\ pc[c] = "idle" /\ pc' = [pc EXCEPT ![c] = "calling"]
        /\ is_half_open_probe' = [is_half_open_probe EXCEPT ![c] = probe]
        /\ half_open_probe_in_progress' = (half_open_probe_in_progress \/ probe)
        /\ UNCHANGED <<state, consecutive_failures, last_failure, up, outages, drops>>
    BY <1>1 DEF Call
  <2>2. probe \in BOOLEAN /\ (probe => state = "Open")
    OBVIOUS
  <2> HIDE DEF probe
  <2>3. TypeOK'
    <3>1. is_half_open_probe' \in [Callers -> BOOLEAN]
      BY <2>1, <2>2 DEF TypeOK
    <3>2. half_open_probe_in_progress' \in BOOLEAN
      BY <2>1, <2>2 DEF TypeOK
    <3> QED
      BY <2>1, <3>1, <3>2 DEF TypeOK
  <2>4. BreakerConsistent'
    BY <2>1, <2>2 DEF BreakerConsistent
  <2>5. Guarded'
    <3>1. \A d \in Callers : /\ pc'[d] = IF d = c THEN "calling" ELSE pc[d]
                             /\ d # c => is_half_open_probe'[d] = is_half_open_probe[d]
                             /\ d = c => is_half_open_probe'[d] = probe
      BY <2>1 DEF TypeOK
    <3>2. ~is_half_open_probe[c]
      BY <2>1 DEF Guarded
    <3>3. drops' = drops
      BY <2>1
    <3>4. CASE probe
      <4>1. is_half_open_probe'[c]
        BY <3>1, <3>4
      <4>2. \A d \in Callers : is_half_open_probe'[d] => pc'[d] # "idle"
        BY <3>1 DEF Guarded
      <4> QED
        BY <4>1, <4>2 DEF Guarded
    <3>5. CASE ~probe
      <4>1. half_open_probe_in_progress' => half_open_probe_in_progress
        BY <2>1, <3>5
      <4>2. ~is_half_open_probe'[c]
        BY <3>1, <3>5
      <4>3. \A d \in Callers : is_half_open_probe[d] => is_half_open_probe'[d]
        BY <3>1, <3>2
      <4>4. \A d \in Callers : is_half_open_probe'[d] => pc'[d] # "idle"
        BY <3>1, <4>2 DEF Guarded
      <4> QED
        BY <3>3, <4>1, <4>3, <4>4 DEF Guarded
    <3> QED
      BY <3>4, <3>5
  <2> QED
    BY <2>3, <2>4, <2>5
<1>2. ASSUME NEW c \in Callers, Answer(c) PROVE IInv'
  <2>1. \E l \in {"ok", "error"} : pc' = [pc EXCEPT ![c] = l]
    BY <1>2 DEF Answer
  <2>2. UNCHANGED <<breaker, is_half_open_probe, up, outages, drops>>
    BY <1>2 DEF Answer
  <2>3. \A d \in Callers : pc[d] # "idle" => pc'[d] # "idle"
    BY <2>1 DEF TypeOK
  <2> QED
    BY <2>1, <2>2, <2>3 DEF TypeOK, BreakerConsistent, Guarded
<1>3. ASSUME NEW c \in Callers, Done(c)
      PROVE  /\ pc' \in [Callers -> {"idle", "calling", "ok", "error"}]
             /\ is_half_open_probe' \in [Callers -> BOOLEAN]
             /\ \A d \in Callers : is_half_open_probe'[d] => pc'[d] # "idle"
             /\ \A d \in Callers \ {c} : is_half_open_probe'[d] <=> is_half_open_probe[d]
  <2>1. \A d \in Callers : pc'[d] = (IF d = c THEN "idle" ELSE pc[d])
    BY <1>3 DEF Done, TypeOK
  <2>2. \A d \in Callers : /\ d # c => is_half_open_probe'[d] = is_half_open_probe[d]
                           /\ d = c => is_half_open_probe'[d] = FALSE
    BY <1>3 DEF Done, TypeOK
  <2>3. /\ pc' \in [Callers -> {"idle", "calling", "ok", "error"}]
        /\ is_half_open_probe' \in [Callers -> BOOLEAN]
    BY <1>3 DEF Done, TypeOK
  <2> QED
    BY <2>1, <2>2, <2>3 DEF Guarded
<1>4. ASSUME NEW c \in Callers, RecordSuccess(c) PROVE IInv'
  <2>1. /\ state' = "Closed" /\ consecutive_failures' = 0 /\ last_failure' = "none"
        /\ half_open_probe_in_progress' = FALSE
        /\ Done(c) /\ UNCHANGED <<up, outages, drops>>
    BY <1>4 DEF RecordSuccess
  <2>2. TypeOK'
    <3>1. half_open_probe_in_progress' \in BOOLEAN
      BY <2>1
    <3>2. up' \in BOOLEAN
      BY <2>1 DEF TypeOK
    <3>3. 0 \in 0 .. Threshold
      OBVIOUS
    <3> QED
      BY <2>1, <1>3, <3>1, <3>2, <3>3 DEF TypeOK
  <2>3. BreakerConsistent'
    BY <2>1 DEF BreakerConsistent
  <2>4. Guarded'
    BY <2>1, <1>3 DEF Guarded
  <2> QED
    BY <2>2, <2>3, <2>4
<1>5. ASSUME NEW c \in Callers, RecordFailure(c) PROVE IInv'
  <2>1. /\ half_open_probe_in_progress' =
             (half_open_probe_in_progress /\ ~is_half_open_probe[c])
        /\ last_failure' = "recent"
        /\ Done(c) /\ UNCHANGED <<up, outages, drops>>
    BY <1>5 DEF RecordFailure
  <2>2. /\ consecutive_failures' \in 1 .. Threshold
        /\ state' \in {"Closed", "Open"}
        /\ state' = "Open" <=> consecutive_failures' >= Threshold
        /\ state = "Open" => state' = "Open"
    <3>1. CASE state = "Closed"
      <4>1. /\ consecutive_failures \in 0 .. Threshold - 1
            /\ consecutive_failures' = consecutive_failures + 1
            /\ state' = IF consecutive_failures' >= Threshold THEN "Open" ELSE "Closed"
        BY <1>5, <3>1 DEF RecordFailure, BreakerConsistent, TypeOK
      <4> QED
        BY <3>1, <4>1
    <3>2. CASE state = "Open"
      <4>1. consecutive_failures' = Threshold /\ state' = "Open"
        BY <1>5, <3>2 DEF RecordFailure
      <4> QED
        BY <4>1
    <3> QED
      BY <3>1, <3>2 DEF TypeOK
  <2>3. half_open_probe_in_progress' \in BOOLEAN
    BY <2>1
  <2>4. TypeOK'
    BY <2>1, <2>2, <2>3, <1>3 DEF TypeOK
  <2>5. half_open_probe_in_progress' => half_open_probe_in_progress /\ ~is_half_open_probe[c]
    BY <2>1
  <2>6. BreakerConsistent'
    BY <2>1, <2>2, <2>5 DEF BreakerConsistent
  <2>7. Guarded'
    BY <2>1, <2>5, <1>3 DEF Guarded
  <2> QED
    BY <2>4, <2>6, <2>7
<1>6. ASSUME NEW c \in Callers, Drop(c) PROVE IInv'
  <2>1. /\ drops' = drops + 1 /\ drops' \in 0 .. MaxDrops /\ drops' > 0
        /\ Done(c) /\ UNCHANGED <<breaker, up, outages>>
    BY <1>6 DEF Drop, TypeOK
  <2> QED
    BY <2>1, <1>3 DEF TypeOK, BreakerConsistent, Guarded
<1>7. ASSUME Elapse \/ GoesDown \/ ComesBack \/ UNCHANGED vars PROVE IInv'
  <2>1. UNCHANGED <<state, consecutive_failures, half_open_probe_in_progress, callers, drops>>
    BY <1>7 DEF Elapse, GoesDown, ComesBack
  <2>2. /\ last_failure' \in {"none", "recent", "old"}
        /\ last_failure' = "none" <=> last_failure = "none"
    BY <1>7 DEF Elapse, GoesDown, ComesBack, TypeOK
  <2>3. up' \in BOOLEAN
    <3>1. up' = up \/ up' = FALSE \/ up' = TRUE
      BY <1>7 DEF Elapse, GoesDown, ComesBack
    <3> QED
      BY <3>1 DEF TypeOK
  <2>4. outages' \in 0 .. MaxOutages
    <3>1. outages' = outages \/ (outages < MaxOutages /\ outages' = outages + 1)
      BY <1>7 DEF Elapse, GoesDown, ComesBack
    <3> QED
      BY <3>1 DEF TypeOK
  <2> QED
    BY <2>1, <2>2, <2>3, <2>4 DEF TypeOK, BreakerConsistent, Guarded
<1>8. ASSUME NEW c \in Callers, Reject(c) PROVE UNCHANGED vars
  BY <1>8 DEF Reject
<1> QED
  BY <1>1, <1>2, <1>4, <1>5, <1>6, <1>7, <1>8 DEF Next, Finish

(* The invariant holds of every behaviour.                                  *)
THEOREM Invariant == Spec => []IInv
BY InitIInv, StepIInv, PTL DEF Spec

(* The breaker is open exactly when it has counted Threshold consecutive    *)
(* failures, whatever outcomes of older calls arrive in between.            *)
THEOREM AlwaysConsistent == Spec => []BreakerConsistent
<1>1. IInv => BreakerConsistent
  BY DEF IInv
<1> QED
  BY <1>1, Invariant, PTL

(* The probe guard is never left behind by a caller that finishes.          *)
THEOREM GuardIsCleared == Spec => []GuardHasProbe
<1>1. IInv => GuardHasProbe
  BY DEF IInv, Guarded, GuardHasProbe, Probing
<1> QED
  BY <1>1, Invariant, PTL
=============================================================================

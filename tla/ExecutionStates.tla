-------------------------- MODULE ExecutionStates --------------------------
(***************************************************************************)
(* What the orchestrator promises of executions.state: the table of        *)
(* ExecutionOrchestrator::is_valid_transition.                             *)
(***************************************************************************)

VARIABLE state

ExecutionState ==
    {"pending", "running", "succeeded", "failed", "cancelled", "timeout"}

Ended == {"succeeded", "failed", "cancelled", "timeout"}

IsValidTransition(from, to) ==
    \/ from = "pending" /\ to = "running"
    \/ from = "running" /\ to \in Ended
    \/ from = "failed" /\ to = "running"

Init == state = "pending"

Next == /\ state' \in ExecutionState
        /\ IsValidTransition(state, state')

Spec == Init /\ [][Next]_state
=============================================================================

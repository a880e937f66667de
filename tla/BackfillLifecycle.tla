------------------------- MODULE BackfillLifecycle -------------------------
(***************************************************************************)
(* The abstract life of one row of backfill_jobs: the states of the        *)
(* valid_backfill_state constraint and the transition table that           *)
(* validate_backfill_state_transition enforces.  Only one of the writers   *)
(* of the state column goes through that table; claim, pause, resume,      *)
(* cancel and the two parent transitions are UPDATE statements of their    *)
(* own.  The detailed modules show that every writer obeys the table.      *)
(***************************************************************************)

VARIABLE state

JobStates == {"pending", "waiting_upstream", "running", "paused", "resuming",
              "completed", "failed", "cancelled"}

Terminal == {"completed", "failed", "cancelled"}

ValidTransition ==
    {<<"pending", "running">>,          <<"pending", "waiting_upstream">>,
     <<"pending", "cancelled">>,        <<"waiting_upstream", "pending">>,
     <<"waiting_upstream", "failed">>,  <<"waiting_upstream", "cancelled">>,
     <<"running", "waiting_upstream">>, <<"running", "completed">>,
     <<"running", "failed">>,           <<"running", "cancelled">>,
     <<"running", "paused">>,           <<"paused", "resuming">>,
     <<"paused", "cancelled">>,         <<"resuming", "running">>,
     <<"resuming", "cancelled">>}

\* Every creator inserts the row as 'pending'.
Init == state = "pending"

Transition(t) == <<state, t>> \in ValidTransition /\ state' = t

Next == \E t \in JobStates : Transition(t)

Spec == Init /\ [][Next]_state
=============================================================================

----------------------------- MODULE MCPlanning -----------------------------
(***************************************************************************)
(* The components that plan work within one process, the executor that     *)
(* runs it locally, the door of the worker and the attempts at one         *)
(* partition, side by side for TLC.  They share no state, so a behaviour   *)
(* moves one of them, chosen at its start: their product would only        *)
(* multiply the states.                                                    *)
(***************************************************************************)
EXTENDS Integers, Sequences

CONSTANTS Ids, Names,           \* the registry
          AssetIds, Assets, Workflows,    \* the compiler
          Keys, Types, Mappings, NoType,  \* the partition mappings
          MaxAttempts, InitialDelay, MaxDelay, MaxElapsed, MaxDuration,
          Durations, Partitions, Fractions,
          Callers, Keyed, NumAssets, MaxCancels,
          Tasks, BurstSize,
          Executors, MaxRetries, PageSize, MaxWorkflows, MaxFaults

\* A retry policy makes an attempt, its first delay is under the cap, and it
\* allows some time; durations are not negative; keys belong to callers; a
\* partition is attempted once whatever the number of retries.
ASSUME PlanningAssumption ==
    /\ MaxAttempts \in Nat \ {0}
    /\ InitialDelay \in Nat /\ MaxDelay \in Nat /\ InitialDelay <= MaxDelay
    /\ MaxElapsed \in Nat /\ MaxElapsed + MaxDelay > 0
    /\ Durations \subseteq Nat /\ Partitions \in Nat /\ Fractions \in Nat \ {0}
    /\ NumAssets \in Nat /\ Keyed \subseteq Callers
    /\ MaxRetries \in Nat \ {0}

\* What depends and what is listed are identifiers of assets.
ASSUME CompilerAssumption ==
    /\ \A asset \in Assets : asset.dependencies \in Seq(AssetIds)
    /\ Workflows \subseteq Seq(AssetIds)

\* A key is a number of hours or days, a year, a month or a week of a year, of
\* which there may be none; and no configuration is no type of partition.
ASSUME MappingAssumption ==
    /\ \A key \in Keys :
          \/ /\ key[1] \in {"Hourly", "Daily", "Yearly"}
             /\ key = <<key[1], key[2]>> /\ key[2] \in Nat
          \/ /\ key[1] = "Weekly"
             /\ key = <<key[1], key[2], key[3]>> /\ key[2] \in Nat /\ key[3] \in Nat
          \/ /\ key[1] = "Monthly"
             /\ key = <<key[1], key[2], key[3]>> /\ key[2] \in Nat /\ key[3] \in 1..12
    /\ \A grain \in {"Hourly", "Daily", "Weekly", "Monthly", "Yearly"} :
          <<"Time", grain>> # NoType

VARIABLES
    focus,
    byId, byName,
    assetsById, assetsByName, workflow, indegree, ready, ordered, outcome,
    call,
    strategy, phase, attempt, elapsed, wake, started,
    average, count, saved, observed, remaining,
    row, pc, position, child, result, reply, flags, canceller, cancels,
    completed, late,
    form, whereabouts, worker, budget, spawned, lost, spent, doorFaults,
    rowState, attempt_count, execution_id, step, claimed, ending, execution,
    tasks, operator, newer, delivered, givenUp, attemptFaults

(* Three assets, the third of which may come again under another name.     *)
Dependency == {<<>>, <<"a">>, <<"b">>, <<"c">>, <<"a", "a">>, <<"a", "b">>}
OfferedAssets ==
    [id : {"a"}, name : {"a"}, dependencies : Dependency \ {<<"a", "b">>}]
        \cup [id : {"b"}, name : {"b"}, dependencies : Dependency]
        \cup [id : {"c"}, name : {"c", "d"}, dependencies : Dependency \ {<<"c">>}]
SomeWorkflows == {<<"a", "b">>, <<"b", "a", "c">>, <<"a", "b", "a">>, <<"c", "b">>, <<>>}

Years == {1900, 2000, 2020, 2023, 2024}
SomeKeys == {<<"Yearly", y>> : y \in Years}
         \cup {<<"Monthly", y, m>> : y \in Years, m \in {1, 2, 4, 12}}
         \cup {<<"Weekly", y, w>> : y \in {2020, 2023, 2024}, w \in {1, 52, 53}}
         \cup {<<"Daily", d>> : d \in {738945, 738946, 739309, 739311, 739312}}
         \cup {<<"Hourly", h>> : h \in {24 * 738945, 24 * 738945 + 23}}
Grains == {"Hourly", "Daily", "Weekly", "Monthly", "Yearly"}
SomeTypes == {<<"Time", g>> : g \in Grains}
          \cup {<<"Range", 738945, 739310>>, <<"Custom", "e">>}
SomeMappings == {<<"Identity">>, <<"Custom">>, <<"Window", 7, "Daily">>,
                 <<"Window", 3, "Hourly">>, <<"Offset", -1, "Daily">>,
                 <<"Offset", 2, "Hourly">>, <<"Window", 2, "Weekly">>,
                 <<"Aggregation", "Daily", "Weekly">>,
                 <<"Aggregation", "Daily", "Hourly">>}

Strategies == {"None", "Fixed", "Exponential", "ExponentialWithJitter"}

Registry == INSTANCE AssetRegistry
Compiler == INSTANCE WorkflowCompiler
Mapping == INSTANCE PartitionMapping
Retry == INSTANCE RetryPolicy
Eta == INSTANCE EtaCalculator
Local == INSTANCE LocalExecution
Door == INSTANCE WorkerService WITH place <- whereabouts, faults <- doorFaults
Attempts == INSTANCE PartitionExecution
    WITH state <- rowState, pc <- step, attempt <- claimed, outcome <- ending,
         faults <- attemptFaults

registryVars == <<byId, byName>>
compilerVars ==
    <<assetsById, assetsByName, workflow, indegree, ready, ordered, outcome>>
mappingVars == <<call>>
retryVars == <<strategy, phase, attempt, elapsed, wake, started>>
etaVars == <<average, count, saved, observed, remaining>>
localVars == <<row, pc, position, child, result, reply, flags, canceller,
               cancels, completed, late>>
planningVars == <<registryVars, compilerVars, mappingVars, retryVars, etaVars>>
doorVars == <<form, whereabouts, worker, budget, spawned, lost, spent, doorFaults>>
attemptVars ==
    <<rowState, attempt_count, execution_id, step, claimed, ending, execution,
      tasks, operator, newer, delivered, givenUp, attemptFaults>>
vars == <<focus, planningVars, localVars, doorVars, attemptVars>>

Init ==
    /\ focus \in {"registry", "compiler", "mapping", "retry", "eta", "local",
                  "door", "attempts"}
    /\ Registry!Init /\ Compiler!Init /\ Mapping!Init /\ Eta!Init
    /\ Retry!Init /\ (focus # "retry" => strategy = "None")
    /\ Local!Init
    /\ Door!Init
    /\ focus # "door" => \A t, u \in Tasks : form[t] = form[u] /\ form[t] \in Door!Contract
    /\ Attempts!Init

Plan ==
    \/ /\ focus = "registry" /\ Registry!Next
       /\ UNCHANGED <<compilerVars, mappingVars, retryVars, etaVars>>
    \/ /\ focus = "compiler" /\ Compiler!Next
       /\ UNCHANGED <<registryVars, mappingVars, retryVars, etaVars>>
    \/ /\ focus = "mapping" /\ Mapping!Next
       /\ UNCHANGED <<registryVars, compilerVars, retryVars, etaVars>>
    \/ /\ focus = "retry" /\ Retry!Next
       /\ UNCHANGED <<registryVars, compilerVars, mappingVars, etaVars>>
    \/ /\ focus = "eta" /\ Eta!Next
       /\ UNCHANGED <<registryVars, compilerVars, mappingVars, retryVars>>

\* A step of the executor, of the door, of the attempts: the others rest.
Locally(A) == focus = "local" /\ A /\ UNCHANGED <<focus, planningVars, doorVars, attemptVars>>
AtDoor(A) == focus = "door" /\ A /\ UNCHANGED <<focus, planningVars, localVars, attemptVars>>
Attempting(A) == focus = "attempts" /\ A /\ UNCHANGED <<focus, planningVars, localVars, doorVars>>

Next ==
    \/ Plan /\ UNCHANGED <<focus, localVars, doorVars, attemptVars>>
    \/ Locally(Local!Next)
    \/ AtDoor(Door!Next)
    \/ Attempting(Attempts!Next)

(* The fairness of each component, where it is the one that moves.         *)
Call(c) == Locally(Local!Call(c))
Timer(c) == Locally(Local!Timer(c))
Process == AtDoor(Door!Process)
Refill == AtDoor(Door!Refill)
Handle(t) == AtDoor(Door!Handle(t))
AnswerArrives(t) == AtDoor(Door!AnswerArrives(t))
Attempt(e) == Attempting(Attempts!Attempt(e))
WaitEnds(e) == Attempting(Attempts!WaitEnds(e))

Spec ==
    /\ Init /\ [][Next]_vars
    /\ \A c \in Callers : WF_vars(Call(c)) /\ WF_vars(Timer(c))
    /\ WF_vars(Process) /\ WF_vars(Refill)
    /\ \A t \in Tasks : WF_vars(Handle(t)) /\ WF_vars(AnswerArrives(t))
    /\ \A e \in Executors : WF_vars(Attempt(e)) /\ WF_vars(WaitEnds(e))

RegistryConsistent == Registry!RegistryConsistent
PlanSound == Compiler!PlanSound
MappingSound == Mapping!MappingSound
RetryBounded == Retry!RetryBounded
EstimateWithinObserved == Eta!EstimateWithinObserved
RunsSound == Local!RunsSound
CallsEnd == Local!CallsEnd
AdmissionSound == Door!AdmissionSound
GenuineServed == focus = "door" => Door!GenuineServed
AttemptsSound == Attempts!AttemptsSound
PartitionSettles == Attempts!PartitionSettles
=============================================================================

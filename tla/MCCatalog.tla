----------------------------- MODULE MCCatalog ------------------------------
(***************************************************************************)
(* The clients of the catalogue and the worker's parts side by side for    *)
(* TLC: lineage reads while others change the tables, the deployment of a  *)
(* workflow, the commands that create backfills, the checks on an asset's  *)
(* rows, the run of a plan with its checks, the rate limiters, the secrets *)
(* that sign tasks and the caches before remote answers.  They share no    *)
(* state, so a behaviour moves one of them, chosen at its start.           *)
(***************************************************************************)
EXTENDS Integers, Sequences, FiniteSets

CONSTANTS Assets, Names, DependencyTypes, InitialAssets, InitialDeps, MaxDepth,
          MaxChanges,
          Deployers, MaxFires,
          Commands, LastDate, MaxSeconds,
          Columns, RefColumn, Numbers, Strings, MaxRows, MaxFailedSamples,
          Deliveries, Plan, CheckIds, CheckDefinitions, MaxEdits,
          Clients, Rate, Period, MaxTime, MaxRequests,
          Requests, MaxVersion, Weak, MayFail,
          Askers, Keys, Ttl, Margin, MaxDelay, MaxClock

\* What execute_check stores of a verdict (QualityChecks, OutcomeOf).
CheckOutcomes == {"passed", "failed", "skipped"}

\* The ends of a dependency are assets that are there, of which there are
\* finitely many.
ASSUME LineageAssumption ==
    /\ IsFiniteSet(Assets) /\ MaxDepth \in Nat
    /\ DOMAIN InitialAssets \subseteq Assets
    /\ \A table \in InitialDeps :
          /\ table \subseteq [up : Assets, down : Assets, type : DependencyTypes]
          /\ \A d \in table : {d.up, d.down} \subseteq DOMAIN InitialAssets

\* A request gives up long before the margin (300 s) and the life of what is
\* cached are over.
ASSUME CacheAssumption ==
    /\ {Ttl, Margin, MaxDelay} \subseteq Nat
    /\ MaxDelay <= Margin /\ MaxDelay < Ttl

\* A calendar has a last day.
ASSUME CalendarAssumption == LastDate \in Nat

\* The rows of an asset and the samples are counted; a number is compared.
ASSUME QualityAssumption ==
    /\ {MaxRows, MaxFailedSamples} \subseteq Nat
    /\ Numbers \subseteq Int

\* A request that was let through is paid for in whole ticks.
ASSUME RateAssumption == {Rate, Period} \subseteq Nat \ {0} /\ Rate <= Period

\* A plan and a check are about assets.
ASSUME RunAssumption ==
    /\ Plan \in Seq(Assets)
    /\ CheckDefinitions \subseteq
          [asset : Assets, name : STRING, outcome : CheckOutcomes, severity : STRING,
           blocking : BOOLEAN, enabled : BOOLEAN]

VARIABLES
    focus,
    assets, deps, pc, start, ways, queue, visited, current, fetching, nodes,
    edges, lineage, kept, seen, changes,
    step, definition, foundJob, copy, deployed, cloudJob, request, fires,
    executions,
    stage, asked, checked, second, mine, began, jobs, resuming, keyClock,
    rows, check, verdict,
    checks, results, runPc, position, fetched, ran, edited, edits,
    time, limiters, log,
    newest, disabled, valid_secrets, stale, secretPc, latest, signature,
    knownDisabled, basis, callFailed,
    kind, clock, remote, cache, asker, gone

ThreeAssets == [a |-> "x", b |-> "y", c |-> "z"]
Row(u, d, t) == [up |-> u, down |-> d, type |-> t]
SomeDependencies ==
    { {Row("a", "b", "data"), Row("b", "c", "data")},
      {Row("a", "b", "data"), Row("b", "c", "data"), Row("c", "a", "data")},
      {Row("a", "b", "data"), Row("a", "b", "control"), Row("a", "c", "data")} }

TwoAssets == <<"a", "b">>
Define(a, n, o, s, b, e) ==
    [asset |-> a, name |-> n, outcome |-> o, severity |-> s, blocking |-> b,
     enabled |-> e]
SomeChecks ==
    { Define("a", "n", "failed", "error", TRUE, TRUE),
      Define("a", "m", "passed", "error", TRUE, TRUE),
      Define("a", "n", "skipped", "error", TRUE, TRUE),
      Define("b", "n", "failed", "warning", TRUE, TRUE),
      Define("b", "m", "failed", "error", FALSE, TRUE),
      Define("b", "n", "failed", "error", TRUE, FALSE),
      Define("a", "n", "failed", "fatal", TRUE, TRUE) }

Lineage == INSTANCE LineageReads
Deploy == INSTANCE ScheduleDeploy WITH row <- deployed, found <- foundJob
Backfills == INSTANCE BackfillCommands WITH clock <- keyClock
Quality == INSTANCE QualityChecks
Run == INSTANCE AssetRun
    WITH pc <- runPc, index <- position, Definitions <- CheckDefinitions
Tenants == INSTANCE RateLimiter WITH PerAddress <- FALSE
Addresses == INSTANCE RateLimiter WITH PerAddress <- TRUE
Secrets == INSTANCE SigningSecrets
    WITH pc <- secretPc, known <- knownDisabled, failed <- callFailed
Caches == INSTANCE CloudCaches WITH MaxTime <- MaxClock

lineageVars == <<assets, deps, pc, start, ways, queue, visited, current,
                 fetching, nodes, edges, lineage, kept, seen, changes>>
deployVars == <<step, definition, foundJob, copy, deployed, cloudJob, request,
                fires, executions>>
commandVars == <<stage, asked, checked, second, mine, began, jobs, resuming,
                 keyClock>>
qualityVars == <<rows, check, verdict>>
runVars == <<checks, results, runPc, position, fetched, ran, edited, edits>>
limitVars == <<time, limiters, log>>
secretVars == <<newest, disabled, valid_secrets, stale, secretPc, latest,
                signature, knownDisabled, basis, callFailed>>
cacheVars == <<kind, clock, remote, cache, asker, gone>>
catalogVars == <<lineageVars, deployVars, commandVars>>
workVars == <<qualityVars, runVars>>
doorVars == <<limitVars, secretVars, cacheVars>>
vars == <<focus, catalogVars, workVars, doorVars>>

Init ==
    /\ focus \in {"lineage", "deploy", "backfills", "quality", "run",
                  "tenants", "addresses", "secrets", "caches"}
    /\ Lineage!Init
    /\ focus # "lineage" => deps = CHOOSE table \in InitialDeps : TRUE
    /\ Deploy!Init
    /\ Backfills!Init
    /\ Quality!Init
    /\ Run!Init /\ (focus # "run" => checks = <<>>)
    /\ Tenants!Init
    /\ Secrets!Init /\ (focus # "secrets" => newest = 1)
    /\ Caches!Init /\ (focus # "caches" => kind = "token")

Next ==
    \/ /\ focus = "lineage" /\ Lineage!Next
       /\ UNCHANGED <<focus, deployVars, commandVars, workVars, doorVars>>
    \/ /\ focus = "deploy" /\ Deploy!Next
       /\ UNCHANGED <<focus, lineageVars, commandVars, workVars, doorVars>>
    \/ /\ focus = "backfills" /\ Backfills!Next
       /\ UNCHANGED <<focus, lineageVars, deployVars, workVars, doorVars>>
    \/ /\ focus = "quality" /\ Quality!Next
       /\ UNCHANGED <<focus, catalogVars, runVars, doorVars>>
    \/ /\ focus = "run" /\ Run!Next
       /\ UNCHANGED <<focus, catalogVars, qualityVars, doorVars>>
    \/ /\ \/ focus = "tenants" /\ Tenants!Next
          \/ focus = "addresses" /\ Addresses!Next
       /\ UNCHANGED <<focus, catalogVars, workVars, secretVars, cacheVars>>
    \/ /\ focus = "secrets" /\ Secrets!Next
       /\ UNCHANGED <<focus, catalogVars, workVars, limitVars, cacheVars>>
    \/ /\ focus = "caches" /\ Caches!Next
       /\ UNCHANGED <<focus, catalogVars, workVars, limitVars, secretVars>>

Spec == Init /\ [][Next]_vars

LineageComplete == Lineage!LineageComplete
ReportRight == Lineage!ReportRight
ScheduleSettled == Deploy!ScheduleSettled
OverlapOnlyByRace == Backfills!OverlapOnlyByRace
VerdictRight == Quality!VerdictRight
DeliverySound == Run!DeliverySound
QuotaPerClient ==
    IF focus = "addresses" THEN Addresses!QuotaPerClient ELSE Tenants!QuotaPerClient
SecretsSound == Secrets!SecretsSound
CacheSound == Caches!CacheSound
=============================================================================

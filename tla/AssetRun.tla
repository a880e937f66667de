------------------------------ MODULE AssetRun ------------------------------
(***************************************************************************)
(* The inside of the step that ExecutionLifecycle takes as one: a          *)
(* delivery of a task runs the assets of its plan one after the other, and *)
(* after each the checks that are enabled for it, while an operator edits  *)
(* the checks (executor.rs, execute_workflow; postgres.rs, the asset_checks*)
(* and check_results tables).                                              *)
(*                                                                         *)
(* The worker always checks the same sample rows, so the outcome of a      *)
(* check is a function of its type: the type is named by that outcome      *)
(* (module QualityChecks says which types give which).                     *)
(***************************************************************************)
EXTENDS Naturals, Sequences, FiniteSets

CONSTANTS Deliveries,    \* deliveries of the execution's task
          Plan,          \* execution_plan: a sequence of assets
          CheckIds,      \* identifiers of checks
          Definitions,   \* the definitions an operator writes
          MaxEdits       \* bound on the edits of an operator

VARIABLES checks,        \* asset_checks: a partial function from CheckIds
          results,       \* check_results of the execution
          pc, index,     \* where each delivery is, and at which asset
          fetched,       \* the checks a delivery read for that asset
          ran,           \* history: the assets a delivery ran
          edited,        \* history: the checks edited since it began
          edits          \* edits so far

vars == <<checks, results, pc, index, fetched, ran, edited, edits>>

PlanAssets == {Plan[i] : i \in DOMAIN Plan}
Severities == {"info", "warning", "error"}

\* Two checks of one asset cannot have one name: UNIQUE (asset_id, name).
Clash(k, def) ==
    \E j \in DOMAIN checks \ {k} : /\ checks[j].asset = def.asset
                                   /\ checks[j].name = def.name

\* validate_non_empty_string and validate_check_severity.
ValidDefinition(def) == def.name # "" /\ def.severity \in Severities

Init ==
    /\ checks \in {c \in UNION {[K -> Definitions] : K \in SUBSET CheckIds} :
                      /\ \A k \in DOMAIN c : ValidDefinition(c[k])
                      /\ \A j, k \in DOMAIN c :
                            j # k => c[j].asset # c[k].asset \/ c[j].name # c[k].name}
    /\ results = {}
    /\ pc = [d \in Deliveries |-> "idle"]
    /\ index = [d \in Deliveries |-> 0]
    /\ fetched = [d \in Deliveries |-> {}]
    /\ ran = [d \in Deliveries |-> <<>>]
    /\ edited = [d \in Deliveries |-> {}]
    /\ edits = 0

-----------------------------------------------------------------------------
Goto(d, place) == pc' = [pc EXCEPT ![d] = place]

\* The loop's next asset, or the end of the plan.
Advance(d) ==
    IF index[d] = Len(Plan)
    THEN Goto(d, "ok") /\ UNCHANGED index
    ELSE Goto(d, "run") /\ index' = [index EXCEPT ![d] = @ + 1]

\* A delivery begins with the first asset of its plan.
Begin(d) ==
    /\ pc[d] = "idle"
    /\ Advance(d)
    /\ UNCHANGED <<checks, results, fetched, ran, edited, edits>>

(***************************************************************************)
(* execute_asset: reads the asset, runs its function in a python process   *)
(* if it has one; a failure of either ends the delivery.                   *)
(***************************************************************************)
ExecuteAsset(d) ==
    /\ pc[d] = "run"
    /\ ran' = [ran EXCEPT ![d] = Append(@, Plan[index[d]])]
    /\ Goto(d, "list") \/ Goto(d, "error")
    /\ UNCHANGED <<checks, results, index, fetched, edited, edits>>

\* Mutant: the checks that do not block are not read.
ListBlockingChecks(asset) ==
    {k \in DOMAIN checks :
        checks[k].asset = asset /\ checks[k].enabled /\ checks[k].blocking}

\* list_asset_checks with enabled_only.
ListAssetChecks(asset) ==
    {k \in DOMAIN checks : checks[k].asset = asset /\ checks[k].enabled}

(***************************************************************************)
(* run_asset_checks, its first transaction: the checks enabled for the     *)
(* asset.                                                                  *)
(***************************************************************************)
FetchChecks(d) ==
    LET found == ListAssetChecks(Plan[index[d]])
    IN  /\ pc[d] = "list"
        /\ fetched' = [fetched EXCEPT ![d] = {[id |-> k, def |-> checks[k]] : k \in found}]
        /\ IF found = {} THEN Advance(d) ELSE Goto(d, "store") /\ UNCHANGED index
        /\ UNCHANGED <<checks, results, ran, edited, edits>>

\* CheckResultModel, from the definition as it was read.
ResultsOf(d) ==
    {[delivery |-> d, check |-> f.id, asset |-> f.def.asset, outcome |-> f.def.outcome,
      severity |-> f.def.severity, blocking |-> f.def.blocking] : f \in fetched[d]}

(***************************************************************************)
(* create_check_results_batch: one transaction, so all rows or none; a row *)
(* for a check that is gone violates the foreign key.                      *)
(***************************************************************************)
StoreResults(d) ==
    /\ pc[d] = "store"
    /\ IF {f.id : f \in fetched[d]} \subseteq DOMAIN checks
       THEN /\ results' = results \cup ResultsOf(d)
            /\ Goto(d, "judge")
       ELSE Goto(d, "error") /\ UNCHANGED results
    /\ UNCHANGED <<checks, index, fetched, ran, edited, edits>>

\* Mutant: one passing check beside it lets a blocking failure through.
BlockedOnlyByAll(d) ==
    \A r \in ResultsOf(d) : r.blocking /\ r.outcome = "failed"

\* The gate of execute_workflow; it does not ask for the severity.
Blocked(d) == \E r \in ResultsOf(d) : r.blocking /\ r.outcome = "failed"

(***************************************************************************)
(* After the checks: a blocking failure halts the delivery                 *)
(* (get_check_name only finds its name for the message).                   *)
(***************************************************************************)
Judge(d) ==
    /\ pc[d] = "judge"
    /\ IF Blocked(d) THEN Goto(d, "blocked") /\ UNCHANGED index ELSE Advance(d)
    /\ UNCHANGED <<checks, results, fetched, ran, edited, edits>>

Active(d) == pc[d] \in {"run", "list", "store", "judge"}

\* The timeout around execute_workflow, or an error of the database.
GiveUp(d) ==
    /\ Active(d)
    /\ Goto(d, "error")
    /\ UNCHANGED <<checks, results, index, fetched, ran, edited, edits>>

-----------------------------------------------------------------------------
Touch(k) ==
    /\ edits < MaxEdits
    /\ edits' = edits + 1
    /\ edited' = [d \in Deliveries |->
                     IF pc[d] = "idle" THEN edited[d] ELSE edited[d] \cup {k}]
    /\ UNCHANGED <<pc, index, fetched, ran>>

(***************************************************************************)
(* create_asset_check, update_asset_check (which keeps the asset) and      *)
(* delete_asset_check; the results of a check go with it.                  *)
(***************************************************************************)
CreateCheck(k, def) ==
    /\ k \notin DOMAIN checks
    /\ ValidDefinition(def) /\ ~Clash(k, def)
    /\ checks' = [j \in DOMAIN checks \cup {k} |-> IF j = k THEN def ELSE checks[j]]
    /\ Touch(k)
    /\ UNCHANGED results

UpdateCheck(k, def) ==
    LET kept == [def EXCEPT !.asset = checks[k].asset]
    IN  /\ k \in DOMAIN checks
        /\ ValidDefinition(def) /\ ~Clash(k, kept)
        /\ checks' = [checks EXCEPT ![k] = kept]
        /\ Touch(k)
        /\ UNCHANGED results

DeleteCheck(k) ==
    /\ k \in DOMAIN checks
    /\ checks' = [j \in DOMAIN checks \ {k} |-> checks[j]]
    /\ results' = {r \in results : r.check # k}
    /\ Touch(k)

Work(d) ==
    \/ Begin(d) \/ ExecuteAsset(d) \/ FetchChecks(d)
    \/ StoreResults(d) \/ Judge(d) \/ GiveUp(d)

Operator ==
    \E k \in CheckIds :
        \/ DeleteCheck(k)
        \/ \E def \in Definitions : CreateCheck(k, def) \/ UpdateCheck(k, def)

Next == Operator \/ \E d \in Deliveries : Work(d)

Spec == Init /\ [][Next]_vars

-----------------------------------------------------------------------------
(***************************************************************************)
(* get_blocking_check_failures, and should_block of the core's CheckResult.*)
(***************************************************************************)
GetBlockingCheckFailures(d) ==
    {r \in results : /\ r.delivery = d /\ r.blocking
                     /\ r.outcome \in {"failed", "error"}
                     /\ r.severity = "error"}

ShouldBlock(r) ==
    r.blocking /\ r.outcome \in {"failed", "error"} /\ r.severity = "error"

(***************************************************************************)
(* A blocking check whose failure is on record halted the delivery that    *)
(* recorded it: its asset is the last one that delivery ever ran, whatever *)
(* was edited meanwhile, and the delivery does not end well.  A delivery   *)
(* that ends well leaves nothing that the storage or the core would call a *)
(* blocking failure.                                                       *)
(***************************************************************************)
GateHolds ==
    /\ \A r \in results :
          r.blocking /\ r.outcome = "failed" =>
              /\ pc[r.delivery] # "ok"
              /\ ran[r.delivery][Len(ran[r.delivery])] = r.asset
    /\ \A d \in Deliveries :
          pc[d] = "ok" => /\ GetBlockingCheckFailures(d) = {}
                          /\ \A r \in results : r.delivery = d => ~ShouldBlock(r)

(***************************************************************************)
(* A delivery that ends well ran every asset of its plan, and every check  *)
(* that was enabled when it began and was left alone since has its result. *)
(***************************************************************************)
SteadyChecksRan ==
    \A d \in Deliveries :
        pc[d] = "ok" =>
            /\ ran[d] = Plan
            /\ \A k \in DOMAIN checks \ edited[d] :
                  checks[k].asset \in PlanAssets /\ checks[k].enabled =>
                      \E r \in results : r.delivery = d /\ r.check = k

(* Both of every delivery, however deliveries and edits interleave.        *)
DeliverySound == GateHolds /\ SteadyChecksRan
=============================================================================

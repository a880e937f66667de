-------------------------- MODULE WorkflowCompiler --------------------------
(***************************************************************************)
(* Compiling a workflow into an execution plan:                            *)
(* servo-core/src/compiler.rs.                                             *)
(*                                                                         *)
(* The compiler holds the assets registered with it.  A compilation checks *)
(* that every asset and every dependency is known, then sorts the assets   *)
(* by Kahn's algorithm, one popped asset per action.  The edges are kept   *)
(* with their multiplicity: an asset may name the same upstream asset      *)
(* twice (AssetBuilder::depends_on pushes without looking), and a workflow *)
(* may list an asset twice (Workflow::add_asset does not look       *)
(* either).                                                                *)
(***************************************************************************)
EXTENDS Naturals, Sequences, SequencesExt, FiniteSets

CONSTANTS
    Assets,         \* the assets offered: [id, name, dependencies]
    Workflows       \* the workflows compiled: sequences of ids

VARIABLES
    assetsById,     \* the dependencies of the asset registered under an id
    assetsByName,   \* the names taken
    workflow,       \* Workflow.assets of the compilation
    indegree,       \* edges into an asset that are not consumed yet
    ready,          \* the queue of Kahn's algorithm
    ordered,        \* the plan so far
    outcome         \* what the last call answered, or "sorting"

compilerVars ==
    <<assetsById, assetsByName, workflow, indegree, ready, ordered, outcome>>

Outcomes == {"none", "sorting", "plan", "circular",
             "missing_asset", "missing_dependency"}

Init ==
    /\ assetsById = <<>> /\ assetsByName = {}
    /\ workflow = <<>> /\ indegree = <<>> /\ ready = <<>> /\ ordered = <<>>
    /\ outcome = "none"

-----------------------------------------------------------------------------
(* Only a taken name is refused: an asset that comes again under another   *)
(* name replaces the one registered under its identifier.                  *)
RegisterAsset(asset) ==
    /\ outcome # "sorting"
    /\ asset.name \notin assetsByName
    /\ assetsByName' = assetsByName \cup {asset.name}
    /\ assetsById' = [id \in DOMAIN assetsById \cup {asset.id} |->
                        IF id = asset.id THEN asset.dependencies
                                         ELSE assetsById[id]]
    /\ outcome' = "none"
    /\ UNCHANGED <<workflow, indegree, ready, ordered>>

(* Every position of the workflow contributes the edges of its asset.      *)
Members == ToSet(workflow)
Upstreams(id) == ToSet(assetsById[id])
Edges(up, down) ==
    Cardinality({i \in DOMAIN workflow : workflow[i] = down})
        * Cardinality({j \in DOMAIN assetsById[down] : assetsById[down][j] = up})

\* Mutant: the edges of a repeated dependency are counted once.
DistinctDegree(order, id) ==
    Cardinality({i \in DOMAIN order : order[i] = id})
        * Cardinality(ToSet(assetsById[id]))

InitialDegree(order, id) ==
    Cardinality({i \in DOMAIN order : order[i] = id}) * Len(assetsById[id])

Compile(order) ==
    LET known == DOMAIN assetsById
        unknownDependency == \E id \in ToSet(order) :
                                ~(Upstreams(id) \subseteq known \cap ToSet(order))
    IN  /\ outcome # "sorting"
        /\ workflow' = order /\ ordered' = <<>>
        /\ IF ~(ToSet(order) \subseteq known)
           THEN /\ outcome' = "missing_asset"
                /\ indegree' = <<>> /\ ready' = <<>>
           ELSE IF unknownDependency
           THEN /\ outcome' = "missing_dependency"
                /\ indegree' = <<>> /\ ready' = <<>>
           ELSE /\ outcome' = "sorting"
                /\ indegree' = [id \in ToSet(order) |-> InitialDegree(order, id)]
                /\ ready' \in SetToSeqs(
                        {id \in ToSet(order) : InitialDegree(order, id) = 0})
        /\ UNCHANGED <<assetsById, assetsByName>>

(* An asset is popped; the children whose last edge it was become ready.   *)
Pop ==
    /\ outcome = "sorting" /\ ready # <<>>
    /\ LET id == Head(ready)
           freed == {child \in Members :
                        Edges(id, child) > 0 /\ Edges(id, child) = indegree[child]}
       IN  /\ ordered' = Append(ordered, id)
           /\ indegree' = [c \in Members |-> indegree[c] - Edges(id, c)]
           /\ \E pushed \in SetToSeqs(freed) : ready' = Tail(ready) \o pushed
    /\ UNCHANGED <<assetsById, assetsByName, workflow, outcome>>

Finish ==
    /\ outcome = "sorting" /\ ready = <<>>
    /\ outcome' = IF Len(ordered) = Len(workflow) THEN "plan" ELSE "circular"
    /\ UNCHANGED <<assetsById, assetsByName, workflow, indegree, ready, ordered>>

Next ==
    \/ \E asset \in Assets : RegisterAsset(asset)
    \/ \E order \in Workflows : Compile(order)
    \/ Pop
    \/ Finish

Spec == Init /\ [][Next]_compilerVars

-----------------------------------------------------------------------------
\* Assets that wait for each other: each needs another one of them, or itself.
Circular ==
    \E S \in SUBSET Members : S # {} /\ \A id \in S : Upstreams(id) \cap S # {}
Repeats == Cardinality(Members) # Len(workflow)

(* What a compilation answers is right: a plan holds every asset of the    *)
(* workflow once, each after all it depends on, and a workflow is called   *)
(* circular only if its dependencies have a cycle or it lists an asset     *)
(* twice (which the compiler reports as a cycle).                          *)
PlanSound ==
    /\ outcome = "plan" =>
          /\ ToSet(ordered) = Members
          /\ Cardinality(Members) = Len(ordered)
          /\ \A i \in DOMAIN ordered :
                \A up \in Upstreams(ordered[i]) :
                    \E j \in 1..(i - 1) : ordered[j] = up
    /\ outcome = "circular" => Repeats \/ Circular
=============================================================================

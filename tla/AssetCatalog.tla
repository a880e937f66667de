---------------------------- MODULE AssetCatalog ----------------------------
(***************************************************************************)
(* The tables of assets and of dependencies between them, for one tenant:  *)
(* servo-storage/src/postgres.rs and the migrations.                       *)
(*                                                                         *)
(* Every operation is one transaction.  The policies of row level security *)
(* hide the rows of other tenants, so only one tenant is modelled.  An     *)
(* operation that is refused changes nothing; it is a guard here.          *)
(***************************************************************************)
EXTENDS Naturals, FiniteSets, Functions

CONSTANTS
    Assets,         \* identifiers
    Names,          \* names of assets
    DependencyTypes \* "data", "metadata", "control"

VARIABLES
    assets,         \* the name of each asset in the table
    deps            \* rows [up, down, type]; the triple is UNIQUE

catalogVars == <<assets, deps>>

Dependency == [up : Assets, down : Assets, type : DependencyTypes]

-----------------------------------------------------------------------------
(* UNIQUE(name, tenant_id), and a name that is not blank.                  *)
CreateAsset(a, name) ==
    /\ a \notin DOMAIN assets /\ name \notin Range(assets)
    /\ assets' = [b \in DOMAIN assets \cup {a} |->
                    IF b = a THEN name ELSE assets[b]]
    /\ UNCHANGED deps

UpdateAsset(a, name) ==
    /\ a \in DOMAIN assets
    /\ \A b \in DOMAIN assets \ {a} : assets[b] # name
    /\ assets' = [assets EXCEPT ![a] = name]
    /\ UNCHANGED deps

Touches(d, a) == d.up = a \/ d.down = a

(* ON DELETE CASCADE takes the dependencies of the asset with it.          *)
DeleteAsset(a) ==
    /\ a \in DOMAIN assets
    /\ assets' = Restrict(assets, DOMAIN assets \ {a})
    /\ deps' = {d \in deps : ~Touches(d, a)}

(* An asset does not depend on itself; both ends are foreign keys.  Longer *)
(* cycles are accepted.                                                    *)
CreateDependency(d) ==
    /\ d.up # d.down
    /\ {d.up, d.down} \subseteq DOMAIN assets
    /\ d \notin deps
    /\ deps' = deps \cup {d}
    /\ UNCHANGED assets

DeleteDependency(d) ==
    /\ d \in deps
    /\ deps' = deps \ {d}
    /\ UNCHANGED assets

DeleteDependenciesFor(a) ==
    /\ \E d \in deps : Touches(d, a)
    /\ deps' = {d \in deps : ~Touches(d, a)}
    /\ UNCHANGED assets

Change ==
    \/ \E a \in Assets, name \in Names : CreateAsset(a, name) \/ UpdateAsset(a, name)
    \/ \E a \in Assets : DeleteAsset(a) \/ DeleteDependenciesFor(a)
    \/ \E d \in Dependency : CreateDependency(d) \/ DeleteDependency(d)

-----------------------------------------------------------------------------
(* get_asset_dependencies: both queries run in one transaction.            *)
UpstreamRows(a) == {d \in deps : d.down = a}
DownstreamRows(a) == {d \in deps : d.up = a}
=============================================================================

--------------------------- MODULE AssetRegistry ---------------------------
(***************************************************************************)
(* The catalogue of assets shared by the threads of one process:           *)
(* servo-core/src/registry.rs.                                             *)
(*                                                                         *)
(* Two maps under one RwLock: the assets by identifier and the             *)
(* identifiers by name.  Every operation holds the write lock from its     *)
(* first test to its last insertion, so each is one action.  Of an asset   *)
(* only its identifier and its name matter to the maps.                    *)
(***************************************************************************)
EXTENDS Naturals, Sequences, Functions

CONSTANTS
    Ids,        \* identifiers of assets
    Names       \* names of assets

VARIABLES
    byId,       \* assets_by_id: the name of the asset registered under an id
    byName      \* assets_by_name: the id registered under a name

registryVars == <<byId, byName>>

Asset == [id : Ids, name : Names]

(* HashMap::insert and HashMap::remove.                                    *)
Put(map, key, value) ==
    [k \in DOMAIN map \cup {key} |-> IF k = key THEN value ELSE map[k]]
Drop(map, key) == Restrict(map, DOMAIN map \ {key})

TypeOK ==
    /\ DOMAIN byId \subseteq Ids /\ byId \in [DOMAIN byId -> Names]
    /\ DOMAIN byName \subseteq Names /\ byName \in [DOMAIN byName -> Ids]

Init == byId = <<>> /\ byName = <<>>

-----------------------------------------------------------------------------
(* An identifier or a name that is taken is refused.                       *)
Register(asset) ==
    /\ asset.id \notin DOMAIN byId
    /\ asset.name \notin DOMAIN byName
    /\ byName' = Put(byName, asset.name, asset.id)
    /\ byId' = Put(byId, asset.id, asset.name)

\* Mutant: only the registered assets are looked at, not the batch itself.
BatchValidAlone(one, two) ==
    /\ {one.name, two.name} \cap DOMAIN byName = {}
    /\ {one.id, two.id} \cap DOMAIN byId = {}

(* Everything is validated before anything is inserted: no two assets of   *)
(* the batch, and no asset of the batch and a registered one, share a name *)
(* or an identifier.                                                       *)
BatchValid(one, two) ==
    /\ one.name # two.name /\ one.id # two.id
    /\ {one.name, two.name} \cap DOMAIN byName = {}
    /\ {one.id, two.id} \cap DOMAIN byId = {}

RegisterBatch(one, two) ==
    /\ BatchValid(one, two)
    /\ byName' = Put(Put(byName, one.name, one.id), two.name, two.id)
    /\ byId' = Put(Put(byId, one.id, one.name), two.id, two.name)

(* An update that renames moves the entry of the name.                     *)
Update(asset) ==
    /\ asset.id \in DOMAIN byId
    /\ IF byId[asset.id] = asset.name
       THEN byName' = byName
       ELSE /\ asset.name \notin DOMAIN byName
            /\ byName' = Put(Drop(byName, byId[asset.id]), asset.name, asset.id)
    /\ byId' = Put(byId, asset.id, asset.name)

Remove(id) ==
    /\ id \in DOMAIN byId
    /\ byId' = Drop(byId, id)
    /\ byName' = Drop(byName, byId[id])

Clear ==
    /\ DOMAIN byId # {}
    /\ byId' = <<>> /\ byName' = <<>>

Next ==
    \/ \E asset \in Asset : Register(asset) \/ Update(asset)
    \/ \E one, two \in Asset : RegisterBatch(one, two)
    \/ \E id \in Ids : Remove(id)
    \/ Clear

Spec == Init /\ [][Next]_registryVars

-----------------------------------------------------------------------------
(* The two maps describe one catalogue after any sequence of               *)
(* registrations, renames and removals: every registered name leads to the *)
(* asset that bears it, and every asset is found by its name.  get_by_name *)
(* would otherwise miss an asset or return one with another name, and a    *)
(* name left behind would be refused for ever.                             *)
RegistryConsistent ==
    /\ \A id \in DOMAIN byId :
          byId[id] \in DOMAIN byName /\ byName[byId[id]] = id
    /\ \A name \in DOMAIN byName :
          byName[name] \in DOMAIN byId /\ byId[byName[name]] = name
=============================================================================

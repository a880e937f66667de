---------------------------- MODULE LineageReads ----------------------------
(***************************************************************************)
(* The two traversals of the dependencies: get_asset_lineage in            *)
(* servo-storage/src/postgres.rs, and the command `servo lineage' in       *)
(* servo-cli/src/commands/lineage.rs with the graph and the queries of     *)
(* servo-lineage.                                                          *)
(*                                                                         *)
(* Neither reads the catalogue in one transaction: each query is a         *)
(* transaction of its own, an action here, and other clients change the    *)
(* catalogue between two of them.  The order in which a query returns its  *)
(* rows is not specified; they are pushed in any order.                    *)
(***************************************************************************)
EXTENDS AssetCatalog, Sequences, SequencesExt

CONSTANTS
    InitialAssets,  \* the table of assets at the start
    InitialDeps,    \* the tables of dependencies tried
    MaxDepth,       \* max_depth of get_asset_lineage
    MaxChanges      \* bound: changes of the catalogue during a traversal

VARIABLES
    pc,             \* "idle", the phase of a traversal, or "answered"
    start,          \* the asset asked about
    ways,           \* directions of the command: subset of {"up", "down"}
    queue,          \* to_visit: assets, with their depth in the storage query
    visited,        \* assets already met
    current,        \* the asset being visited
    fetching,       \* neighbours whose details are still to be read
    nodes,          \* asset_cache, then the nodes of the graph
    edges,          \* the edges added: <<up, down>> to how many
    lineage,        \* the rows collected by get_asset_lineage
    kept,           \* rows that were there since the traversal began
    seen,           \* rows that were there at some time since then
    changes

readVars == <<pc, start, ways, queue, visited, current, fetching, nodes, edges,
              lineage>>
lineageVars == <<catalogVars, readVars, kept, seen, changes>>

NoAsset == "none"

Init ==
    /\ deps \in InitialDeps
    /\ assets = InitialAssets
    /\ pc = "idle" /\ start = NoAsset /\ ways = {} /\ queue = <<>>
    /\ visited = {} /\ current = NoAsset /\ fetching = {} /\ nodes = {}
    /\ edges = <<>> /\ lineage = {} /\ kept = {} /\ seen = {} /\ changes = 0

(* The catalogue as the traversals of one reader see it change.            *)
ChangeCatalog ==
    /\ pc \notin {"idle", "answered"} /\ changes < MaxChanges
    /\ Change
    /\ changes' = changes + 1
    /\ kept' = kept \cap deps' /\ seen' = seen \cup deps'
    /\ UNCHANGED readVars

Quiet == UNCHANGED <<catalogVars, kept, seen, changes>>

Begin(a) ==
    /\ pc = "idle"
    /\ start' = a /\ kept' = deps /\ seen' = deps
    /\ UNCHANGED <<catalogVars, current, fetching, nodes, edges, lineage, changes>>

-----------------------------------------------------------------------------
(* get_asset_lineage: a walk in both directions, to a depth.               *)
BeginStorage(a) ==
    /\ Begin(a)
    /\ pc' = "storage" /\ ways' = {}
    /\ queue' = <<[asset |-> a, depth |-> 0]>> /\ visited' = {a}

(* An asset that was met is not met again; a depth is not gone beyond.     *)
Reached(asset) ==
    ({d.up : d \in UpstreamRows(asset)} \cup {d.down : d \in DownstreamRows(asset)})
        \ visited

\* Mutant: the last level is left out.
TooDeepEarly(depth) == depth + 1 >= MaxDepth

TooDeep(depth) == depth >= MaxDepth

VisitStorage ==
    /\ pc = "storage" /\ queue # <<>>
    /\ LET asset == Head(queue).asset
           depth == Head(queue).depth
       IN  IF TooDeep(depth)
           THEN queue' = Tail(queue) /\ UNCHANGED <<visited, lineage>>
           ELSE /\ lineage' = lineage \cup UpstreamRows(asset) \cup DownstreamRows(asset)
                /\ visited' = visited \cup Reached(asset)
                /\ \E found \in SetToSeqs(Reached(asset)) :
                      queue' = Tail(queue) \o [i \in DOMAIN found |->
                                  [asset |-> found[i], depth |-> depth + 1]]
    /\ UNCHANGED <<pc, start, ways, current, fetching, nodes, edges>>
    /\ Quiet

AnswerStorage ==
    /\ pc = "storage" /\ queue = <<>>
    /\ pc' = "answered"
    /\ UNCHANGED <<start, ways, queue, visited, current, fetching, nodes, edges, lineage>>
    /\ Quiet

-----------------------------------------------------------------------------
(* servo lineage: without a flag, both directions.                         *)
BeginCommand(a, flags) ==
    /\ a \in DOMAIN assets
    /\ Begin(a)
    /\ pc' = "visit" /\ queue' = <<a>> /\ visited' = {}
    /\ ways' = IF flags = {} THEN {"up", "down"} ELSE flags

Skip ==
    /\ pc = "visit" /\ queue # <<>> /\ Head(queue) \in visited
    /\ queue' = Tail(queue)
    /\ UNCHANGED <<pc, start, ways, visited, current, fetching, nodes, edges, lineage>>
    /\ Quiet

(* get_asset, unless the details are cached; an asset that is not there is *)
(* passed over, but stays visited.                                         *)
Visit ==
    /\ pc = "visit" /\ queue # <<>> /\ Head(queue) \notin visited
    /\ queue' = Tail(queue)
    /\ visited' = visited \cup {Head(queue)}
    /\ IF Head(queue) \in nodes \cup DOMAIN assets
       THEN /\ pc' = "expand" /\ current' = Head(queue)
            /\ nodes' = nodes \cup {Head(queue)}
       ELSE UNCHANGED <<pc, current, nodes>>
    /\ UNCHANGED <<start, ways, fetching, edges, lineage>>
    /\ Quiet

\* Mutant: the loop over the downstream rows reads their upstream end.
NeighboursUp(asset) ==
    (IF "up" \in ways THEN {d.up : d \in UpstreamRows(asset)} ELSE {})
        \cup (IF "down" \in ways THEN {d.up : d \in DownstreamRows(asset)} ELSE {})

Neighbours(asset) ==
    (IF "up" \in ways THEN {d.up : d \in UpstreamRows(asset)} ELSE {})
        \cup (IF "down" \in ways THEN {d.down : d \in DownstreamRows(asset)} ELSE {})

Expand ==
    /\ pc = "expand"
    /\ \E found \in SetToSeqs(Neighbours(current) \ visited) : queue' = queue \o found
    /\ fetching' = Neighbours(current) \ nodes
    /\ pc' = IF fetching' = {} THEN "visit" ELSE "fetch"
    /\ UNCHANGED <<start, ways, visited, current, nodes, edges, lineage>>
    /\ Quiet

(* An asset visited while it was missing stays out of the graph.           *)
Fetch(asset) ==
    /\ pc = "fetch" /\ asset \in fetching
    /\ nodes' = nodes \cup (({asset} \cap DOMAIN assets) \ visited)
    /\ fetching' = fetching \ {asset}
    /\ pc' = IF fetching' = {} THEN "visit" ELSE "fetch"
    /\ UNCHANGED <<start, ways, queue, visited, current, edges, lineage>>
    /\ Quiet

(* The second pass queries every visited asset again, to add the edges; a  *)
(* dependency with both ends visited is added from each of its ends.       *)
BeginEdges ==
    /\ pc = "visit" /\ queue = <<>>
    /\ pc' = "edges" /\ fetching' = visited
    /\ UNCHANGED <<start, ways, queue, visited, current, nodes, edges, lineage>>
    /\ Quiet

RowsFor(asset) ==
    {d \in (IF "up" \in ways THEN UpstreamRows(asset) ELSE {})
               \cup (IF "down" \in ways THEN DownstreamRows(asset) ELSE {}) :
        {d.up, d.down} \subseteq nodes}

(* add_edge does not look whether the edge is there.                       *)
Added(rows) ==
    [e \in DOMAIN edges \cup {<<d.up, d.down>> : d \in rows} |->
        (IF e \in DOMAIN edges THEN edges[e] ELSE 0)
            + Cardinality({d \in rows : <<d.up, d.down>> = e})]

AddEdges(asset) ==
    /\ pc = "edges" /\ asset \in fetching
    /\ edges' = Added(RowsFor(asset))
    /\ fetching' = fetching \ {asset}
    /\ UNCHANGED <<pc, start, ways, queue, visited, current, nodes, lineage>>
    /\ Quiet

AnswerCommand ==
    /\ pc = "edges" /\ fetching = {}
    /\ pc' = "answered"
    /\ UNCHANGED <<start, ways, queue, visited, current, fetching, nodes, edges, lineage>>
    /\ Quiet

(* The command ends; another client will ask.                              *)
Forget ==
    /\ pc = "answered"
    /\ pc' = "idle" /\ start' = NoAsset /\ ways' = {} /\ queue' = <<>>
    /\ visited' = {} /\ current' = NoAsset /\ nodes' = {}
    /\ edges' = <<>> /\ lineage' = {} /\ kept' = {} /\ seen' = {}
    /\ UNCHANGED <<catalogVars, fetching, changes>>

Next ==
    \/ ChangeCatalog
    \/ \E a \in Assets : BeginStorage(a) \/ Fetch(a) \/ AddEdges(a)
    \/ \E a \in Assets, flags \in SUBSET {"up", "down"} : BeginCommand(a, flags)
    \/ VisitStorage \/ AnswerStorage
    \/ Skip \/ Visit \/ Expand \/ BeginEdges \/ AnswerCommand
    \/ Forget

Spec == Init /\ [][Next]_lineageVars

-----------------------------------------------------------------------------
(* LineageQuery::traverse_with_depth: the assets first met at each depth   *)
(* from 1; the start itself is met when a cycle leads back to it.          *)
Adjacent(pairs, way, from) ==
    IF way = "up" THEN {p[1] : p \in {q \in pairs : q[2] \in from}}
                  ELSE {p[2] : p \in {q \in pairs : q[1] \in from}}
Met(pairs, way, a) ==
    LET upTo[n \in Nat] ==
            IF n = 0 THEN {}
            ELSE upTo[n - 1] \cup
                 Adjacent(pairs, way, IF n = 1 THEN {a} ELSE upTo[n - 1])
    IN  upTo
Depths == 1..Cardinality(Assets)
Pairs(rows) == {<<d.up, d.down>> : d \in rows}

(* Undirected distance, for the walk of the storage.                       *)
Near(rows, a) ==
    LET within[n \in Nat] ==
            IF n = 0 THEN {a}
            ELSE within[n - 1]
                 \cup {d.up : d \in {r \in rows : r.down \in within[n - 1]}}
                 \cup {d.down : d \in {r \in rows : r.up \in within[n - 1]}}
    IN  within

(* get_asset_lineage misses nothing that was there all along: every        *)
(* dependency that touches an asset less than max_depth steps away, by     *)
(* dependencies that stayed, is returned, whatever came and went between   *)
(* its queries; and what it returns was in the table at some time, and is  *)
(* connected to the asset through rows it returns.                         *)
LineageComplete ==
    pc = "answered" /\ ways = {} =>
        /\ MaxDepth > 0 =>
              \A d \in kept :
                  {d.up, d.down} \cap Near(kept, start)[MaxDepth - 1] # {}
                      => d \in lineage
        /\ lineage \subseteq seen
        /\ \A d \in lineage : d.up \in Near(lineage, start)[MaxDepth]

(* The command reports every ancestor and descendant that was one all      *)
(* along, no deeper than it is, and nothing that is not connected by       *)
(* dependencies that were there at some time.                              *)
ReportRight ==
    pc = "answered" /\ ways # {} =>
        \A way \in ways, n \in Depths :
            /\ Met(Pairs(kept), way, start)[n]
                  \subseteq Met(DOMAIN edges, way, start)[n]
            /\ Met(DOMAIN edges, way, start)[n]
                  \subseteq Met(Pairs(seen), way, start)[n]
=============================================================================

----------------------- MODULE MCUpstreamPropagation -----------------------
(***************************************************************************)
(* Model-checking instances of UpstreamPropagation, and what its           *)
(* documentation promises and the code does not keep.                      *)
(***************************************************************************)
EXTENDS UpstreamPropagation, TLC

\* Executors are interchangeable (safety runs only).
ExecutorSymmetry == Permutations(Executors)

Everything == {Children}
Anything == SUBSET Children

\* Upstream assets in a chain, each child at a depth of its own ...
ChainOrder ==
    CHOOSE f \in [Children -> 0 .. Cardinality(Children) - 1] :
        \A c, d \in Children : f[c] = f[d] => c = d

\* ... or all direct dependencies of the parent.
FlatOrder == [c \in Children |-> 0]

(* backfill_executor.rs: "Wait for all upstream jobs to complete before     *)
(* processing the parent".  The parent's partitions are not processed       *)
(* while one of its children is unfinished.                                 *)
ParentWaits ==
    (\E e \in Executors : pc[e] = "work" /\ job[e] = Parent)
        => \A c \in Children : state[c] = "completed"

(* migration 010: "0 = furthest upstream, execute first".  A child is       *)
(* worked on only when the children further upstream are complete.          *)
UpstreamChildrenFirst ==
    \A e \in Executors : pc[e] = "work" /\ job[e] \in Children =>
        \A c \in Children : Order[c] < Order[job[e]] => state[c] = "completed"
=============================================================================

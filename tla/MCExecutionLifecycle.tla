----------------------- MODULE MCExecutionLifecycle -----------------------
(* Instances of ExecutionLifecycle for TLC.                                *)
EXTENDS ExecutionLifecycle, TLC

Symmetry == Permutations(Clients) \cup Permutations(Workers)
=============================================================================

-------------------------- MODULE MCNetworkConditions --------------------------
(***************************************************************************)
(* An instance of NetworkConditions for TLC: two subscriptions of a number *)
(* that may have one, two worker threads, and the retention sweep.         *)
(***************************************************************************)
EXTENDS NetworkConditions, TLC

Symmetry == Permutations(Sub) \cup Permutations(Task)
=============================================================================

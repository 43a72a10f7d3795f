--------------------------- MODULE MCRepositoryRun ---------------------------
(***************************************************************************)
(* The instances of RepositoryRun and RepositoryView for TLC.              *)
(***************************************************************************)
EXTENDS RepositoryView, TLC

\* The deterministic plan.
DeterministicPlan ==
  <<"frame", "inspect", "design", "patch", "verify", "repair", "review", "finalize">>

Symmetry == Permutations(Process) \cup Permutations(Request) \cup Permutations(Content)
=============================================================================

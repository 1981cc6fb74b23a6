---------------------------- MODULE MCRunLedger ----------------------------
(***************************************************************************)
(* RunLedger, and the mapping to StepLifecycle, on a small directory.      *)
(***************************************************************************)
EXTENDS LedgerLifecycle, TLC

Symmetry == Permutations(Procs) \cup Permutations(Inodes) \cup Permutations(Bodies)
=============================================================================

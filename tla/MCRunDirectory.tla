----------------------------- MODULE MCRunDirectory -----------------------------
(* RunDirectory with two processes, two states of the source and two slots. *)
EXTENDS RunDirectoryInvariant, TLC

DirectorySymmetry == Permutations(Process) \cup Permutations(CohortId)
================================================================================

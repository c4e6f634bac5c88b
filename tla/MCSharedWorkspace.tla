---- MODULE MCSharedWorkspace ----
(* Two processes that continue an interrupted run, or each other's runs,  *)
(* and two collections that may overlap.                                   *)
EXTENDS SharedWorkspace, TLC

Symmetry == Permutations(Processes) \cup Permutations(Collectors)
====

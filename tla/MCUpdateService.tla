--------------------------- MODULE MCUpdateService ---------------------------
(* Instances of the update service for TLC: the values of the constants are in *)
(* the configurations; callers, and workers, are interchangeable.              *)
EXTENDS UpdateService, TLC

Symmetry == Permutations(Callers) \cup Permutations(Workers)
=============================================================================

-------------------------- MODULE MCMappingErrors --------------------------
(* Small instances of MappingErrors for TLC. *)
EXTENDS MappingErrors, TLC

Symmetry == Permutations(Exports) \cup Permutations(Attrs) \cup Permutations(Tasks)
=============================================================================

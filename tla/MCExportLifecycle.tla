------------------------- MODULE MCExportLifecycle -------------------------
(* Small instances of ExportLifecycle for TLC. *)
EXTENDS ExportLifecycle, TLC

DocSymmetry == Permutations(Docs)
ActorSymmetry == Permutations(Docs) \cup Permutations(Chains) \cup Permutations(Pollers)
=============================================================================

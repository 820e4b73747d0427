-------------------------- MODULE MCExportWorkers --------------------------
(* Two exports, so that one can be the last of a chain and one not.          *)
EXTENDS ExportWorkers

MCExports == {1, 2}
=============================================================================

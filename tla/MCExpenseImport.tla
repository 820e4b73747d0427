-------------------------- MODULE MCExpenseImport --------------------------
(* Small instances of ExpenseImport for TLC. *)
EXTENDS ExpenseImport

SymImporters == {[i \in Importers |-> p[i]] :
                   p \in {f \in [Importers -> Importers] :
                            \A i, j \in Importers : f[i] = f[j] => i = j}}
=============================================================================

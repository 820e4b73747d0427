------------------------- MODULE MCFundSourceChange -------------------------
(***************************************************************************)
(* Instances of FundSourceChange for TLC.                                  *)
(***************************************************************************)
EXTENDS FundSourceChange, TLC

CONSTANTS x1, x2, r1, r2, r3, h1

MCSymmetry == Permutations(Expenses) \cup Permutations(Rows)

\* The two fund sources may be grouped in every way.
AnyWay == [Funds -> {"report", "expense"}]

\* The reimbursable expenses one by one, the card's by report.
CardByReport == {[f \in Funds |-> IF f = "CCC" THEN "report" ELSE "expense"]}
=============================================================================

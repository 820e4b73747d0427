-------------------------- MODULE MCDependentFields --------------------------
(* Small instances of DependentFields for TLC: two jobs, each with a cost code
   of the same name and one category. *)
EXTENDS DependentFields, TLC

CONSTANTS j1, j2, k1, k2, c1, c2, n1

MCJobOf == (k1 :> j1) @@ (k2 :> j2)
MCCodeOf == (c1 :> k1) @@ (c2 :> k2)
\* The second job has no cost code yet.
MCSageAtStart == (j1 :> 1) @@ (k1 :> 2) @@ (c1 :> 3) @@ (j2 :> 4) @@ (k2 :> 0) @@ (c2 :> 0)
MCNameOf == (k1 :> n1) @@ (k2 :> n1)
=============================================================================

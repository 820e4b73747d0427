--------------------------- MODULE MCWorkspaceRow ---------------------------
(* Small instances of WorkspaceRow for TLC. *)
EXTENDS WorkspaceRow, TLC

CONSTANTS r1, r2, w1, w2, personal, ccc, e1, e2, s1, s2

MCTwoFunds == (e1 :> personal) @@ (e2 :> ccc)
MCOneFund == (e1 :> personal)

MCSymmetry == Permutations(Requests) \cup Permutations(Workers)
=============================================================================

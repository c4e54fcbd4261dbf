------------------------- MODULE MCUpdateRefinement -------------------------
(***************************************************************************)
(* The refinement and the settlement on two releases and both policies.    *)
(***************************************************************************)
EXTENDS UpdateRefinement, TLC

CONSTANTS p1, p2, p3, c1, c2

MCCommitOf == (p1 :> c1) @@ (p2 :> c2) @@ (p3 :> c2)
MCPolicyOf == (p1 :> "rollback") @@ (p2 :> "rollback") @@ (p3 :> "keep-failed-stopped")

Identifiers == Permutations(Tx)
=============================================================================

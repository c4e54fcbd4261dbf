--------------------------- MODULE MCTargetEngine ---------------------------
(***************************************************************************)
(* Small instances of TargetEngine: two releases, packages of both         *)
(* policies, two transactions.                                             *)
(***************************************************************************)
EXTENDS TargetEngineInvariants, TLC

CONSTANTS p1, p2, p3, c1, c2

MCCommitOf == [p \in Package |-> IF p = p1 THEN c1 ELSE c2]
MCPolicyOf == [p \in Package |-> IF p = p3 THEN "keep-failed-stopped" ELSE "rollback"]

Identifiers == Permutations(Tx)
=============================================================================

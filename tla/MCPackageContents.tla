-------------------------- MODULE MCPackageContents --------------------------
(***************************************************************************)
(* A root with two versions, of which the newer one adds a submodule.      *)
(***************************************************************************)
EXTENDS PackageContents, TLC

CONSTANTS r, s, r1, r2, s1

MCNodeOf == [c \in Commit |-> IF c \in {r1, r2} THEN r ELSE s]
MCAncestry == {<<r1, r2>>}
MCGitlinks == [c \in {r1, r2} |-> [n \in Child |-> IF c = r1 THEN None ELSE s1]]

Identifiers == Permutations(Package)
=============================================================================

----------------------------- MODULE MCDelivery -----------------------------
(***************************************************************************)
(* Small instances of Delivery: one target, two versions of one            *)
(* repository, the newer of which adds a submodule, one or two media.      *)
(***************************************************************************)
EXTENDS DeliveryRefinement, TLC

CONSTANTS r1, s1, c1, c2, d1, m1, m2, k1, k2

MCRepoOf == [c \in Commit |-> IF c = d1 THEN s1 ELSE r1]
MCAncestry == {<<c1, c2>>} \cap (Commit \X Commit)
MCGitlinks == {<<c2, d1>>} \cap (Commit \X Commit)
\* Each medium has one mount point; TLC takes the ones in Mount.
MCMediumOf == [k \in Mount |-> IF k = k1 THEN m1 ELSE m2]
\* One medium, mounted twice.
MCOneMedium == [k \in Mount |-> m1]

Identifiers == Permutations(PackageId)
=============================================================================

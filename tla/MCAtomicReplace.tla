--------------------------- MODULE MCAtomicReplace ---------------------------
(***************************************************************************)
(* Two calls of atomic_replace and one of core.atomic_write.               *)
(***************************************************************************)
EXTENDS AtomicReplaceInvariants, TLC

CONSTANTS a1, a2, w1

Calls == Permutations({a1, a2})
=============================================================================

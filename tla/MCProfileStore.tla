--------------------------- MODULE MCProfileStore ---------------------------
(***************************************************************************)
(* Small instances of ProfileStore: two processes, three clones of which   *)
(* two have one remote.                                                    *)
(***************************************************************************)
EXTENDS RegistryRefinement, TLC

CONSTANTS s1, s2, s3, g1, g2

MCRemoteOf == [s \in Source |-> IF s = s3 THEN g2 ELSE g1]

Identifiers ==
  Permutations(Id) \cup Permutations(Process) \cup Permutations({s1, s2})
  \cup Permutations(Settings) \cup Permutations(Token)
=============================================================================

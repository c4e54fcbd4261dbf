--------------------------- MODULE MCCommandRunner ---------------------------
(***************************************************************************)
(* Small instances of CommandRunner: a leader with one descendant.         *)
(***************************************************************************)
EXTENDS CommandRunnerInvariants
=============================================================================

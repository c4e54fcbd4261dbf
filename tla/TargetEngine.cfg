\* Crashes, raising steps and a record that can not be read.
SPECIFICATION Spec
CONSTANTS
  p1 = p1
  p2 = p2
  p3 = p3
  c1 = c1
  c2 = c2
  Package = {p1, p2, p3}
  Commit = {c1, c2}
  Tx = {t1, t2}
  CommitOf <- MCCommitOf
  PolicyOf <- MCPolicyOf
  HasUnit = TRUE
  MaxFaults = 2
  MaxUnreadable = 1
  MaxCrashes = 2
SYMMETRY Identifiers
INVARIANTS
  TypeOK
  OriginalPreserved
  ActiveReleaseReady
  WriteAhead
  SettledHasResult
  OneUnfinished
PROPERTIES
  RolledBackRestores
  CommitIsLive
  ReleaseNotRebuilt
  PhasesFollowMatrix

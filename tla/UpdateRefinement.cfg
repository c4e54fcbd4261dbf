\* The engine implements the atomic update, and settles every transaction while
\* boot and udev keep starting the scanner.
SPECIFICATION FairSpec
CONSTANTS
  p1 = p1
  p2 = p2
  p3 = p3
  c1 = c1
  c2 = c2
  Package = {p1, p2, p3}
  Commit = {c1, c2}
  Tx = {t1, t2}
  CommitOf <- MCCommitOf
  PolicyOf <- MCPolicyOf
  HasUnit = TRUE
  MaxFaults = 1
  MaxUnreadable = 0
  MaxCrashes = 2
PROPERTIES
  ImplementsUpdate
  EverySettles

\* A reported success can be rolled back by the next scan: packages of the policy
\* "rollback" only.
SPECIFICATION Spec
CONSTANTS
  p1 = p1
  p2 = p2
  p3 = p3
  c1 = c1
  c2 = c2
  Package = {p1, p2}
  Commit = {c1, c2}
  Tx = {t1, t2}
  CommitOf <- MCCommitOf
  PolicyOf <- MCPolicyOf
  HasUnit = TRUE
  MaxFaults = 0
  MaxUnreadable = 0
  MaxCrashes = 1
INVARIANTS
  SuccessIsCommitted

\* The same instance: a release whose first build failed.
SPECIFICATION Spec
CONSTANTS
  r = r
  s = s
  r1 = r1
  r2 = r2
  s1 = s1
  Root = r
  Child = {s}
  Commit = {r1, r2, s1}
  NodeOf <- MCNodeOf
  Ancestry <- MCAncestry
  Gitlinks <- MCGitlinks
  Package = {p1, p2}
SYMMETRY Identifiers
INVARIANTS
  ReleaseCanBeBuilt

\* A scanner that ends between a result and its queue.
SPECIFICATION FairSpec
CONSTANTS
  r1 = r1
  s1 = s1
  c1 = c1
  c2 = c2
  d1 = d1
  m1 = m1
  m2 = m2
  k1 = k1
  k2 = k2
  Root = {r1}
  Submodule = {s1}
  Commit = {c1}
  PackageId = {p1}
  Packager = {h1}
  Medium = {m1}
  Mount = {k1}
  RepoOf <- MCRepoOf
  Ancestry <- MCAncestry
  Gitlinks <- MCGitlinks
  MediumOf <- MCMediumOf
  MaxFaults = 1
PROPERTIES
  EveryResultQueued

\* Two processes at once, two raising writes and a crash anywhere.
\* Nothing has to happen in a store that nobody calls.
CHECK_DEADLOCK FALSE
SPECIFICATION Spec
CONSTANTS
  s1 = s1
  s2 = s2
  s3 = s3
  g1 = g1
  g2 = g2
  Process = {a1, a2}
  Id = {i1, i2, i3}
  Source = {s1, s2, s3}
  RemoteOf <- MCRemoteOf
  Settings = {e1, e2}
  Token = {k1, k2}
  MaxFaults = 2
  MaxCrashes = 1
SYMMETRY Identifiers
INVARIANTS
  TypeOK
  OneProfilePerSource
  AnswersAgree
  ProvenanceKept
  CrashesAreRepaired
PROPERTIES
  ImplementsRegistry

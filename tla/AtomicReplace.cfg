\* Three concurrent replacements of one file, failing calls and crashes.
SPECIFICATION Spec
CONSTANTS
  a1 = a1
  a2 = a2
  w1 = w1
  Call = {a1, a2, w1}
  Plain = {w1}
  Old = Old
  MaxFaults = 2
  MaxCrashes = 1
SYMMETRY Calls
INVARIANTS
  TypeOK
  SurvivorsAreWhole
  CommittedIsDurable
PROPERTIES
  ImplementsRegister
CHECK_DEADLOCK FALSE

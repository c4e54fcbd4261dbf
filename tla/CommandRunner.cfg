\* A leader, a descendant and two pipes of two bytes; two bytes are kept.
\* Once the call has returned nothing has to happen.
CHECK_DEADLOCK FALSE
SPECIFICATION FairSpec
CONSTANTS
  Leader = p1
  Descendant = {p2}
  Pipe = {out, err}
  PipeSize = 2
  Limit = 2
INVARIANTS
  TypeOK
  StoppedGroupIsGone
  CompletedIsWhole
  OverflowIsReported
  CancellationBeatsDeadline
PROPERTIES
  StoppedCallReturns

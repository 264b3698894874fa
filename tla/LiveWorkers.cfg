SPECIFICATION FairSpec
CONSTANTS
  Cycles = {c1, c2, c3}
  Streams = {p1, p2}
  None = None
  MaxFailures = 2
CHECK_DEADLOCK FALSE
INVARIANTS
  NoOrphan
  StatusIsTrue
PROPERTIES
  PausesWhenClosed
  ResumesWhenOpen
  ShutdownEnds

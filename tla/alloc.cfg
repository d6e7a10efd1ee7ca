CONSTANTS
  Threads = {t1, t2}
  Blocks = {b1, b2, b3}
  Nowhere = nowhere
  Sizes = {1, 3}
  Limits = {4, 20}
  MaxCalls = 5
SPECIFICATION Spec
SYMMETRY Symmetry
INVARIANTS
  TypeOK
  Accounting
  PeakCovers
  OverrunIsBounded
CHECK_DEADLOCK FALSE

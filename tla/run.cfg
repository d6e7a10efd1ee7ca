CONSTANTS
  w1 = w1
  w2 = w2
  w3 = w3
  Workers = {w1, w2, w3}
  QueryIds = {0, 1, 2}
  MaxTime = 3
  Dbs <- SampleDbs
  Owner <- SplitOwner
  Count <- DirectTally
  Rounds = 0
SPECIFICATION FairSpec
INVARIANTS
  TypeOK
  OutputIsFinal
  NoPanic
  RowsAreTally
PROPERTIES
  DrawsStepGraph
  Returns
CHECK_DEADLOCK FALSE

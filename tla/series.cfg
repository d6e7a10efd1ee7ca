CONSTANTS
  Inputs <- SampleInputs
  PerSecond = 2
  Mantissa = 8
  Kept = 2
  Moments = {2, 3, 5}
  MaxTime = 6
SPECIFICATION Spec
INVARIANTS
  SeriesIsStep
  SeriesAscends
  TotalIsAll
  WrittenIsClose
CHECK_DEADLOCK FALSE

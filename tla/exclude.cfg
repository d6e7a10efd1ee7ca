CONSTANTS
  Dumps <- SampleDumps
  Excludes = {{}, {"a"}}
  Limit = 8
  MaxTime = 2
SPECIFICATION Spec
PROPERTY
  ExcludeIgnoresSources
CHECK_DEADLOCK FALSE

CONSTANTS
  Dumps <- SampleDumps
  Excludes = {{}, {"a"}}
  Limit = 8
  MaxTime = 2
SPECIFICATION Spec
INVARIANTS
  TypeOK
  JudgedByThePast
  NoneIsOpenEnded
  KeepsWhatItNarrows
CHECK_DEADLOCK FALSE

CONSTANTS
  Rounds = 14
  Registries <- SampleRegistries
  MaxTime = 2
  MaxYanks = 1
  MaxReleases = 5
SPECIFICATION Spec
INVARIANTS
  CountsCrates
  CountedAreDependents
  ChainsAreCounted
PROPERTIES
  PastIsFinal
  ResolutionNeverRegresses
  LossIsExplained
CHECK_DEADLOCK FALSE

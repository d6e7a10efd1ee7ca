CONSTANTS
  Rounds = 10
  Registries <- DepSyntaxRegistries
  MaxTime = 1
  MaxYanks = 0
  MaxReleases = 3
SPECIFICATION Spec
INVARIANTS
  IndirectDependentsCount
CHECK_DEADLOCK FALSE

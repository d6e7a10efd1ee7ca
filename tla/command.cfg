CONSTANTS
  Dumps <- SampleDumps
  Folded <- FoldedNames
  MendedCrates <- OldCrates
  MendedReleases <- OldReleases
  KnownBroken <- NoneBroken
  Limit = 8
  QueryIds = {0, 1}
  MaxTime = 5
  Options <- SampleOptions
  Cpus = 4
  Edge = 1
  Rounds = 14
SPECIFICATION Spec
INVARIANTS
  TypeOK
  HandsOver
  DrawsTheDump
  PrintsBothEnds
CHECK_DEADLOCK FALSE

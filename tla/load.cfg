CONSTANTS
  Dumps <- AllDumps
  Folded <- FoldedNames
  MendedCrates <- CratesOfMend
  MendedReleases <- ReleasesOfMend
  KnownBroken <- ModbusTestServer
SPECIFICATION Spec
INVARIANTS
  TypeOK
  NeverPanics
  FailsOnlyIfBroken
  LoadedAsWritten
  IdsAreUnique
CHECK_DEADLOCK FALSE

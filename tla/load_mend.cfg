CONSTANTS
  Dumps <- YankedFirst
  Folded <- FoldedNames
  MendedCrates <- CratesOfMend
  MendedReleases <- ReleasesOfMend
  KnownBroken <- ModbusTestServer
SPECIFICATION Spec
INVARIANTS
  MendedAsDeleted
CHECK_DEADLOCK FALSE

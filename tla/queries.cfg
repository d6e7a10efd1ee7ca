CONSTANTS
  Tables <- SampleTables
  MendedCrates <- SampleMended
  CommandLines <- SampleLines
  Lower <- LowerParts
  Folded <- FoldedNames
  ValidNames = {"serde_json", "serde-json", "log", "nope", "git_version", "git-version", "xcm"}
  ValidParts = {"Alice", "alice", "bob", "Org", "org", "core"}
  ValidReqs = {"any", "^1"}
  NoReq = "any"
  IdLimit = 2
SPECIFICATION Spec
INVARIANTS
  TypeOK
  AsksWhatItSays
  FailsOnlyIfUnknown
  PanicsOnlyPastTheLimit
CHECK_DEADLOCK FALSE

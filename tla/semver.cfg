CONSTANTS
  MaxNumber = 2
  MaxPre = 2
SPECIFICATION Spec
INVARIANTS
  MatchesIsRange
  NoHole
  OrderTellsApart
CHECK_DEADLOCK FALSE

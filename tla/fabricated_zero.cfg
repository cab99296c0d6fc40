SPECIFICATION Spec
CONSTANTS
  K_VALUES = {1, 3}
  Items <- SomeItems
  Rankings <- SomeRankings
  Payloads <- SomePayloads
  Strategies = {"keyword", "hybrid"}
  MaxItems = 2
CHECK_DEADLOCK FALSE
INVARIANT UndefinedIsNotZero

CONSTANTS
  r1 = r1 r2 = r2
  large = large
  i1 = i1 i2 = i2
  RunIds = {r1, r2}
  Names = {large}
  Items = {i1, i2}
  ItemsOf <- TwoItems
  MaxTries = 2
  MaxInterrupts = 2
SPECIFICATION FairSpec
CHECK_DEADLOCK FALSE
INVARIANTS
  TypeOK
  ResultsAreWhole
  OnlyConfigurationFails
PROPERTY
  RequestedRunIsOver

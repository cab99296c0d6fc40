CONSTANTS
  a1 = a1 a2 = a2
  r1 = r1 r2 = r2 r3 = r3
  alpha = alpha beta = beta
  foreign = foreign none = none
  Processes = {a1, a2}
  Requests = {r1, r2}
  Names = {alpha}
  Foreign = foreign
  NoId = none
  PoolSize = 1
  ColumnWidth = 1024
  MaxKills = 1
  Deployments <- SomeDeployments
  Calls <- SomeCalls
SPECIFICATION FairSpec
CHECK_DEADLOCK FALSE
INVARIANTS
  TypeOK
  ConflictMeansDuplicate
  LosersFindTheRows
  LinesNameTheirRequest
  CreatedIsStored
  DeveloperStaysHome
PROPERTY
  EveryRequestIsAnswered

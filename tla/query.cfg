CONSTANTS
  K = 60
  FetchMultiplier = 1
  MinFetch = 2
  Stages = {"retrieval", "generation"}
  MaxSpans = 2
  Chunks = {1, 2, 3}
  TopK = 2
  Profiles <- SelectedProfiles
  Payloads <- SomePayloads
  MaxText = 2
  Failures = {"domain", "exception", "cancelled"}
SPECIFICATION Spec
CHECK_DEADLOCK FALSE
INVARIANTS
  TypeOK
  CitationsWereShown
  TracesBlameTheStage
  AgreementWins
  ArmsKeepTheirOrder
  GraphAgreesWithAnswer
  ComparisonIsConclusive
  SearchIsExplained
  ProfilesFollowTheText
  TimelineTellsWhatHappened
PROPERTY
  ImplementsAnswer

CONSTANTS
  K = 60
  FetchMultiplier = 1
  MinFetch = 2
  Stages = {"retrieval", "generation"}
  MaxSpans = 2
  Chunks = {1, 2}
  TopK = 2
  Profiles <- SelectedProfiles
  Payloads <- FewPayloads
  MaxText = 1
  Failures = {"exception"}
SPECIFICATION Spec
CHECK_DEADLOCK FALSE
INVARIANT
  EveryExecutionIsTraced

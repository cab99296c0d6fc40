SPECIFICATION Spec
CONSTANTS
  Documents <- SomeDocuments
  Settings <- SomeSettings
  MAX_RETRIES = 2
  Statuses = {400, 401, 409, 429, 422, 503}
  DEFAULT_CODE = "EMBEDDING_FAILED"
  EMBEDDING_BATCH_SIZE = 3
  MAX_BATCH_SIZE = 2
INVARIANTS OffsetsResolve NothingIsLost ChunksReachFurther VectorsAreAligned RetriesAreSpent
PROPERTIES EveryStepAdvances

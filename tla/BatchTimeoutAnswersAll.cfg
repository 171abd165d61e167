SPECIFICATION FairSpec
CONSTANTS
  Batches <- MCBatches
  Sizes = {0, 1, 2}
  RequestLimit = 3
  MaxSize = 2
  HasTimeout = TRUE
INVARIANT TimeoutAnswersAll
CHECK_DEADLOCK FALSE

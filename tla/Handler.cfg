SPECIFICATION HandlerFairSpec
CONSTANTS
  Msgs = {m1}
  Batches <- MCBatches
  Sizes = {0, 1, 2}
  RequestLimit = 3
  MaxSize = 2
  HasTimeout = TRUE
INVARIANTS OneResponse QuietAfterClose BatchAnswer
PROPERTIES BatchQuiet TimeoutAnswers
CHECK_DEADLOCK FALSE

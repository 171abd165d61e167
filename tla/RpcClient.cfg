CONSTANTS
  None = None
  Calls = {a, b, r}
  Reverse = {r}
  Deadline = {a}
  CanReconnect = TRUE
  MaxConns = 2
SPECIFICATION FairSpec
CHECK_DEADLOCK FALSE
INVARIANTS
  NoPanic
  NoLeak
  AnswerAwaited
PROPERTIES
  DeadlineReturns
  CloseReturns

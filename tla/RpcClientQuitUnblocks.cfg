CONSTANTS
  None = None
  Calls = {a}
  Reverse = {}
  Deadline = {}
  CanReconnect = TRUE
  MaxConns = 1
SPECIFICATION Spec
CHECK_DEADLOCK FALSE
INVARIANTS
  QuitUnblocks

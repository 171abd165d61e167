CONSTANTS
  PingInterval = 4
  PongTimeout = 4
  WriteTimeout = 2
  PingWriteTimeout = 1
  ReplyTicks = 2
  BusyTicks = 1
  MaxBuffered = 2
SPECIFICATION CodecFairSpec
CHECK_DEADLOCK FALSE
INVARIANTS
  AnsweringPeerKept
PROPERTIES
  DeadPeerDropped
  CloseEnds

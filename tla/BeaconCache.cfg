CONSTANTS
  Hooks = {h1}
  Monitor = monitor
  SLOTS_PER_EPOCH = SLOTS_PER_EPOCH
  Keys = {SLOTS_PER_EPOCH, SECONDS_PER_SLOT}
  Maps = {m1, m2, m3}
  MaxFails = 2
SPECIFICATION FairSpec
CHECK_DEADLOCK FALSE
INVARIANTS
  ZeroNeedsFault
  PoisonNeedsOverlap
PROPERTIES
  Repaired

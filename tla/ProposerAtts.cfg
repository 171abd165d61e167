CONSTANTS
  r1 = r1
  r2 = r2
  bad = bad
  Roots = {r1, r2, bad}
  BadRoots = {bad}
  SlotOf <- MCSlotOf
  Lens = {2, 3}
  MaxAttestations = 2
  MaxList = 4
  Sources <- MCSources
SPECIFICATION FairSpec
CHECK_DEADLOCK FALSE
INVARIANTS
  DedupMinimal
  NoVoteLost
PROPERTIES
  ListBuilt

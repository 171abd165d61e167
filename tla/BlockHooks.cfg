SPECIFICATION Spec
CONSTANTS
  SlotsPerEpoch = 3
  Validators = {0, 1, 2}
  Strategy <- MCStrategy
  Proposer <- MCProposer
  MaxEpoch = 1
INVARIANTS LeakExplained StopExplained DelayedToNextEpoch
PROPERTY StoppedOnlyByStaleHead
CHECK_DEADLOCK FALSE

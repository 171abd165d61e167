\* Two attackers that sign for the one slot of the epoch, and the slot after it.
SPECIFICATION FairSpec
CONSTANTS
  SlotsPerEpoch = 1
  Validators = {0, 1}
  Strategy <- MCStrategy
  KeyOf <- MCKeyOf
  Strangers = {}
  MaxEpoch = 0
  Makers = {m1}
INVARIANTS NoPanic StoredNotBroadcast CollectComplete CollectSound
PROPERTY CollectEnds
CHECK_DEADLOCK FALSE

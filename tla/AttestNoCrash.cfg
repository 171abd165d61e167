\* Two attackers that sign for the same slot, and a key of no validator.
SPECIFICATION Spec
CONSTANTS
  SlotsPerEpoch = 1
  Validators = {0, 1}
  Strategy <- MCStrategy
  KeyOf <- MCKeyOf
  Strangers = {"k2"}
  MaxEpoch = 0
  Makers = {m1}
INVARIANT NoCrash
CHECK_DEADLOCK FALSE
